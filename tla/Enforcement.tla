---------------------------- MODULE Enforcement ----------------------------
(***************************************************************************)
(* Sentinel's enforcement path: EnforcementService in                      *)
(* src/ontrak-sentinel/src/lib/enforcement-service.ts with the rails of    *)
(* enforcement-rules.ts, the expiry loop of enforcement-scheduler.ts and   *)
(* the HTTP plane of enforcement-plane.ts, for one organization.           *)
(*                                                                         *)
(* A call reads its record, the policy and the recent applications in      *)
(* separate awaits, saves the whole record, appends to the evidence chain, *)
(* and tells the plane.  Calls overlap freely; the store's save looks at   *)
(* no version.  The chain is the log of EvidenceLog: any append may throw, *)
(* and with it the call, and the entry may be stored all the same          *)
(* (EvidenceChain says when).                                              *)
(***************************************************************************)
EXTENDS Integers, FiniteSets

CONSTANTS
    Callers,        \* the calls people can have in flight at once
    Sweeper,        \* the expiry loop
    Actions,        \* the ids an action may get
    People,         \* requesters and approvers
    Proposals,      \* what may be proposed
    Policies,       \* the policies that may be stored
    DefaultPolicy,  \* the one in force before any is stored
    Hour,           \* the rolling hour, in ticks of the clock
    None,           \* no time, no person, no action
    MaxTime,        \* bound on the clock
    LastCall,       \* bound: no call begins after this time
    MaxCalls,       \* bound on the calls people make
    MaxStops        \* bound on the stops of the server

Writers == Callers \union {Sweeper}

Kinds == {"policy", "refused", "proposed", "applied", "lift",
          "plane.apply", "plane.lift", "plane.failed"}
\* The entries the properties tell apart; the others are appended, and not counted.
Counted == [kind : {"applied", "lift", "plane.failed"}, action : Actions]
Entry(kind, a) == [kind |-> kind, action |-> a]

ASSUME SweeperIsNoCaller == Sweeper \notin Callers
ASSUME NoneIsNobody == None \notin People /\ None \notin Actions
ASSUME NoneIsNoTime == None \notin Int
ASSUME DefaultIsPolicy == DefaultPolicy \in Policies
ASSUME ProposalsHaveRequesters == \A q \in Proposals : q.by \in People
ASSUME PoliciesAreRails == \A p \in Policies :
    p.maxActionsPerHour \in Nat /\ p.maxTargets \in Nat /\ p.ttl \in Nat
ASSUME OnePolicyIsLaxest == \E p \in Policies :
    \A r \in Policies : r.maxActionsPerHour <= p.maxActionsPerHour
ASSUME ActionsAreFinite == IsFiniteSet(Actions)
ASSUME BoundsAreNumbers == {Hour, MaxTime, MaxCalls, MaxStops} \subseteq Nat

VARIABLES
    policy,         \* the stored policy
    store,          \* store[a]: the enforcementAction row of a
    call,           \* call[w]: the call w is in, and what it has read
    due,            \* what the running sweep has left of its listing
    now,            \* the clock
    plane,          \* the actions the plane is enforcing
    wire,           \* the requests to the plane that are on their way
    log,            \* log[e]: how often e is on the evidence chain
    crossed,        \* history: actions saved or pushed over a newer record
    hasty,          \* history: actions applied on a view that had changed
    dropped,        \* history: actions whose call ended before its last step
    misread,        \* history: actions the plane left alone, and was taken at its word
    spent           \* how many calls were made and stops happened

vars == <<policy, store, call, due, now, plane, wire, log, crossed, hasty, dropped, misread, spent>>

States  == {"NONE", "PENDING", "ACTIVE", "LIFTED", "REFUSED"}
Records == [state : States, proposal : Proposals \union {None}, approver : People \union {None},
            appliedAt : Nat \union {None}, expiresAt : Nat \union {None}]
Unknown == [state |-> "NONE", proposal |-> None, approver |-> None,
            appliedAt |-> None, expiresAt |-> None]

CallPcs == {"idle", "policy", "view", "save", "chain", "plane", "next"}
Ops     == {"apply", "approve", "lift", "policy", "sweep"}
InCall  == [pc : CallPcs, op : Ops, action : Actions \union {None}, by : People \union {None},
            at : Nat, record : Records, policy : Policies, used : Nat,
            calm : BOOLEAN, entry : Kinds, after : {"push", "end"}]
Resting == [pc |-> "idle", op |-> "apply", action |-> None, by |-> None, at |-> 0,
            record |-> Unknown, policy |-> DefaultPolicy, used |-> 0,
            calm |-> TRUE, entry |-> "applied", after |-> "end"]

Messages == [op : {"apply", "lift"}, action : Actions, by : Writers, late : BOOLEAN]

TypeOK ==
    /\ policy \in Policies
    /\ store \in [Actions -> Records]
    /\ \A a \in Actions :
          /\ store[a].state = "NONE" <=> store[a] = Unknown
          /\ store[a].state # "NONE" => store[a].proposal \in Proposals
          /\ store[a].state \in {"ACTIVE", "LIFTED"} =>
                store[a].appliedAt \in Nat /\ store[a].approver \in People
    /\ call \in [Writers -> InCall]
    /\ due \subseteq Actions
    /\ now \in 0..MaxTime
    /\ plane \subseteq Actions
    /\ wire \subseteq Messages
    /\ log \in [Counted -> Nat]
    /\ crossed \subseteq Actions /\ hasty \subseteq Actions /\ dropped \subseteq Actions
    /\ misread \subseteq Actions
    /\ spent \in [calls : 0..MaxCalls, stops : 0..MaxStops]

Init ==
    /\ policy = DefaultPolicy
    /\ store = [a \in Actions |-> Unknown]
    /\ call = [w \in Writers |-> Resting]
    /\ due = {}
    /\ now = 0
    /\ plane = {}
    /\ wire = {}
    /\ log = [e \in Counted |-> 0]
    /\ crossed = {} /\ hasty = {} /\ dropped = {} /\ misread = {}
    /\ spent = [calls |-> 0, stops |-> 0]

InPc(w, pc) == call[w].pc = pc
Go(w, c)    == call' = [call EXCEPT ![w] = c]

-----------------------------------------------------------------------------
(***************************************************************************)
(* decideEnforcement.  A proposal without targets, reason or detection is  *)
(* refused before any of this, and is not among Proposals.                 *)
(***************************************************************************)
AtLeastOne(n) == IF n < 1 THEN 1 ELSE n

OnSafeList(q, p) == q.targets \intersect p.protectedTargets # {}

Allowed(q, permanent, p, used) ==
    /\ ~OnSafeList(q, p)
    /\ Cardinality(q.targets) <= AtLeastOne(p.maxTargets)
    /\ used < p.maxActionsPerHour
    /\ permanent => p.allowPermanent

\* The gate when no approval is on record, which is every proposal.
Immediate(q, p) == q.admin /\ ~p.requireSecondApprover

\* rollbackFor: when the action lifts itself.
Deadline(permanent, p, at) == IF permanent \/ p.ttl = 0 THEN None ELSE at + p.ttl

\* A mutation: only what is still in force is counted.
InForceBefore(at) ==
    {a \in Actions : /\ store[a].state = "ACTIVE"
                     /\ at < store[a].appliedAt + Hour
                     /\ store[a].appliedAt <= at}

\* railsView and actionsInLastHour: what was applied in the hour up to `at`.
AppliedBefore(at) ==
    {a \in Actions : /\ store[a].appliedAt # None
                     /\ at < store[a].appliedAt + Hour
                     /\ store[a].appliedAt <= at}

-----------------------------------------------------------------------------
(***************************************************************************)
(* The calls people make.  Each begins with its first read.                *)
(***************************************************************************)
MayCall(w) ==
    /\ w \in Callers /\ InPc(w, "idle")
    /\ spent.calls < MaxCalls /\ now <= LastCall
    /\ spent' = [spent EXCEPT !.calls = @ + 1]

Fresh(a) == store[a].state = "NONE" /\ \A w \in Writers : call[w].action # a

ApplyBegins(w, q, a) ==
    /\ MayCall(w) /\ Fresh(a)
    /\ Go(w, [Resting EXCEPT !.pc = "view", !.op = "apply", !.action = a,
                             !.at = now, !.record = [Unknown EXCEPT !.proposal = q],
                             !.policy = policy])
    /\ UNCHANGED <<policy, store, due, now, plane, wire, log, crossed, hasty, dropped, misread>>

\* A mutation: whoever is an administrator may approve, the requester too.
ApproveOwnBegins(w, a, by) ==
    /\ MayCall(w)
    /\ store[a].state = "PENDING"
    /\ Go(w, [Resting EXCEPT !.pc = "policy", !.op = "approve", !.action = a, !.by = by,
                             !.at = now, !.record = store[a]])
    /\ UNCHANGED <<policy, store, due, now, plane, wire, log, crossed, hasty, dropped, misread>>

\* findAction, and the two checks an approval passes or answers.
ApproveBegins(w, a, by) ==
    /\ MayCall(w)
    /\ store[a].state = "PENDING"
    /\ store[a].proposal.by # by
    /\ Go(w, [Resting EXCEPT !.pc = "policy", !.op = "approve", !.action = a, !.by = by,
                             !.at = now, !.record = store[a]])
    /\ UNCHANGED <<policy, store, due, now, plane, wire, log, crossed, hasty, dropped, misread>>

LiftBegins(w, a) ==
    /\ MayCall(w)
    /\ store[a].state = "ACTIVE"
    /\ Go(w, [Resting EXCEPT !.pc = "save", !.op = "lift", !.action = a,
                             !.record = store[a]])
    /\ UNCHANGED <<policy, store, due, now, plane, wire, log, crossed, hasty, dropped, misread>>

ReadPolicy(w) ==
    /\ InPc(w, "policy")
    /\ Go(w, [call[w] EXCEPT !.pc = "view", !.policy = policy])
    /\ UNCHANGED <<policy, store, due, now, plane, wire, log, crossed, hasty, dropped, misread, spent>>

\* railsView at the time the call began.
ReadView(w) ==
    /\ InPc(w, "view")
    /\ Go(w, [call[w] EXCEPT !.pc = "save",
                             !.used = Cardinality(AppliedBefore(call[w].at))])
    /\ UNCHANGED <<policy, store, due, now, plane, wire, log, crossed, hasty, dropped, misread, spent>>

-----------------------------------------------------------------------------
(***************************************************************************)
(* saveAction: the row is written whole, over whatever is there.           *)
(***************************************************************************)
Deciding(v) == call[v].pc \in {"policy", "view", "save"}

\* What the other calls have read of the rails is no longer so.
Unsettle(w, c) ==
    call' = [v \in Writers |-> IF v = w THEN c
                               ELSE IF Deciding(v) THEN [call[v] EXCEPT !.calm = FALSE]
                               ELSE call[v]]

Overwrites(w) == store[call[w].action] # call[w].record

Save(w, record, entry, after) ==
    /\ store' = [store EXCEPT ![call[w].action] = record]
    /\ crossed' = IF call[w].op # "apply" /\ Overwrites(w)
                  THEN crossed \union {call[w].action} ELSE crossed
    /\ hasty' = IF record.state = "ACTIVE" /\ ~call[w].calm
                THEN hasty \union {call[w].action} ELSE hasty
    /\ LET c == [Resting EXCEPT !.pc = "chain", !.op = call[w].op, !.action = call[w].action,
                                !.record = record, !.entry = entry, !.after = after]
       IN  IF record.state = "ACTIVE" THEN Unsettle(w, c) ELSE Go(w, c)
    /\ UNCHANGED <<policy, due, now, plane, wire, log, dropped, misread, spent>>

Proposed(w, permanent) == Allowed(call[w].record.proposal, permanent, call[w].policy, call[w].used)

\* apply on a proposal the rails let through: in force at once, or waiting.
SaveProposal(w) ==
    /\ InPc(w, "save") /\ call[w].op = "apply"
    /\ LET q == call[w].record.proposal
           p == call[w].policy
           expires == Deadline(q.permanent, p, call[w].at)
       IN  /\ Proposed(w, q.permanent)
           /\ \/ /\ Immediate(q, p)
                 /\ Save(w, [state |-> "ACTIVE", proposal |-> q, approver |-> q.by,
                             appliedAt |-> call[w].at, expiresAt |-> expires], "applied", "push")
              \/ /\ ~Immediate(q, p)
                 /\ Save(w, [state |-> "PENDING", proposal |-> q, approver |-> None,
                             appliedAt |-> None, expiresAt |-> expires], "proposed", "end")

\* apply on a proposal a rail refuses: evidence, and no row.
RefuseProposal(w) ==
    /\ InPc(w, "save") /\ call[w].op = "apply"
    /\ ~Proposed(w, call[w].record.proposal.permanent)
    /\ Go(w, [Resting EXCEPT !.pc = "chain", !.entry = "refused"])
    /\ UNCHANGED <<policy, store, due, now, plane, wire, log, crossed, hasty, dropped, misread, spent>>

(***************************************************************************)
(* approve: the rails again, as they are now.  A waiting action without a  *)
(* deadline is judged as a permanent one, and the gate the decision        *)
(* answers is not asked: the approval is what it was waiting for.          *)
(***************************************************************************)
WaitsForGood(w) == call[w].record.expiresAt = None

\* A mutation: the approval takes the decision of the proposal as made.
SaveApprovalUnasked(w) ==
    /\ InPc(w, "save") /\ call[w].op = "approve"
    /\ Save(w, [state |-> "ACTIVE", proposal |-> call[w].record.proposal,
                approver |-> call[w].by, appliedAt |-> call[w].at,
                expiresAt |-> Deadline(WaitsForGood(w), call[w].policy, call[w].at)],
            "applied", "push")

\* A mutation: the approval does not say when the action came into force.
SaveApprovalUntimed(w) ==
    /\ InPc(w, "save") /\ call[w].op = "approve"
    /\ Proposed(w, WaitsForGood(w))
    /\ Save(w, [call[w].record EXCEPT !.state = "ACTIVE", !.approver = call[w].by],
            "applied", "push")

SaveApproval(w) ==
    /\ InPc(w, "save") /\ call[w].op = "approve"
    /\ Proposed(w, WaitsForGood(w))
    /\ Save(w, [state |-> "ACTIVE", proposal |-> call[w].record.proposal,
                approver |-> call[w].by, appliedAt |-> call[w].at,
                expiresAt |-> Deadline(WaitsForGood(w), call[w].policy, call[w].at)],
            "applied", "push")

SaveRefusal(w) ==
    /\ InPc(w, "save") /\ call[w].op = "approve"
    /\ ~Proposed(w, WaitsForGood(w))
    /\ Save(w, [call[w].record EXCEPT !.state = "REFUSED"], "refused", "end")

\* A mutation: a lift is recorded, and the plane not told.
SaveLiftUntold(w) ==
    /\ InPc(w, "save") /\ call[w].op \in {"lift", "sweep"}
    /\ Save(w, [call[w].record EXCEPT !.state = "LIFTED"], "lift", "end")

\* lift, by hand or by the sweep: no rail is asked.
SaveLift(w) ==
    /\ InPc(w, "save") /\ call[w].op \in {"lift", "sweep"}
    /\ Save(w, [call[w].record EXCEPT !.state = "LIFTED"], "lift", "push")

\* setPolicy: stored whole, then appended.
SetPolicy(w, p) ==
    /\ MayCall(w)
    /\ policy' = p
    /\ Unsettle(w, [Resting EXCEPT !.pc = "chain", !.op = "policy", !.entry = "policy"])
    /\ UNCHANGED <<store, due, now, plane, wire, log, crossed, hasty, dropped, misread>>

-----------------------------------------------------------------------------
(***************************************************************************)
(* The append answers.  The call then tells the plane, or has only that    *)
(* answer left to give; a sweep goes to its next action.                   *)
(***************************************************************************)
Underway(a) == {m \in wire : m.action = a /\ ~m.late}

Appending(w)   == InPc(w, "chain")
Appended(w)    == Entry(call[w].entry, call[w].action)
EntryStored(w) == log' = [e \in Counted |-> IF e = Appended(w) THEN log[e] + 1 ELSE log[e]]

TellPlane(w) ==
    /\ Appending(w) /\ call[w].after = "push"
    /\ EntryStored(w)
    /\ LET a == call[w].action IN
        /\ wire' = wire \union
              {[op |-> IF call[w].record.state = "ACTIVE" THEN "apply" ELSE "lift",
                action |-> a, by |-> w, late |-> FALSE]}
        /\ crossed' = IF Overwrites(w) \/ Underway(a) # {} THEN crossed \union {a} ELSE crossed
    /\ Go(w, [call[w] EXCEPT !.pc = "plane", !.after = "end"])
    /\ UNCHANGED <<policy, store, due, now, plane, hasty, dropped, misread, spent>>

Returned(w) ==
    IF w = Sweeper THEN [Resting EXCEPT !.pc = "next", !.op = "sweep"] ELSE Resting

CallReturns(w) ==
    /\ Appending(w) /\ call[w].after = "end"
    /\ EntryStored(w)
    /\ Go(w, Returned(w))
    /\ UNCHANGED <<policy, store, due, now, plane, wire, crossed, hasty, dropped, misread, spent>>

\* A mutation: the loop's running flag is reset after a sweep that went well only.
CallThrowsForGood(w) ==
    /\ Appending(w)
    /\ EntryStored(w) \/ UNCHANGED log
    /\ Go(w, IF w = Sweeper THEN [Resting EXCEPT !.pc = "plane"] ELSE Resting)
    /\ due' = IF w = Sweeper THEN {} ELSE due
    /\ dropped' = dropped \union ({call[w].action} \ {None})
    /\ UNCHANGED <<policy, store, now, plane, wire, crossed, hasty, misread, spent>>

\* The append throws, and with it the call, or the whole sweep.
CallThrows(w) ==
    /\ Appending(w)
    /\ EntryStored(w) \/ UNCHANGED log
    /\ Go(w, Resting)
    /\ due' = IF w = Sweeper THEN {} ELSE due
    /\ dropped' = dropped \union ({call[w].action} \ {None})
    /\ UNCHANGED <<policy, store, now, plane, wire, crossed, hasty, misread, spent>>

-----------------------------------------------------------------------------
(***************************************************************************)
(* pushToPlane over HTTP.  A 2xx is success unless its body is JSON that   *)
(* says {ok: false}, and any other answer is a failure, whatever the plane *)
(* has done; or it is not heard from in time, which says nothing of what   *)
(* becomes of the request.                                                 *)
(***************************************************************************)
Answered(w, entry) == Go(w, [call[w] EXCEPT !.pc = "chain", !.entry = entry])

Does(m) == plane' = IF m.op = "apply" THEN plane \union {m.action} ELSE plane \ {m.action}

PlaneDoes(m) ==
    /\ ~m.late
    /\ Does(m)
    /\ wire' = wire \ {m}
    /\ Answered(m.by, IF m.op = "apply" THEN "plane.apply" ELSE "plane.lift")
    /\ UNCHANGED <<policy, store, due, now, log, crossed, hasty, dropped, misread, spent>>

\* A page of a proxy, an empty body, JSON without an answer: with a 2xx it is
\* success, though the plane did nothing.
PlaneIgnores(m) ==
    /\ ~m.late
    /\ wire' = wire \ {m}
    /\ misread' = misread \union {m.action}
    /\ Answered(m.by, IF m.op = "apply" THEN "plane.apply" ELSE "plane.lift")
    /\ UNCHANGED <<policy, store, due, now, plane, log, crossed, hasty, dropped, spent>>

\* No 2xx, or {ok: false}: the plane, or what is before it, may have done it.
PlaneRefuses(m) ==
    /\ ~m.late
    /\ Does(m) \/ UNCHANGED plane
    /\ wire' = wire \ {m}
    /\ Answered(m.by, "plane.failed")
    /\ UNCHANGED <<policy, store, due, now, log, crossed, hasty, dropped, misread, spent>>

PlaneTimesOut(m) ==
    /\ ~m.late
    /\ wire' = (wire \ {m}) \union {[m EXCEPT !.late = TRUE]}
    /\ Answered(m.by, "plane.failed")
    /\ UNCHANGED <<policy, store, due, now, plane, log, crossed, hasty, dropped, misread, spent>>

\* A request nobody waits for any more is still done, or is lost.
PlaneDoesLate(m) ==
    /\ m.late
    /\ wire' = wire \ {m}
    /\ Does(m) \/ UNCHANGED plane
    /\ UNCHANGED <<policy, store, call, due, now, log, crossed, hasty, dropped, misread, spent>>

-----------------------------------------------------------------------------
(***************************************************************************)
(* The expiry loop: one sweep at a time, of the actions the listing had.   *)
(***************************************************************************)
Expired(a) ==
    /\ store[a].state = "ACTIVE"
    /\ store[a].expiresAt # None
    /\ store[a].expiresAt <= now

StartSweep ==
    /\ InPc(Sweeper, "idle")
    /\ due' = {a \in Actions : Expired(a)}
    /\ due' # {}
    /\ Go(Sweeper, Returned(Sweeper))
    /\ UNCHANGED <<policy, store, now, plane, wire, log, crossed, hasty, dropped, misread, spent>>

\* A mutation: the sweep lifts what its listing had, without lift's own check.
SweepNextUnchecked(a) ==
    /\ InPc(Sweeper, "next") /\ a \in due
    /\ due' = due \ {a}
    /\ Go(Sweeper, [Resting EXCEPT !.pc = "save", !.op = "sweep", !.action = a,
                                   !.record = store[a]])
    /\ UNCHANGED <<policy, store, now, plane, wire, log, crossed, hasty, dropped, misread, spent>>

SweepNext(a) ==
    /\ InPc(Sweeper, "next") /\ a \in due
    /\ due' = due \ {a}
    /\ IF store[a].state = "ACTIVE"
       THEN Go(Sweeper, [Resting EXCEPT !.pc = "save", !.op = "sweep", !.action = a,
                                        !.record = store[a]])
       ELSE UNCHANGED call
    /\ UNCHANGED <<policy, store, now, plane, wire, log, crossed, hasty, dropped, misread, spent>>

EndSweep ==
    /\ InPc(Sweeper, "next") /\ due = {}
    /\ Go(Sweeper, Resting)
    /\ UNCHANGED <<policy, store, due, now, plane, wire, log, crossed, hasty, dropped, misread, spent>>

Tick ==
    /\ now < MaxTime
    /\ now' = now + 1
    /\ UNCHANGED <<policy, store, call, due, plane, wire, log, crossed, hasty, dropped, misread, spent>>

(***************************************************************************)
(* The server stops.  Its requests to the plane may still arrive.          *)
(***************************************************************************)
StopServer ==
    /\ spent.stops < MaxStops
    /\ spent' = [spent EXCEPT !.stops = @ + 1]
    /\ call' = [w \in Writers |-> Resting]
    /\ due' = {}
    /\ dropped' = dropped \union ({call[w].action : w \in Writers} \ {None})
    /\ wire' = {[m EXCEPT !.late = TRUE] : m \in wire}
    /\ UNCHANGED <<policy, store, now, plane, log, crossed, hasty, misread>>

CallStep(w) ==
    \/ ReadPolicy(w) \/ ReadView(w)
    \/ SaveProposal(w) \/ RefuseProposal(w) \/ SaveApproval(w) \/ SaveRefusal(w) \/ SaveLift(w)
    \/ TellPlane(w) \/ CallReturns(w) \/ CallThrows(w)

PlaneStep(m) == PlaneDoes(m) \/ PlaneIgnores(m) \/ PlaneRefuses(m) \/ PlaneTimesOut(m)

Next ==
    \/ \E w \in Writers : CallStep(w)
    \/ \E m \in wire : PlaneStep(m) \/ PlaneDoesLate(m)
    \/ \E w \in Writers, a \in Actions, q \in Proposals : ApplyBegins(w, q, a)
    \/ \E w \in Writers, a \in Actions, by \in People : ApproveBegins(w, a, by)
    \/ \E w \in Writers, a \in Actions : LiftBegins(w, a)
    \/ \E w \in Writers, p \in Policies : SetPolicy(w, p)
    \/ StartSweep \/ EndSweep \/ \E a \in Actions : SweepNext(a)
    \/ Tick
    \/ StopServer

(***************************************************************************)
(* The clock and the timer go on; the database, the plane or its timeout   *)
(* answer the sweep; a stopped server is started again.                    *)
(***************************************************************************)
Sweeping == StartSweep \/ EndSweep \/ (\E a \in Actions : SweepNext(a))
            \/ CallStep(Sweeper)
            \/ (\E m \in wire : m.by = Sweeper /\ PlaneStep(m))

Spec == Init /\ [][Next]_vars /\ WF_vars(Tick) /\ WF_vars(Sweeping)

-----------------------------------------------------------------------------
(***************************************************************************)
(* An action lives the life ActionLife promises, an approval by its own    *)
(* requester included in what may not happen, unless two callers crossed   *)
(* on it: saved over a record newer than the one they read.                *)
(***************************************************************************)
Life == INSTANCE ActionLife WITH
    life     <- [a \in Actions |-> store[a].state],
    asked    <- [a \in Actions |->
                    IF store[a].proposal = None THEN None ELSE store[a].proposal.by],
    approved <- [a \in Actions |-> store[a].approver]

ImplementsLife == Life!LifeSpec

(***************************************************************************)
(* "Never grandfathered past": an action that comes into force is off the  *)
(* safe list and within the cap of the policy stored at that moment,       *)
(* however long it waited for its approval.  A call whose reads were       *)
(* overtaken by another change of the rails is excepted.                   *)
(***************************************************************************)
SafeListHolds ==
    [][\A w \in Writers :
        /\ InPc(w, "save") /\ call'[w].pc = "chain" /\ call[w].calm
        /\ call'[w].record.state = "ACTIVE"
        => /\ ~OnSafeList(call[w].record.proposal, policy)
           /\ Cardinality(call[w].record.proposal.targets) <= AtLeastOne(policy.maxTargets)]_vars

(***************************************************************************)
(* In no rolling hour were more actions applied than any policy allows,    *)
(* lifted ones included.  Not counted are the ones decided while another   *)
(* was being applied, and the ones two callers crossed on: a record saved  *)
(* over a newer one can take back that an action was applied, and a third  *)
(* caller put it there again.                                              *)
(***************************************************************************)
MostPerHour == CHOOSE n \in {p.maxActionsPerHour : p \in Policies} :
                   \A p \in Policies : p.maxActionsPerHour <= n

AppliedInHourTo(t) == {a \in Actions : store[a].appliedAt \in (t - Hour + 1)..t}

RateLimitHolds ==
    \A t \in 0..now :
        Cardinality(AppliedInHourTo(t) \ (hasty \union crossed)) <= MostPerHour

Times(kind, a)    == log[Entry(kind, a)]
Recorded(kind, a) == Times(kind, a) > 0
AtRest(a) == (\A w \in Writers : call[w].action # a) /\ (\A m \in wire : m.action # a)

(***************************************************************************)
(* "The block is approved" and "the block reached something that can drop  *)
(* a packet": when nobody works on an action, the plane enforces it        *)
(* exactly if its record is ACTIVE, or the chain says that the plane       *)
(* failed, or the call that would have told it was cut short, or two       *)
(* callers crossed on it, or an answer of the plane was misread.           *)
(***************************************************************************)
PlaneMatchesRecord ==
    \A a \in Actions : AtRest(a) =>
        \/ a \in plane <=> store[a].state = "ACTIVE"
        \/ Recorded("plane.failed", a)
        \/ a \in dropped \union crossed \union misread

(***************************************************************************)
(* The comment of HttpEnforcementPlane: "the answer is believed only when  *)
(* it is a 2xx with { ok: true } - anything else", a body that is not JSON *)
(* among it, "is an outcome the chain records".  A plane that did not do   *)
(* what it was asked, and did not say it had, is then on the chain as one  *)
(* that failed.                                                            *)
(***************************************************************************)
FailureIsRecorded ==
    \A a \in Actions : AtRest(a) =>
        \/ a \in plane <=> store[a].state = "ACTIVE"
        \/ Recorded("plane.failed", a)
        \/ a \in dropped \union crossed

(***************************************************************************)
(* The evidence tells the record's story: unless two callers crossed on    *)
(* an action it is applied once and lifted once on the chain, and not      *)
(* otherwise than the record says; and unless a call was cut short,        *)
(* nothing the record says is missing from the chain.                      *)
(***************************************************************************)
EvidenceMatchesRecord ==
    \A a \in Actions \ crossed :
        /\ Times("applied", a) <= 1 /\ Times("lift", a) <= 1
        /\ Times("lift", a) = 1 => store[a].state = "LIFTED"
        /\ Times("applied", a) = 1 => store[a].state \in {"ACTIVE", "LIFTED"}
        /\ AtRest(a) /\ a \notin dropped =>
              /\ store[a].state \in {"ACTIVE", "LIFTED"} <=> Times("applied", a) = 1
              /\ store[a].state = "LIFTED" <=> Times("lift", a) = 1

(***************************************************************************)
(* "The TTL is real": an action in force that has a deadline does not stay *)
(* in force, whoever crosses on it, whatever the plane and the chain       *)
(* answer, and although the server may stop during a sweep.                *)
(***************************************************************************)
DeadlineIsKept ==
    \A a \in Actions :
        (store[a].state = "ACTIVE" /\ store[a].expiresAt # None) ~> (store[a].state # "ACTIVE")
=============================================================================
