------------------------- MODULE Enforcement_proofs -------------------------
(***************************************************************************)
(* What holds of enforcement for any callers, actions, proposals and       *)
(* policies, any bounds on time, calls and stops: types, the life of an    *)
(* action, the safe list and the rate limit, and the story that record,    *)
(* evidence and plane tell.                                                *)
(***************************************************************************)
EXTENDS Enforcement, FiniteSetTheorems, TLAPS

InForce == {"ACTIVE", "LIFTED"}

\* What is true of a row, and of every copy of one.
IsRow(r) ==
    /\ r.state = "NONE" => r.appliedAt = None
    /\ r.state # "NONE" => r.proposal \in Proposals
    /\ r.state = "PENDING" => r.appliedAt = None
    /\ r.state \in InForce => r.appliedAt \in Nat /\ r.approver \in People

\* What a call carries, by the place it is at.
InOrder(w, c) ==
    /\ IsRow(c.record)
    /\ c.pc = "idle" => c.action = None
    /\ c.pc = "next" => w = Sweeper /\ c.action = None
    /\ c.pc \in {"policy", "view", "save"} =>
          /\ c.action \in Actions
          /\ c.op = "apply" => c.record.state = "NONE" /\ c.record.proposal \in Proposals
          /\ c.op = "approve" => /\ c.record.state = "PENDING" /\ c.by \in People
                                 /\ c.record.proposal.by # c.by
          /\ c.op \in {"lift", "sweep"} => c.record.state = "ACTIVE"
    /\ c.pc = "policy" => c.op = "approve"
    /\ c.pc = "view" => c.op \in {"apply", "approve"}
    /\ c.pc = "save" => c.op # "policy"
    /\ c.pc = "chain" =>
          /\ c.after = "push" <=> c.entry \in {"applied", "lift"}
          /\ c.entry = "applied" => c.record.state = "ACTIVE"
          /\ c.entry = "lift" => c.record.state = "LIFTED"
          /\ c.entry \in {"applied", "lift", "plane.failed"} => c.action \in Actions
    /\ c.pc = "plane" => c.action \in Actions /\ c.after = "end"

\* A request somebody waits for is that of the call that waits.
WireInOrder ==
    /\ \A m \in wire : ~m.late => InPc(m.by, "plane") /\ call[m.by].action = m.action
    /\ \A m, n \in wire : ~m.late /\ ~n.late /\ m.by = n.by => m = n

TypeInv ==
    /\ TypeOK
    /\ \A a \in Actions : IsRow(store[a])
    /\ \A w \in Writers : InOrder(w, call[w])
    /\ WireInOrder

-----------------------------------------------------------------------------
(***************************************************************************)
(* Types.                                                                  *)
(***************************************************************************)
LEMMA UnknownIsARow == Unknown \in Records /\ IsRow(Unknown)
  BY DEF Unknown, Records, States, IsRow, InForce

LEMMA RestingIsACall ==
    /\ Resting \in InCall
    /\ \A w \in Writers : InOrder(w, Resting)
<1>1. Resting.record = Unknown /\ Resting.pc = "idle" /\ Resting.action = None
  BY DEF Resting
<1>2. Resting \in InCall
  BY UnknownIsARow, DefaultIsPolicy DEF Resting, InCall, CallPcs, Ops, Kinds
<1>3. QED
  BY <1>1, <1>2, UnknownIsARow DEF InOrder

LEMMA TypesInitially == Init => TypeInv
<1> SUFFICES ASSUME Init PROVE TypeInv
  OBVIOUS
<1>1. store \in [Actions -> Records] /\ call \in [Writers -> InCall]
  BY UnknownIsARow, RestingIsACall DEF Init
<1>2. 0 \in 0..MaxTime /\ 0 \in 0..MaxCalls /\ 0 \in 0..MaxStops
  BY BoundsAreNumbers
<1>3. TypeOK
  <2>1. \A a \in Actions : store[a] = Unknown
    BY DEF Init
  <2>2. log \in [Counted -> Nat] /\ spent \in [calls : 0..MaxCalls, stops : 0..MaxStops]
    BY <1>2 DEF Init
  <2>3. QED
    BY <1>1, <1>2, <2>1, <2>2, DefaultIsPolicy DEF Init, TypeOK, Unknown
<1>4. \A a \in Actions : IsRow(store[a])
  BY UnknownIsARow DEF Init
<1>5. \A w \in Writers : InOrder(w, call[w])
  BY RestingIsACall DEF Init
<1>6. WireInOrder
  BY DEF Init, WireInOrder
<1>7. QED
  BY <1>3, <1>4, <1>5, <1>6 DEF TypeInv

\* One call goes on, and the others stay where they are.
LEMMA CallMoves ==
    ASSUME TypeInv, NEW w \in Writers, NEW c \in InCall, InOrder(w, c), Go(w, c)
    PROVE  /\ call' \in [Writers -> InCall]
           /\ \A v \in Writers : InOrder(v, call'[v])
           /\ call'[w] = c /\ \A v \in Writers \ {w} : call'[v] = call[v]
<1>1. call' = [call EXCEPT ![w] = c] /\ call \in [Writers -> InCall]
  BY DEF Go, TypeInv, TypeOK
<1>2. QED
  BY <1>1 DEF TypeInv

\* One call goes on, and what the others have read of the rails is no longer so.
LEMMA CallUnsettles ==
    ASSUME TypeInv, NEW w \in Writers, NEW c \in InCall, InOrder(w, c), Unsettle(w, c)
    PROVE  /\ call' \in [Writers -> InCall]
           /\ \A v \in Writers : InOrder(v, call'[v])
           /\ call'[w] = c
           /\ \A v \in Writers \ {w} :
                 call'[v] = IF Deciding(v) THEN [call[v] EXCEPT !.calm = FALSE] ELSE call[v]
<1>1. /\ call \in [Writers -> InCall]
      /\ call'[w] = c
      /\ \A v \in Writers \ {w} :
            call'[v] = IF Deciding(v) THEN [call[v] EXCEPT !.calm = FALSE] ELSE call[v]
  BY DEF Unsettle, TypeInv, TypeOK
<1>2. ASSUME NEW v \in Writers, v # w
      PROVE  call'[v] \in InCall /\ InOrder(v, call'[v])
  <2> DEFINE d == [call[v] EXCEPT !.calm = FALSE]
  <2>1. call[v] \in InCall /\ InOrder(v, call[v])
    BY <1>1 DEF TypeInv
  <2>2. /\ d \in InCall
        /\ d.pc = call[v].pc /\ d.action = call[v].action /\ d.op = call[v].op
        /\ d.record = call[v].record /\ d.by = call[v].by
        /\ d.entry = call[v].entry /\ d.after = call[v].after
    BY <2>1 DEF InCall
  <2>3. InOrder(v, d)
    BY <2>1, <2>2 DEF InOrder
  <2>4. QED
    BY <1>1, <1>2, <2>1, <2>2, <2>3
<1>3. call' \in [Writers -> InCall]
  BY <1>1, <1>2 DEF Unsettle
<1>4. QED
  BY <1>1, <1>2, <1>3

LEMMA WireKept ==
    ASSUME TypeInv, wire' \subseteq wire,
           \A v \in Writers : InPc(v, "plane") =>
               call'[v].pc = "plane" /\ call'[v].action = call[v].action
    PROVE  WireInOrder'
<1>1. wire \subseteq Messages /\ WireInOrder
  BY DEF TypeInv, TypeOK
<1>2. QED
  BY <1>1 DEF WireInOrder, InPc, Messages

\* A call at rest, or going on without a word to store, chain or plane.
LEMMA TypesMove ==
    ASSUME TypeInv, NEW w \in Writers, NEW c \in InCall, InOrder(w, c), Go(w, c),
           ~InPc(w, "plane"),
           due' \subseteq Actions, dropped' \subseteq Actions, log' \in [Counted -> Nat],
           spent' \in [calls : 0..MaxCalls, stops : 0..MaxStops],
           UNCHANGED <<policy, store, now, plane, wire, crossed, hasty, misread>>
    PROVE  TypeInv'
<1>1. /\ call' \in [Writers -> InCall]
      /\ \A v \in Writers : InOrder(v, call'[v])
      /\ \A v \in Writers \ {w} : call'[v] = call[v]
  BY CallMoves
<1>2. WireInOrder'
  BY <1>1, WireKept DEF InPc
<1>3. QED
  BY <1>1, <1>2 DEF TypeInv, TypeOK

\* The row a save writes, and what the call goes on to append.
Saves(record, entry, after) ==
    /\ record \in Records /\ IsRow(record) /\ record.state # "NONE"
    /\ entry \in Kinds /\ after \in {"push", "end"}
    /\ after = "push" <=> entry \in {"applied", "lift"}
    /\ entry = "applied" <=> record.state = "ACTIVE"
    /\ entry = "lift" <=> record.state = "LIFTED"

\* What a save leaves of the calls.
Saved(w, record, entry, after) ==
    [Resting EXCEPT !.pc = "chain", !.op = call[w].op, !.action = call[w].action,
                    !.record = record, !.entry = entry, !.after = after]

LEMMA SavedIsACall ==
    ASSUME TypeInv, NEW w \in Writers, InPc(w, "save"),
           NEW record, NEW entry, NEW after, Saves(record, entry, after)
    PROVE  LET c == Saved(w, record, entry, after) IN
           /\ c \in InCall /\ InOrder(w, c)
           /\ c.pc = "chain" /\ c.op = call[w].op /\ c.action = call[w].action
           /\ c.record = record /\ c.entry = entry /\ c.after = after
           /\ call[w].action \in Actions
<1> DEFINE c == Saved(w, record, entry, after)
<1>1. call[w] \in InCall /\ call[w].action \in Actions
  BY DEF TypeInv, TypeOK, InOrder, InPc
<1>2. c \in InCall
  BY <1>1, RestingIsACall DEF Saved, Saves, InCall, CallPcs
<1>3. /\ c.pc = "chain" /\ c.op = call[w].op /\ c.action = call[w].action
      /\ c.record = record /\ c.entry = entry /\ c.after = after
  BY DEF Saved, Resting
<1> HIDE DEF c
<1>4. InOrder(w, c)
  BY <1>1, <1>3 DEF InOrder, Saves
<1>5. QED
  BY <1>1, <1>2, <1>3, <1>4 DEF c

\* What a save does to the calls, to the store and to the history.
LEMMA SaveMoves ==
    ASSUME TypeInv, NEW w \in Writers, InPc(w, "save"),
           NEW record, NEW entry, NEW after, Saves(record, entry, after),
           Save(w, record, entry, after)
    PROVE  LET c == Saved(w, record, entry, after)
               a == call[w].action IN
           /\ call' \in [Writers -> InCall]
           /\ \A v \in Writers : InOrder(v, call'[v])
           /\ call'[w] = c
           /\ \A v \in Writers \ {w} :
                 \/ call'[v] = call[v] /\ (record.state = "ACTIVE" => ~Deciding(v))
                 \/ Deciding(v) /\ call'[v] = [call[v] EXCEPT !.calm = FALSE]
           /\ a \in Actions
           /\ store'[a] = record /\ \A b \in Actions \ {a} : store'[b] = store[b]
<1> DEFINE c == Saved(w, record, entry, after)
<1>1. c \in InCall /\ InOrder(w, c) /\ call[w].action \in Actions
  BY SavedIsACall
<1>2. IF record.state = "ACTIVE" THEN Unsettle(w, c) ELSE Go(w, c)
  BY DEF Save, Saved
<1> HIDE DEF c
<1>3. store' = [store EXCEPT ![call[w].action] = record] /\ store \in [Actions -> Records]
  BY DEF Save, TypeInv, TypeOK
<1>4. CASE record.state = "ACTIVE"
  <2>1. Unsettle(w, c)
    BY <1>2, <1>4
  <2>2. /\ call' \in [Writers -> InCall]
        /\ \A v \in Writers : InOrder(v, call'[v])
        /\ call'[w] = c
        /\ \A v \in Writers \ {w} :
              call'[v] = IF Deciding(v) THEN [call[v] EXCEPT !.calm = FALSE] ELSE call[v]
    BY <1>1, <2>1, CallUnsettles
  <2>3. QED
    BY <1>1, <1>3, <2>2 DEF c
<1>5. CASE record.state # "ACTIVE"
  <2>1. Go(w, c)
    BY <1>2, <1>5
  <2>2. QED
    BY <1>1, <1>3, <1>5, <2>1, CallMoves DEF c
<1>6. QED
  BY <1>4, <1>5

LEMMA TypesSave ==
    ASSUME TypeInv, NEW w \in Writers, InPc(w, "save"),
           NEW record, NEW entry, NEW after, Saves(record, entry, after),
           Save(w, record, entry, after)
    PROVE  TypeInv'
<1>1. /\ call' \in [Writers -> InCall]
      /\ \A v \in Writers : InOrder(v, call'[v])
      /\ \A v \in Writers \ {w} : call'[v] = call[v] \/ Deciding(v)
      /\ call[w].action \in Actions
  BY SaveMoves
<1>2. store' = [store EXCEPT ![call[w].action] = record]
  BY DEF Save
<1>3. /\ UNCHANGED <<policy, due, now, plane, wire, log, dropped, misread, spent>>
      /\ crossed' \subseteq crossed \union {call[w].action}
      /\ hasty' \subseteq hasty \union {call[w].action}
  BY DEF Save
<1>4. WireInOrder'
  <2>1. \A v \in Writers : InPc(v, "plane") => call'[v] = call[v]
    BY <1>1 DEF InPc, Deciding
  <2>2. QED
    BY <1>3, <2>1, WireKept DEF InPc
<1>5. /\ store' \in [Actions -> Records]
      /\ \A a \in Actions : IsRow(store'[a])
      /\ \A a \in Actions : store'[a].state = "NONE" <=> store'[a] = Unknown
  BY <1>1, <1>2 DEF TypeInv, TypeOK, Saves, Unknown
<1>6. TypeOK'
  BY <1>1, <1>3, <1>5 DEF TypeInv, TypeOK, IsRow, InForce
<1>7. QED
  BY <1>1, <1>4, <1>5, <1>6 DEF TypeInv

\* The four ways a call comes to save, and what the row becomes.
TakesEffect(w, record) ==
    /\ record.state = "ACTIVE"
    /\ record.proposal = call[w].record.proposal
    /\ record.appliedAt = call[w].at
    /\ call[w].used < call[w].policy.maxActionsPerHour
    /\ ~OnSafeList(record.proposal, call[w].policy)
    /\ Cardinality(record.proposal.targets) <= AtLeastOne(call[w].policy.maxTargets)

Proposes(w, record) ==
    call[w].op = "apply" /\ (record.state = "PENDING" \/ TakesEffect(w, record))
Approves(w, record) ==
    call[w].op = "approve" /\ TakesEffect(w, record) /\ record.approver = call[w].by
Refuses(w, record) ==
    call[w].op = "approve" /\ record = [call[w].record EXCEPT !.state = "REFUSED"]
Lifts(w, record) ==
    call[w].op \in {"lift", "sweep"} /\ record = [call[w].record EXCEPT !.state = "LIFTED"]

Way(w, record) ==
    \/ Proposes(w, record) \/ Approves(w, record) \/ Refuses(w, record) \/ Lifts(w, record)

SaveStep(w) == SaveProposal(w) \/ SaveApproval(w) \/ SaveRefusal(w) \/ SaveLift(w)

\* A save, as the steps below need it.
Written(w, record, entry, after) ==
    Saves(record, entry, after) /\ Save(w, record, entry, after) /\ Way(w, record)

LEMMA DeadlineIsATime ==
    ASSUME NEW permanent, NEW p \in Policies, NEW at \in Nat
    PROVE  Deadline(permanent, p, at) \in Nat \union {None}
  BY PoliciesAreRails DEF Deadline

LEMMA WaysToSave ==
    ASSUME TypeInv, NEW w \in Writers, SaveStep(w)
    PROVE  /\ InPc(w, "save")
           /\ \E record \in Records, entry \in Kinds, after \in {"push", "end"} :
                 Written(w, record, entry, after)
<1>1. InPc(w, "save")
  BY DEF SaveStep, SaveProposal, SaveApproval, SaveRefusal, SaveLift
<1>2. /\ call[w] \in InCall /\ InOrder(w, call[w])
      /\ call[w].action \in Actions /\ call[w].record \in Records /\ IsRow(call[w].record)
      /\ call[w].policy \in Policies /\ call[w].at \in Nat
  BY <1>1 DEF TypeInv, TypeOK, InOrder, InPc, InCall
<1> DEFINE q == call[w].record.proposal
           p == call[w].policy
<1>3. CASE SaveProposal(w)
  <2> DEFINE expires == Deadline(q.permanent, p, call[w].at)
             active  == [state |-> "ACTIVE", proposal |-> q, approver |-> q.by,
                         appliedAt |-> call[w].at, expiresAt |-> expires]
             pending == [state |-> "PENDING", proposal |-> q, approver |-> None,
                         appliedAt |-> None, expiresAt |-> expires]
  <2>1. q \in Proposals /\ q.by \in People /\ call[w].op = "apply"
    BY <1>1, <1>2, <1>3, ProposalsHaveRequesters DEF SaveProposal, InOrder, InPc
  <2>2. expires \in Nat \union {None}
    BY <1>2, DeadlineIsATime
  <2>3. Allowed(q, q.permanent, p, call[w].used)
    BY <1>3 DEF SaveProposal, Proposed
  <2>4. \/ Save(w, active, "applied", "push")
        \/ Save(w, pending, "proposed", "end")
    BY <1>3 DEF SaveProposal
  <2> HIDE DEF expires
  <2>5. CASE Save(w, active, "applied", "push")
    <3>1. Saves(active, "applied", "push")
      BY <1>2, <2>1, <2>2 DEF Saves, Records, States, IsRow, InForce, Kinds
    <3>2. Proposes(w, active)
      BY <2>1, <2>3 DEF Proposes, TakesEffect, Allowed
    <3>3. QED
      BY <1>1, <2>5, <3>1, <3>2 DEF Written, Way, Saves
  <2>6. CASE Save(w, pending, "proposed", "end")
    <3>1. Saves(pending, "proposed", "end")
      BY <1>2, <2>1, <2>2 DEF Saves, Records, States, IsRow, InForce, Kinds
    <3>2. Proposes(w, pending)
      BY <2>1 DEF Proposes
    <3>3. QED
      BY <1>1, <2>6, <3>1, <3>2 DEF Written, Way, Saves
  <2>7. QED
    BY <2>4, <2>5, <2>6
<1>4. CASE SaveApproval(w)
  <2> DEFINE expires == Deadline(WaitsForGood(w), p, call[w].at)
             record  == [state |-> "ACTIVE", proposal |-> q, approver |-> call[w].by,
                         appliedAt |-> call[w].at, expiresAt |-> expires]
  <2>1. q \in Proposals /\ call[w].by \in People /\ call[w].op = "approve"
    BY <1>1, <1>2, <1>4 DEF SaveApproval, InOrder, InPc, IsRow
  <2>2. expires \in Nat \union {None}
    BY <1>2, DeadlineIsATime
  <2>3. Allowed(q, WaitsForGood(w), p, call[w].used) /\ Save(w, record, "applied", "push")
    BY <1>4 DEF SaveApproval, Proposed
  <2> HIDE DEF expires
  <2>4. Saves(record, "applied", "push")
    BY <1>2, <2>1, <2>2 DEF Saves, Records, States, IsRow, InForce, Kinds
  <2>5. Approves(w, record)
    BY <2>1, <2>3 DEF Approves, TakesEffect, Allowed
  <2>6. QED
    BY <1>1, <2>3, <2>4, <2>5 DEF Written, Way, Saves
<1>5. CASE SaveRefusal(w)
  <2> DEFINE record == [call[w].record EXCEPT !.state = "REFUSED"]
  <2>1. call[w].op = "approve" /\ q \in Proposals /\ Save(w, record, "refused", "end")
    BY <1>1, <1>2, <1>5 DEF SaveRefusal, InOrder, InPc, IsRow
  <2>2. Saves(record, "refused", "end")
    BY <1>2, <2>1 DEF Saves, Records, States, IsRow, InForce, Kinds
  <2>3. QED
    BY <1>1, <2>1, <2>2 DEF Written, Way, Refuses, Saves
<1>6. CASE SaveLift(w)
  <2> DEFINE record == [call[w].record EXCEPT !.state = "LIFTED"]
  <2>1. /\ call[w].op \in {"lift", "sweep"} /\ call[w].record.state = "ACTIVE"
        /\ Save(w, record, "lift", "push")
    BY <1>1, <1>2, <1>6 DEF SaveLift, InOrder, InPc
  <2>2. Saves(record, "lift", "push")
    BY <1>2, <2>1 DEF Saves, Records, States, IsRow, InForce, Kinds
  <2>3. QED
    BY <1>1, <2>1, <2>2 DEF Written, Way, Lifts, Saves
<1>7. QED
  BY <1>3, <1>4, <1>5, <1>6 DEF SaveStep

LEMMA StoredIsAnEntry ==
    ASSUME TypeInv, NEW w \in Writers, EntryStored(w)
    PROVE  log' \in [Counted -> Nat]
  BY DEF TypeInv, TypeOK, EntryStored

\* A call made: one more is spent.
LEMMA CallSpent ==
    ASSUME TypeInv, NEW w \in Writers, MayCall(w)
    PROVE  /\ spent' \in [calls : 0..MaxCalls, stops : 0..MaxStops]
           /\ InPc(w, "idle") /\ now \in Nat
<1>1. spent \in [calls : 0..MaxCalls, stops : 0..MaxStops] /\ MaxCalls \in Nat
  BY BoundsAreNumbers DEF TypeInv, TypeOK
<1>2. spent.calls + 1 \in 0..MaxCalls
  BY <1>1 DEF MayCall
<1>3. QED
  BY <1>1, <1>2 DEF MayCall, TypeInv, TypeOK

\* What a call is that begins.
LEMMA BegunIsACall ==
    ASSUME TypeInv, NEW w \in Writers, MayCall(w)
    PROVE  /\ \A q \in Proposals, a \in Actions :
                 LET c == [Resting EXCEPT !.pc = "view", !.op = "apply", !.action = a,
                               !.at = now, !.record = [Unknown EXCEPT !.proposal = q],
                               !.policy = policy]
                 IN  c \in InCall /\ InOrder(w, c)
           /\ \A a \in Actions, by \in People :
                 LET c == [Resting EXCEPT !.pc = "policy", !.op = "approve", !.action = a,
                               !.by = by, !.at = now, !.record = store[a]]
                 IN  store[a].state = "PENDING" /\ store[a].proposal.by # by =>
                         c \in InCall /\ InOrder(w, c)
           /\ LET c == [Resting EXCEPT !.pc = "chain", !.op = "policy", !.entry = "policy"]
              IN  c \in InCall /\ InOrder(w, c)
<1>1. now \in Nat /\ policy \in Policies /\ Resting \in InCall
  BY CallSpent, RestingIsACall DEF TypeInv, TypeOK
<1>2. ASSUME NEW q \in Proposals, NEW a \in Actions
      PROVE  LET c == [Resting EXCEPT !.pc = "view", !.op = "apply", !.action = a,
                               !.at = now, !.record = [Unknown EXCEPT !.proposal = q],
                               !.policy = policy]
             IN  c \in InCall /\ InOrder(w, c)
  <2> DEFINE r == [Unknown EXCEPT !.proposal = q]
  <2>1. r \in Records /\ r.state = "NONE" /\ r.proposal = q /\ IsRow(r)
    BY DEF Unknown, Records, States, IsRow, InForce
  <2> HIDE DEF r
  <2>2. LET c == [Resting EXCEPT !.pc = "view", !.op = "apply", !.action = a,
                               !.at = now, !.record = r, !.policy = policy]
        IN  c \in InCall /\ InOrder(w, c)
    BY <1>1, <2>1 DEF Resting, InCall, InOrder, CallPcs, Ops
  <2>3. QED
    BY <2>2 DEF r
<1>3. ASSUME NEW a \in Actions, NEW by \in People,
             store[a].state = "PENDING", store[a].proposal.by # by
      PROVE  LET c == [Resting EXCEPT !.pc = "policy", !.op = "approve", !.action = a,
                               !.by = by, !.at = now, !.record = store[a]]
             IN  c \in InCall /\ InOrder(w, c)
  <2>1. store[a] \in Records /\ IsRow(store[a])
    BY DEF TypeInv, TypeOK
  <2>2. QED
    BY <1>1, <1>3, <2>1 DEF Resting, InCall, InOrder, CallPcs, Ops
<1>4. LET c == [Resting EXCEPT !.pc = "chain", !.op = "policy", !.entry = "policy"]
      IN  c \in InCall /\ InOrder(w, c)
  BY <1>1, UnknownIsARow DEF Resting, InCall, InOrder, CallPcs, Ops, Kinds
<1>5. QED
  BY <1>2, <1>3, <1>4

\* What a call is that lifts: by hand, or in a sweep.
LEMMA LiftIsACall ==
    ASSUME TypeInv, NEW w \in Writers, NEW a \in Actions, NEW op \in {"lift", "sweep"},
           store[a].state = "ACTIVE"
    PROVE  LET c == [Resting EXCEPT !.pc = "save", !.op = op, !.action = a, !.record = store[a]]
           IN  c \in InCall /\ InOrder(w, c)
<1>1. store[a] \in Records /\ IsRow(store[a]) /\ Resting \in InCall
  BY RestingIsACall DEF TypeInv, TypeOK
<1>2. QED
  BY <1>1 DEF Resting, InCall, InOrder, CallPcs, Ops

\* What a call is that has been answered.
LEMMA ReturnedIsACall ==
    ASSUME NEW w \in Writers
    PROVE  Returned(w) \in InCall /\ InOrder(w, Returned(w)) /\ Returned(w).action = None
<1>1. CASE w = Sweeper
  BY <1>1, UnknownIsARow, RestingIsACall DEF Returned, Resting, InCall, CallPcs, Ops, InOrder
<1>2. CASE w # Sweeper
  BY <1>2, RestingIsACall DEF Returned, Resting
<1>3. QED
  BY <1>1, <1>2

LEMMA AppliedIsFinite ==
    ASSUME NEW at
    PROVE  /\ IsFiniteSet(AppliedBefore(at)) /\ Cardinality(AppliedBefore(at)) \in Nat
<1>1. AppliedBefore(at) \in SUBSET Actions
  BY DEF AppliedBefore
<1>2. QED
  BY <1>1, ActionsAreFinite, FS_Subset, FS_CardinalityType

\* What a call is that has read more of the rails.
LEMMA ReadIsACall ==
    ASSUME TypeInv, NEW w \in Writers
    PROVE  /\ LET c == [call[w] EXCEPT !.pc = "view", !.policy = policy]
              IN  InPc(w, "policy") => c \in InCall /\ InOrder(w, c)
           /\ LET c == [call[w] EXCEPT !.pc = "save",
                            !.used = Cardinality(AppliedBefore(call[w].at))]
              IN  InPc(w, "view") => c \in InCall /\ InOrder(w, c)
<1>1. call[w] \in InCall /\ InOrder(w, call[w]) /\ policy \in Policies
  BY DEF TypeInv, TypeOK
<1>2. LET c == [call[w] EXCEPT !.pc = "view", !.policy = policy]
      IN  InPc(w, "policy") => c \in InCall /\ InOrder(w, c)
  BY <1>1 DEF InCall, InOrder, InPc, CallPcs
<1>3. Cardinality(AppliedBefore(call[w].at)) \in Nat
  BY AppliedIsFinite
<1>4. LET c == [call[w] EXCEPT !.pc = "save",
                            !.used = Cardinality(AppliedBefore(call[w].at))]
      IN  InPc(w, "view") => c \in InCall /\ InOrder(w, c)
  <2> DEFINE n == Cardinality(AppliedBefore(call[w].at))
  <2>1. n \in Nat
    BY <1>3
  <2> HIDE DEF n
  <2>2. LET c == [call[w] EXCEPT !.pc = "save", !.used = n]
        IN  InPc(w, "view") => c \in InCall /\ InOrder(w, c)
    BY <1>1, <2>1 DEF InCall, InOrder, InPc, CallPcs
  <2>3. QED
    BY <2>2 DEF n
<1>5. QED
  BY <1>2, <1>4
\* The plane's answer moves the call that waits for it.
LEMMA AnswerMoves ==
    ASSUME TypeInv, NEW m \in wire, ~m.late,
           NEW entry \in {"plane.apply", "plane.lift", "plane.failed"}, Answered(m.by, entry)
    PROVE  LET w == m.by
               c == [call[w] EXCEPT !.pc = "chain", !.entry = entry] IN
           /\ w \in Writers /\ InPc(w, "plane") /\ call[w].action = m.action
           /\ m.action \in Actions
           /\ c \in InCall /\ InOrder(w, c) /\ Go(w, c)
           /\ call' \in [Writers -> InCall]
           /\ \A v \in Writers : InOrder(v, call'[v])
           /\ call'[w] = c /\ \A v \in Writers \ {w} : call'[v] = call[v]
           /\ \A n \in wire \ {m} : ~n.late => n.by # w
<1> DEFINE w == m.by
           c == [call[w] EXCEPT !.pc = "chain", !.entry = entry]
<1>1. m \in Messages /\ w \in Writers /\ InPc(w, "plane") /\ call[w].action = m.action
  BY DEF TypeInv, TypeOK, WireInOrder, Messages
<1>2. call[w] \in InCall /\ InOrder(w, call[w])
  BY <1>1 DEF TypeInv, TypeOK
<1>3. c \in InCall /\ InOrder(w, c)
  BY <1>1, <1>2 DEF InCall, InOrder, InPc, CallPcs, Kinds
<1>4. Go(w, c)
  BY DEF Answered
<1>5. \A n \in wire \ {m} : ~n.late => n.by # w
  BY DEF TypeInv, WireInOrder
<1> HIDE DEF c
<1>6. /\ call' \in [Writers -> InCall]
      /\ \A v \in Writers : InOrder(v, call'[v])
      /\ call'[w] = c /\ \A v \in Writers \ {w} : call'[v] = call[v]
  BY <1>1, <1>3, <1>4, CallMoves
<1>7. m.action \in Actions
  BY <1>1 DEF Messages
<1>8. QED
  BY <1>1, <1>3, <1>4, <1>5, <1>6, <1>7 DEF c

LEMMA TypesPlane ==
    ASSUME TypeInv, NEW m \in wire, PlaneStep(m)
    PROVE  TypeInv'
<1>1. /\ ~m.late
      /\ plane' \in SUBSET (plane \union {m.action})
      /\ wire' \in {wire \ {m}, (wire \ {m}) \union {[m EXCEPT !.late = TRUE]}}
      /\ UNCHANGED <<policy, store, due, now, log, crossed, hasty, dropped, spent>>
      /\ misread' \in SUBSET (misread \union {m.action})
      /\ \E entry \in {"plane.apply", "plane.lift", "plane.failed"} : Answered(m.by, entry)
  BY DEF PlaneStep, PlaneDoes, PlaneIgnores, PlaneRefuses, PlaneTimesOut, Does
<1>2. PICK entry \in {"plane.apply", "plane.lift", "plane.failed"} : Answered(m.by, entry)
  BY <1>1
<1>3. /\ m.by \in Writers /\ m.action \in Actions
      /\ call' \in [Writers -> InCall]
      /\ \A v \in Writers : InOrder(v, call'[v])
      /\ \A v \in Writers \ {m.by} : call'[v] = call[v]
      /\ \A n \in wire \ {m} : ~n.late => n.by # m.by
  BY <1>1, <1>2, AnswerMoves
<1>4. m \in Messages /\ wire \subseteq Messages /\ WireInOrder
  BY DEF TypeInv, TypeOK
<1>5. /\ [m EXCEPT !.late = TRUE] \in Messages
      /\ [m EXCEPT !.late = TRUE].late
  BY <1>4 DEF Messages
<1>6. wire' \subseteq Messages /\ \A n \in wire' : ~n.late => n \in wire \ {m}
  BY <1>1, <1>4, <1>5
<1>7. \A n \in wire' : n.by \in Writers
  BY <1>6 DEF Messages
<1>8. WireInOrder'
  BY <1>3, <1>4, <1>6, <1>7 DEF WireInOrder, InPc
<1>9. TypeOK'
  BY <1>1, <1>3, <1>6 DEF TypeInv, TypeOK
<1>10. QED
  BY <1>1, <1>3, <1>8, <1>9 DEF TypeInv

LEMMA TypesTell ==
    ASSUME TypeInv, NEW w \in Writers, TellPlane(w)
    PROVE  TypeInv'
<1> DEFINE c == [call[w] EXCEPT !.pc = "plane", !.after = "end"]
           a == call[w].action
           m == [op |-> IF call[w].record.state = "ACTIVE" THEN "apply" ELSE "lift",
                 action |-> a, by |-> w, late |-> FALSE]
<1>1. call[w] \in InCall /\ InOrder(w, call[w]) /\ call[w].pc = "chain"
  BY DEF TypeInv, TypeOK, TellPlane, Appending, InPc
<1>2. a \in Actions
  BY <1>1 DEF InOrder, TellPlane
<1>3. c \in InCall /\ InOrder(w, c) /\ c.pc = "plane" /\ c.action = a
  BY <1>1, <1>2 DEF InCall, InOrder, CallPcs
<1>4. m \in Messages /\ m.by = w /\ m.action = a
  BY <1>2 DEF Messages
<1>5. wire' = wire \union {m} /\ Go(w, c) /\ EntryStored(w)
  BY DEF TellPlane
<1>6. /\ crossed' \subseteq crossed \union {a}
      /\ UNCHANGED <<policy, store, due, now, plane, hasty, dropped, misread, spent>>
  BY DEF TellPlane
<1> HIDE DEF c, m
<1>7. /\ call' \in [Writers -> InCall]
      /\ \A v \in Writers : InOrder(v, call'[v])
      /\ call'[w] = c /\ \A v \in Writers \ {w} : call'[v] = call[v]
  BY <1>3, <1>5, CallMoves
<1>8. WireInOrder'
  <2>1. wire \subseteq Messages /\ WireInOrder
    BY DEF TypeInv, TypeOK
  <2>2. \A n \in wire : n.by \in Writers /\ (~n.late => n.by # w)
    BY <1>1, <2>1 DEF WireInOrder, InPc, Messages
  <2>3. QED
    BY <1>3, <1>4, <1>5, <1>7, <2>1, <2>2 DEF WireInOrder, InPc
<1>9. TypeOK'
  BY <1>2, <1>4, <1>5, <1>6, <1>7, StoredIsAnEntry DEF TypeInv, TypeOK
<1>10. QED
  BY <1>6, <1>7, <1>8, <1>9 DEF TypeInv

\* The first step of a call of a person.
Begins(w) ==
    \/ \E a \in Actions, q \in Proposals : ApplyBegins(w, q, a)
    \/ \E a \in Actions, by \in People : ApproveBegins(w, a, by)
    \/ \E a \in Actions : LiftBegins(w, a)

LEMMA TypesPolicy ==
    ASSUME TypeInv, NEW w \in Writers, NEW p \in Policies, SetPolicy(w, p)
    PROVE  TypeInv'
<1> DEFINE c == [Resting EXCEPT !.pc = "chain", !.op = "policy", !.entry = "policy"]
<1>1. /\ MayCall(w) /\ policy' = p
      /\ UNCHANGED <<store, due, now, plane, wire, log, crossed, hasty, dropped, misread>>
      /\ Unsettle(w, c)
  BY DEF SetPolicy
<1>2. /\ InPc(w, "idle") /\ spent' \in [calls : 0..MaxCalls, stops : 0..MaxStops]
      /\ c \in InCall /\ InOrder(w, c)
  BY <1>1, CallSpent, BegunIsACall
<1> HIDE DEF c
<1>3. /\ call' \in [Writers -> InCall]
      /\ \A v \in Writers : InOrder(v, call'[v])
      /\ \A v \in Writers \ {w} :
            call'[v] = IF Deciding(v) THEN [call[v] EXCEPT !.calm = FALSE] ELSE call[v]
  BY <1>1, <1>2, CallUnsettles
<1>4. \A v \in Writers : InPc(v, "plane") => call'[v] = call[v]
  BY <1>2, <1>3 DEF InPc, Deciding
<1>5. WireInOrder'
  BY <1>1, <1>4, WireKept DEF InPc
<1>6. QED
  BY <1>1, <1>2, <1>3, <1>5 DEF TypeInv, TypeOK

\* The steps of a call that touch neither store nor chain nor plane.
Quiet(w) ==
    \/ Begins(w) \/ ReadPolicy(w) \/ ReadView(w) \/ RefuseProposal(w)
    \/ w = Sweeper /\ (StartSweep \/ EndSweep \/ \E a \in Actions : SweepNext(a))

\* What the call is after such a step.
Blank(c) == c.at = 0 /\ c.record = Unknown
Rests(w, c) ==
    /\ c.action = None
    /\ c.pc \in {"idle", "next"} \/ (c.pc = "chain" /\ c.entry = "refused")
    /\ Blank(c) \/ c = call[w]
AsksApply(w, c) ==
    /\ InPc(w, "idle") /\ c.pc = "view" /\ c.op = "apply" /\ Fresh(c.action)
    /\ c.at = now /\ c.policy = policy
AsksApprove(w, c) ==
    /\ InPc(w, "idle") /\ c.pc = "policy" /\ c.op = "approve" /\ c.at = now
    /\ c.record = store[c.action] /\ c.record.state = "PENDING"
AsksLift(c) ==
    /\ c.pc = "save" /\ c.op \in {"lift", "sweep"} /\ c.at = 0
    /\ c.record = store[c.action] /\ c.record.state = "ACTIVE"
ReadsPolicy(w, c) == InPc(w, "policy") /\ c = [call[w] EXCEPT !.pc = "view", !.policy = policy]
ReadsView(w, c) ==
    InPc(w, "view") /\ c = [call[w] EXCEPT !.pc = "save",
                                           !.used = Cardinality(AppliedBefore(call[w].at))]
QuietWay(w, c) ==
    \/ Rests(w, c) \/ AsksApply(w, c) \/ AsksApprove(w, c) \/ AsksLift(c)
    \/ ReadsPolicy(w, c) \/ ReadsView(w, c)

\* A call before such a step has nothing to append and waits for nobody.
QuietTo(w, c) ==
    /\ c \in InCall /\ InOrder(w, c) /\ Go(w, c) /\ QuietWay(w, c)
    /\ call[w].pc \in {"idle", "next", "policy", "view", "save"}
    /\ due' \subseteq Actions /\ spent' \in [calls : 0..MaxCalls, stops : 0..MaxStops]
    /\ UNCHANGED <<policy, store, now, plane, wire, log, crossed, hasty, dropped, misread>>

LEMMA RestedIsQuiet ==
    ASSUME NEW w \in Writers, NEW entry \in Kinds, entry = "refused"
    PROVE  LET c == [Resting EXCEPT !.pc = "chain", !.entry = entry] IN
           c \in InCall /\ InOrder(w, c) /\ Rests(w, c)
  BY RestingIsACall, UnknownIsARow DEF Resting, InCall, CallPcs, InOrder, Rests, Blank

LEMMA QuietBegin ==
    ASSUME TypeInv, NEW w \in Writers, Begins(w)
    PROVE  \E c \in InCall : QuietTo(w, c)
<1>1. /\ MayCall(w)
      /\ UNCHANGED <<policy, store, due, now, plane, wire, log, crossed, hasty, dropped, misread>>
  BY DEF Begins, ApplyBegins, ApproveBegins, LiftBegins
<1>2. InPc(w, "idle") /\ spent' \in [calls : 0..MaxCalls, stops : 0..MaxStops]
  BY <1>1, CallSpent
<1>3. \E c \in InCall : InOrder(w, c) /\ Go(w, c) /\ QuietWay(w, c)
  <2>1. ASSUME NEW a \in Actions, NEW q \in Proposals, ApplyBegins(w, q, a)
        PROVE  \E c \in InCall : InOrder(w, c) /\ Go(w, c) /\ QuietWay(w, c)
    <3> DEFINE c == [Resting EXCEPT !.pc = "view", !.op = "apply", !.action = a,
                                    !.at = now, !.record = [Unknown EXCEPT !.proposal = q],
                                    !.policy = policy]
    <3>1. Go(w, c) /\ c \in InCall /\ InOrder(w, c) /\ Fresh(a)
      BY <1>1, <2>1, BegunIsACall DEF ApplyBegins
    <3>2. c.pc = "view" /\ c.op = "apply" /\ c.at = now /\ c.policy = policy /\ c.action = a
      BY DEF Resting
    <3>3. QED
      BY <1>2, <3>1, <3>2 DEF QuietWay, AsksApply
  <2>2. ASSUME NEW a \in Actions, NEW by \in People, ApproveBegins(w, a, by)
        PROVE  \E c \in InCall : InOrder(w, c) /\ Go(w, c) /\ QuietWay(w, c)
    <3> DEFINE c == [Resting EXCEPT !.pc = "policy", !.op = "approve", !.action = a,
                                    !.by = by, !.at = now, !.record = store[a]]
    <3>1. Go(w, c) /\ c \in InCall /\ InOrder(w, c) /\ store[a].state = "PENDING"
      BY <1>1, <2>2, BegunIsACall DEF ApproveBegins
    <3>2. c.pc = "policy" /\ c.op = "approve" /\ c.at = now /\ c.record = store[a] /\ c.action = a
      BY DEF Resting
    <3>3. QED
      BY <1>2, <3>1, <3>2 DEF QuietWay, AsksApprove
  <2>3. ASSUME NEW a \in Actions, LiftBegins(w, a)
        PROVE  \E c \in InCall : InOrder(w, c) /\ Go(w, c) /\ QuietWay(w, c)
    <3> DEFINE c == [Resting EXCEPT !.pc = "save", !.op = "lift", !.action = a,
                                    !.record = store[a]]
    <3>1. Go(w, c) /\ c \in InCall /\ InOrder(w, c) /\ store[a].state = "ACTIVE"
      BY <2>3, LiftIsACall DEF LiftBegins
    <3>2. c.pc = "save" /\ c.op = "lift" /\ c.at = 0 /\ c.record = store[a] /\ c.action = a
      BY DEF Resting
    <3>3. QED
      BY <3>1, <3>2 DEF QuietWay, AsksLift
  <2>4. QED
    BY <2>1, <2>2, <2>3 DEF Begins
<1>4. due' \subseteq Actions
  BY <1>1 DEF TypeInv, TypeOK
<1>5. QED
  BY <1>1, <1>2, <1>3, <1>4 DEF QuietTo, InPc

LEMMA QuietSweep ==
    ASSUME TypeInv, StartSweep \/ EndSweep \/ \E a \in Actions : SweepNext(a)
    PROVE  \E c \in InCall : QuietTo(Sweeper, c)
<1>1. /\ UNCHANGED <<policy, store, now, plane, wire, log, crossed, hasty, dropped, misread, spent>>
      /\ InPc(Sweeper, "idle") \/ InPc(Sweeper, "next")
      /\ due' \subseteq Actions
  BY DEF StartSweep, EndSweep, SweepNext, TypeInv, TypeOK
<1>2. Sweeper \in Writers /\ call \in [Writers -> InCall] /\ InOrder(Sweeper, call[Sweeper])
  BY DEF Writers, TypeInv, TypeOK
<1>3. \E c \in InCall : InOrder(Sweeper, c) /\ Go(Sweeper, c) /\ QuietWay(Sweeper, c)
  <2>1. CASE StartSweep
    <3>1. Returned(Sweeper).pc = "next" /\ Blank(Returned(Sweeper))
      BY DEF Returned, Resting, Blank
    <3>2. QED
      BY <1>2, <2>1, <3>1, ReturnedIsACall DEF StartSweep, QuietWay, Rests
  <2>2. CASE EndSweep
    BY <1>2, <2>2, RestingIsACall DEF EndSweep, QuietWay, Rests, Resting, Blank
  <2>3. ASSUME NEW a \in Actions, SweepNext(a), store[a].state = "ACTIVE"
        PROVE  \E c \in InCall : InOrder(Sweeper, c) /\ Go(Sweeper, c) /\ QuietWay(Sweeper, c)
    <3> DEFINE c == [Resting EXCEPT !.pc = "save", !.op = "sweep", !.action = a,
                                    !.record = store[a]]
    <3>1. Go(Sweeper, c) /\ c \in InCall /\ InOrder(Sweeper, c)
      BY <1>2, <2>3, LiftIsACall DEF SweepNext
    <3>2. c.pc = "save" /\ c.op = "sweep" /\ c.at = 0 /\ c.record = store[a] /\ c.action = a
      BY DEF Resting
    <3>3. QED
      BY <2>3, <3>1, <3>2 DEF QuietWay, AsksLift
  <2>4. ASSUME NEW a \in Actions, SweepNext(a), store[a].state # "ACTIVE"
        PROVE  \E c \in InCall : InOrder(Sweeper, c) /\ Go(Sweeper, c) /\ QuietWay(Sweeper, c)
    <3>1. call' = call /\ call[Sweeper].pc = "next"
      BY <2>4 DEF SweepNext, InPc
    <3>2. Go(Sweeper, call[Sweeper])
      BY <1>2, <3>1 DEF Go
    <3>3. call[Sweeper].action = None
      BY <1>2, <3>1 DEF InOrder
    <3>4. QED
      BY <1>2, <3>1, <3>2, <3>3 DEF QuietWay, Rests
  <2>5. QED
    BY <2>1, <2>2, <2>3, <2>4
<1>4. spent' \in [calls : 0..MaxCalls, stops : 0..MaxStops]
  BY <1>1 DEF TypeInv, TypeOK
<1>5. QED
  BY <1>1, <1>3, <1>4 DEF QuietTo, InPc

LEMMA QuietSteps ==
    ASSUME TypeInv, NEW w \in Writers, Quiet(w)
    PROVE  \E c \in InCall : QuietTo(w, c)
<1>1. CASE Begins(w)
  BY <1>1, QuietBegin
<1>2. CASE w = Sweeper /\ (StartSweep \/ EndSweep \/ \E a \in Actions : SweepNext(a))
  BY <1>2, QuietSweep
<1>3. due' = due /\ spent' = spent =>
          due' \subseteq Actions /\ spent' \in [calls : 0..MaxCalls, stops : 0..MaxStops]
  BY DEF TypeInv, TypeOK
<1>4. CASE ReadPolicy(w)
  <2> DEFINE c == [call[w] EXCEPT !.pc = "view", !.policy = policy]
  <2>1. InPc(w, "policy") /\ Go(w, c) /\ c \in InCall /\ InOrder(w, c)
    BY <1>4, ReadIsACall DEF ReadPolicy
  <2>2. QuietWay(w, c)
    BY <2>1 DEF QuietWay, ReadsPolicy
  <2> HIDE DEF c
  <2>3. QED
    BY <1>3, <1>4, <2>1, <2>2 DEF ReadPolicy, QuietTo, InPc
<1>5. CASE ReadView(w)
  <2> DEFINE c == [call[w] EXCEPT !.pc = "save",
                                  !.used = Cardinality(AppliedBefore(call[w].at))]
  <2>1. InPc(w, "view") /\ Go(w, c) /\ c \in InCall /\ InOrder(w, c)
    BY <1>5, ReadIsACall DEF ReadView
  <2>2. QuietWay(w, c)
    BY <2>1 DEF QuietWay, ReadsView
  <2> HIDE DEF c
  <2>3. QED
    BY <1>3, <1>5, <2>1, <2>2 DEF ReadView, QuietTo, InPc
<1>6. CASE RefuseProposal(w)
  <2> DEFINE c == [Resting EXCEPT !.pc = "chain", !.entry = "refused"]
  <2>1. InPc(w, "save") /\ Go(w, c) /\ c \in InCall /\ InOrder(w, c) /\ Rests(w, c)
    BY <1>6, RestedIsQuiet DEF RefuseProposal, Kinds
  <2> HIDE DEF c
  <2>2. QED
    BY <1>3, <1>6, <2>1 DEF RefuseProposal, QuietTo, QuietWay, InPc
<1>7. QED
  BY <1>1, <1>2, <1>4, <1>5, <1>6 DEF Quiet

LEMMA TypesQuiet ==
    ASSUME TypeInv, NEW w \in Writers, Quiet(w)
    PROVE  TypeInv'
<1>1. PICK c \in InCall : QuietTo(w, c)
  BY QuietSteps
<1>2. dropped' \subseteq Actions /\ log' \in [Counted -> Nat]
  BY <1>1 DEF QuietTo, TypeInv, TypeOK
<1>3. QED
  BY <1>1, <1>2, TypesMove DEF QuietTo, InPc

\* The steps that end a call: its last append answers, or throws.
Ends(w) == CallReturns(w) \/ CallThrows(w)

LEMMA EndMoves ==
    ASSUME TypeInv, NEW w \in Writers, Ends(w)
    PROVE  /\ InPc(w, "chain")
           /\ \E c \in InCall : /\ InOrder(w, c) /\ Go(w, c) /\ c.action = None
                                /\ c.pc \in {"idle", "next"} /\ Blank(c)
           /\ EntryStored(w) \/ (UNCHANGED log /\ {call[w].action} \ {None} \subseteq dropped')
           /\ dropped \subseteq dropped' /\ dropped' \subseteq Actions
           /\ due' \subseteq Actions /\ log' \in [Counted -> Nat]
           /\ UNCHANGED <<policy, store, now, plane, wire, crossed, hasty, misread, spent>>
<1>1. /\ InPc(w, "chain")
      /\ EntryStored(w) \/ (UNCHANGED log /\ {call[w].action} \ {None} \subseteq dropped')
      /\ dropped' \in {dropped, dropped \union ({call[w].action} \ {None})}
      /\ due' \in {due, {}}
      /\ UNCHANGED <<policy, store, now, plane, wire, crossed, hasty, misread, spent>>
      /\ Go(w, Returned(w)) \/ Go(w, Resting)
  BY DEF Ends, CallReturns, CallThrows, Appending
<1>2. call[w].action \in Actions \union {None}
  BY DEF TypeInv, TypeOK, InCall
<1>3. \E c \in InCall : /\ InOrder(w, c) /\ Go(w, c) /\ c.action = None
                      /\ c.pc \in {"idle", "next"} /\ Blank(c)
  <2>1. /\ Returned(w).pc \in {"idle", "next"} /\ Resting.pc = "idle" /\ Resting.action = None
        /\ Blank(Returned(w)) /\ Blank(Resting)
    BY DEF Returned, Resting, Blank
  <2>2. QED
    BY <1>1, <2>1, ReturnedIsACall, RestingIsACall
<1>4. log' \in [Counted -> Nat]
  BY <1>1, StoredIsAnEntry DEF TypeInv, TypeOK
<1>5. dropped \subseteq dropped' /\ dropped' \subseteq Actions /\ due' \subseteq Actions
  BY <1>1, <1>2 DEF TypeInv, TypeOK
<1>6. QED
  BY <1>1, <1>3, <1>4, <1>5

LEMMA TypesEnd ==
    ASSUME TypeInv, NEW w \in Writers, Ends(w)
    PROVE  TypeInv'
<1>1. PICK c \in InCall : InOrder(w, c) /\ Go(w, c)
  BY EndMoves
<1>2. spent' \in [calls : 0..MaxCalls, stops : 0..MaxStops]
  BY EndMoves DEF TypeInv, TypeOK
<1>3. QED
  BY <1>1, <1>2, EndMoves, TypesMove DEF InPc

LEMMA TypesLate ==
    ASSUME TypeInv, NEW m \in wire, PlaneDoesLate(m)
    PROVE  TypeInv'
<1>1. m \in Messages
  BY DEF TypeInv, TypeOK
<1>2. /\ plane' \in SUBSET (plane \union {m.action}) /\ wire' = wire \ {m}
      /\ UNCHANGED <<policy, store, call, due, now, log, crossed, hasty, dropped, misread, spent>>
  BY DEF PlaneDoesLate, Does
<1>3. WireInOrder'
  BY <1>2, WireKept DEF InPc
<1>4. QED
  BY <1>1, <1>2, <1>3 DEF TypeInv, TypeOK, Messages

LEMMA TypesStop ==
    ASSUME TypeInv, StopServer
    PROVE  TypeInv'
<1>1. /\ spent' = [spent EXCEPT !.stops = @ + 1] /\ spent.stops < MaxStops
      /\ call' = [w \in Writers |-> Resting]
      /\ due' = {}
      /\ dropped' = dropped \union ({call[w].action : w \in Writers} \ {None})
      /\ wire' = {[m EXCEPT !.late = TRUE] : m \in wire}
      /\ UNCHANGED <<policy, store, now, plane, log, crossed, hasty, misread>>
  BY DEF StopServer
<1>2. spent' \in [calls : 0..MaxCalls, stops : 0..MaxStops]
  <2>1. spent \in [calls : 0..MaxCalls, stops : 0..MaxStops] /\ MaxStops \in Nat
    BY BoundsAreNumbers DEF TypeInv, TypeOK
  <2>2. spent.stops + 1 \in 0..MaxStops
    BY <1>1, <2>1
  <2>3. QED
    BY <1>1, <2>1, <2>2
<1>3. call' \in [Writers -> InCall] /\ \A w \in Writers : InOrder(w, call'[w])
  BY <1>1, RestingIsACall
<1>4. dropped' \subseteq Actions
  <2>1. \A w \in Writers : call[w].action \in Actions \union {None}
    BY DEF TypeInv, TypeOK, InCall
  <2>2. QED
    BY <1>1, <2>1 DEF TypeInv, TypeOK
<1>5. wire' \subseteq Messages /\ \A m \in wire' : m.late
  <2>1. \A m \in wire : [m EXCEPT !.late = TRUE] \in Messages /\ [m EXCEPT !.late = TRUE].late
    BY DEF TypeInv, TypeOK, Messages
  <2>2. QED
    BY <1>1, <2>1
<1>6. QED
  BY <1>1, <1>2, <1>3, <1>4, <1>5 DEF TypeInv, TypeOK, WireInOrder

LEMMA TypesTick ==
    ASSUME TypeInv, Tick
    PROVE  TypeInv'
<1>1. now' \in 0..MaxTime
  BY BoundsAreNumbers DEF Tick, TypeInv, TypeOK
<1>2. UNCHANGED <<policy, store, call, due, plane, wire, log, crossed, hasty, dropped, misread, spent>>
  BY DEF Tick
<1>3. QED
  BY <1>1, <1>2 DEF TypeInv, TypeOK, WireInOrder, InPc

\* The kinds of steps there are, of which the lemmas above and below speak.
Step ==
    \/ \E w \in Writers : Quiet(w) \/ SaveStep(w) \/ TellPlane(w) \/ Ends(w)
    \/ \E m \in wire : PlaneStep(m) \/ PlaneDoesLate(m)
    \/ \E w \in Writers, p \in Policies : SetPolicy(w, p)
    \/ Tick \/ StopServer

LEMMA NextIsStep == Next => Step
<1>1. Sweeper \in Writers
  BY DEF Writers
<1>2. QED
  BY <1>1 DEF Next, CallStep, Step, Quiet, Begins, SaveStep, Ends

LEMMA TypesNext == TypeInv /\ [Next]_vars => TypeInv'
<1> SUFFICES ASSUME TypeInv, [Next]_vars PROVE TypeInv'
  OBVIOUS
<1>1. CASE Next
  BY <1>1, NextIsStep, TypesQuiet, TypesSave, TypesTell, TypesEnd, TypesPlane, TypesLate,
     TypesPolicy, TypesTick, TypesStop, WaysToSave DEF Step, Written
<1>2. CASE UNCHANGED vars
  BY <1>2 DEF vars, TypeInv, TypeOK, WireInOrder, InPc
<1>3. QED
  BY <1>1, <1>2

(***************************************************************************)
(* The rows, the calls, the evidence and the requests to the plane are     *)
(* what the service's types say, in every state.                           *)
(***************************************************************************)
THEOREM EnforcementTypeCorrect == Spec => []TypeOK
<1>1. TypeInv => TypeOK
  BY DEF TypeInv
<1>2. Spec => []TypeInv
  BY TypesInitially, TypesNext, PTL DEF Spec
<1>3. QED
  BY <1>1, <1>2, PTL

-----------------------------------------------------------------------------
(***************************************************************************)
(* What a step leaves of the calls, field by field.                        *)
(***************************************************************************)
SameCall(c, d) ==
    /\ d.op = c.op /\ d.action = c.action /\ d.by = c.by /\ d.at = c.at
    /\ d.record = c.record /\ d.policy = c.policy /\ d.used = c.used

\* A call that is where it was, whatever it knows now of what it has read.
Stays(v) ==
    /\ SameCall(call[v], call'[v])
    /\ call'[v].pc = call[v].pc /\ call'[v].entry = call[v].entry
    /\ call'[v].after = call[v].after
    /\ call'[v].calm => call[v].calm

LEMMA CallChanges ==
    ASSUME NEW c \in InCall, NEW e
    PROVE  /\ LET d == [c EXCEPT !.calm = FALSE] IN
              /\ SameCall(c, d) /\ ~d.calm
              /\ d.pc = c.pc /\ d.entry = c.entry /\ d.after = c.after
           /\ LET d == [c EXCEPT !.pc = "plane", !.after = "end"] IN
              SameCall(c, d) /\ d.pc = "plane" /\ d.after = "end" /\ d.entry = c.entry
           /\ LET d == [c EXCEPT !.pc = "chain", !.entry = e] IN
              SameCall(c, d) /\ d.pc = "chain" /\ d.after = c.after /\ d.entry = e
  BY DEF InCall, SameCall

LEMMA Unsettled ==
    ASSUME TypeInv, NEW v \in Writers, call'[v] = [call[v] EXCEPT !.calm = FALSE]
    PROVE  Stays(v) /\ ~call'[v].calm
<1> DEFINE d == [call[v] EXCEPT !.calm = FALSE]
<1>1. call[v] \in InCall
  BY DEF TypeInv, TypeOK
<1>2. /\ SameCall(call[v], d) /\ ~d.calm
      /\ d.pc = call[v].pc /\ d.entry = call[v].entry /\ d.after = call[v].after
  BY <1>1, CallChanges
<1> HIDE DEF d
<1>3. call'[v] = d
  BY DEF d
<1>4. QED
  BY <1>2, <1>3 DEF Stays

LEMMA SaveLeaves ==
    ASSUME TypeInv, NEW w \in Writers, InPc(w, "save"),
           NEW record, NEW entry, NEW after, Saves(record, entry, after),
           Save(w, record, entry, after)
    PROVE  /\ call'[w].pc = "chain" /\ call'[w].op = call[w].op
           /\ call'[w].action = call[w].action
           /\ call'[w].record = record /\ call'[w].entry = entry /\ call'[w].after = after
           /\ call'[w].at = 0
           /\ \A v \in Writers \ {w} :
                 /\ Stays(v)
                 /\ record.state = "ACTIVE" /\ Deciding(v) => ~call'[v].calm
<1>1. /\ call'[w] = Saved(w, record, entry, after)
      /\ \A v \in Writers \ {w} :
            \/ call'[v] = call[v] /\ (record.state = "ACTIVE" => ~Deciding(v))
            \/ Deciding(v) /\ call'[v] = [call[v] EXCEPT !.calm = FALSE]
  BY SaveMoves
<1>2. \A v \in Writers \ {w} : /\ Stays(v)
                               /\ record.state = "ACTIVE" /\ Deciding(v) => ~call'[v].calm
  <2> SUFFICES ASSUME NEW v \in Writers \ {w}
               PROVE  /\ Stays(v)
                      /\ record.state = "ACTIVE" /\ Deciding(v) => ~call'[v].calm
    OBVIOUS
  <2>1. CASE call'[v] = call[v] /\ (record.state = "ACTIVE" => ~Deciding(v))
    BY <2>1 DEF Stays, SameCall
  <2>2. CASE call'[v] = [call[v] EXCEPT !.calm = FALSE]
    BY <2>2, Unsettled
  <2>3. QED
    BY <1>1, <2>1, <2>2
<1>3. Saved(w, record, entry, after).at = 0
  BY DEF Saved, Resting
<1>4. QED
  BY <1>1, <1>2, <1>3, SavedIsACall

LEMMA PolicyMoves ==
    ASSUME TypeInv, NEW w \in Writers, NEW p \in Policies, SetPolicy(w, p)
    PROVE  /\ InPc(w, "idle") /\ policy' = p
           /\ call'[w].pc = "chain" /\ call'[w].action = None
           /\ call'[w].entry = "policy" /\ call'[w].record = Unknown /\ call'[w].at = 0
           /\ call'[w].after = "end"
           /\ \A v \in Writers \ {w} : Stays(v) /\ (Deciding(v) => ~call'[v].calm)
           /\ UNCHANGED <<store, due, now, plane, wire, log, crossed, hasty, dropped, misread>>
<1> DEFINE c == [Resting EXCEPT !.pc = "chain", !.op = "policy", !.entry = "policy"]
<1>1. /\ MayCall(w) /\ policy' = p
      /\ UNCHANGED <<store, due, now, plane, wire, log, crossed, hasty, dropped, misread>>
      /\ Unsettle(w, c)
  BY DEF SetPolicy
<1>2. InPc(w, "idle") /\ c \in InCall /\ InOrder(w, c)
  BY <1>1, CallSpent, BegunIsACall
<1>3. /\ c.pc = "chain" /\ c.action = None /\ c.entry = "policy" /\ c.record = Unknown
      /\ c.at = 0 /\ c.after = "end"
  BY DEF Resting
<1> HIDE DEF c
<1>4. /\ call'[w] = c
      /\ \A v \in Writers \ {w} :
            call'[v] = IF Deciding(v) THEN [call[v] EXCEPT !.calm = FALSE] ELSE call[v]
  BY <1>1, <1>2, CallUnsettles
<1>5. ASSUME NEW v \in Writers \ {w} PROVE Stays(v) /\ (Deciding(v) => ~call'[v].calm)
  <2>1. CASE Deciding(v)
    BY <1>4, <2>1, Unsettled
  <2>2. CASE ~Deciding(v)
    BY <1>4, <2>2 DEF Stays, SameCall
  <2>3. QED
    BY <2>1, <2>2
<1>6. QED
  BY <1>1, <1>2, <1>3, <1>4, <1>5

LEMMA TellMoves ==
    ASSUME TypeInv, NEW w \in Writers, TellPlane(w)
    PROVE  LET a == call[w].action
               m == [op |-> IF call[w].record.state = "ACTIVE" THEN "apply" ELSE "lift",
                     action |-> a, by |-> w, late |-> FALSE] IN
           /\ InPc(w, "chain") /\ call[w].after = "push" /\ a \in Actions
           /\ call[w].entry \in {"applied", "lift"}
           /\ SameCall(call[w], call'[w]) /\ call'[w].pc = "plane" /\ call'[w].after = "end"
           /\ \A v \in Writers \ {w} : call'[v] = call[v]
           /\ wire' = wire \union {m} /\ EntryStored(w)
           /\ crossed' = IF Overwrites(w) \/ Underway(a) # {} THEN crossed \union {a} ELSE crossed
           /\ UNCHANGED <<policy, store, due, now, plane, hasty, dropped, misread, spent>>
<1> DEFINE c == [call[w] EXCEPT !.pc = "plane", !.after = "end"]
<1>1. /\ call[w] \in InCall /\ InOrder(w, call[w])
      /\ call[w].pc = "chain" /\ call[w].after = "push"
  BY DEF TypeInv, TypeOK, TellPlane, Appending, InPc
<1>2. call[w].action \in Actions /\ call[w].entry \in {"applied", "lift"}
  BY <1>1 DEF InOrder
<1>3. c \in InCall /\ InOrder(w, c) /\ Go(w, c)
  BY <1>1, <1>2 DEF InCall, InOrder, CallPcs, TellPlane
<1>4. call'[w] = c /\ \A v \in Writers \ {w} : call'[v] = call[v]
  BY <1>3, CallMoves
<1>5. SameCall(call[w], c) /\ c.pc = "plane" /\ c.after = "end"
  BY <1>1, CallChanges
<1> HIDE DEF c
<1>6. QED
  BY <1>1, <1>2, <1>4, <1>5 DEF TellPlane, InPc

\* The plane's answer, and the entry the call goes on to append.
PlaneSays(m, entry) ==
    /\ m.by \in Writers /\ InPc(m.by, "plane") /\ call[m.by].action = m.action
    /\ m.action \in Actions /\ ~m.late
    /\ SameCall(call[m.by], call'[m.by])
    /\ call'[m.by].pc = "chain" /\ call'[m.by].entry = entry /\ call'[m.by].after = "end"
    /\ \A v \in Writers \ {m.by} : call'[v] = call[v]
    /\ UNCHANGED <<policy, store, due, now, log, crossed, hasty, dropped, spent>>

LEMMA PlaneMoves ==
    ASSUME TypeInv, NEW m \in wire, PlaneStep(m)
    PROVE  /\ misread \subseteq misread'
           /\ \/ /\ PlaneSays(m, IF m.op = "apply" THEN "plane.apply" ELSE "plane.lift")
                 /\ wire' = wire \ {m}
                 /\ Does(m) \/ (plane' = plane /\ m.action \in misread')
              \/ /\ PlaneSays(m, "plane.failed")
                 /\ plane' = plane \/ Does(m)
                 /\ wire' \in {wire \ {m}, (wire \ {m}) \union {[m EXCEPT !.late = TRUE]}}
<1>1. ASSUME ~m.late, NEW entry \in {"plane.apply", "plane.lift", "plane.failed"},
             Answered(m.by, entry),
             UNCHANGED <<policy, store, due, now, log, crossed, hasty, dropped, spent>>
      PROVE  PlaneSays(m, entry)
  <2> DEFINE w == m.by
             c == [call[w] EXCEPT !.pc = "chain", !.entry = entry]
  <2>1. /\ w \in Writers /\ InPc(w, "plane") /\ call[w].action = m.action
        /\ m.action \in Actions
        /\ call'[w] = c /\ \A v \in Writers \ {w} : call'[v] = call[v]
    BY <1>1, AnswerMoves
  <2>2. call[w] \in InCall /\ call[w].after = "end"
    BY <2>1 DEF TypeInv, TypeOK, InOrder, InPc
  <2>3. SameCall(call[w], c) /\ c.pc = "chain" /\ c.entry = entry /\ c.after = "end"
    BY <2>2 DEF InCall, SameCall
  <2> HIDE DEF c
  <2>4. QED
    BY <1>1, <2>1, <2>3 DEF PlaneSays
<1>2. CASE PlaneDoes(m) \/ PlaneIgnores(m)
  <2>1. PlaneSays(m, IF m.op = "apply" THEN "plane.apply" ELSE "plane.lift")
    <3> DEFINE entry == IF m.op = "apply" THEN "plane.apply" ELSE "plane.lift"
    <3>1. entry \in {"plane.apply", "plane.lift", "plane.failed"}
      OBVIOUS
    <3>2. /\ ~m.late /\ Answered(m.by, entry)
          /\ UNCHANGED <<policy, store, due, now, log, crossed, hasty, dropped, spent>>
      BY <1>2 DEF PlaneDoes, PlaneIgnores
    <3> HIDE DEF entry
    <3>3. PlaneSays(m, entry)
      BY <1>1, <3>1, <3>2
    <3>4. QED
      BY <3>3 DEF entry
  <2>2. /\ wire' = wire \ {m} /\ misread \subseteq misread'
        /\ Does(m) \/ (plane' = plane /\ m.action \in misread')
    BY <1>2 DEF PlaneDoes, PlaneIgnores
  <2>3. QED
    BY <2>1, <2>2
<1>3. CASE PlaneRefuses(m)
  BY <1>1, <1>3 DEF PlaneRefuses
<1>4. CASE PlaneTimesOut(m)
  BY <1>1, <1>4 DEF PlaneTimesOut
<1>5. QED
  BY <1>2, <1>3, <1>4 DEF PlaneStep

-----------------------------------------------------------------------------
(***************************************************************************)
(* The life of an action.  An action being asked for is nobody else's, and *)
(* has no row yet.                                                         *)
(***************************************************************************)
Asking(w) == call[w].op = "apply" /\ call[w].pc \in {"view", "save"}

ApplyInv ==
    \A w \in Writers : Asking(w) =>
        /\ store[call[w].action].state = "NONE"
        /\ \A v \in Writers \ {w} : call[v].action # call[w].action

\* Where no call takes up an action, and no row is written.
LEMMA ApplyKept ==
    ASSUME TypeInv, ApplyInv, UNCHANGED store,
           \A v \in Writers :
               /\ call'[v].action \in {None, call[v].action}
               /\ Asking(v)' => Asking(v) /\ call'[v].action = call[v].action
    PROVE  ApplyInv'
<1>1. \A v \in Writers : Asking(v) => call[v].action \in Actions
  BY DEF TypeInv, InOrder, Asking
<1>2. None \notin Actions
  BY NoneIsNobody
<1>3. QED
  BY <1>1, <1>2 DEF ApplyInv

LEMMA ApplyQuiet ==
    ASSUME TypeInv, ApplyInv, NEW w \in Writers, Quiet(w)
    PROVE  ApplyInv'
<1>1. PICK c \in InCall : QuietTo(w, c)
  BY QuietSteps
<1>2. /\ call'[w] = c /\ \A v \in Writers \ {w} : call'[v] = call[v]
      /\ UNCHANGED store
  BY <1>1, CallMoves DEF QuietTo
<1>3. call[w] \in InCall /\ InOrder(w, call[w])
  BY DEF TypeInv, TypeOK
<1>4. CASE Rests(w, c) \/ ReadsPolicy(w, c) \/ ReadsView(w, c)
  <2>1. c.action \in {None, call[w].action}
    BY <1>3, <1>4 DEF Rests, ReadsPolicy, ReadsView, InCall
  <2>2. Asking(w)' => Asking(w) /\ c.action = call[w].action
    BY <1>2, <1>3, <1>4 DEF Rests, ReadsPolicy, ReadsView, InCall, Asking, InPc, InOrder
  <2>3. QED
    BY <1>2, <2>1, <2>2, ApplyKept DEF Asking
<1>5. CASE AsksApply(w, c)
  <2>1. store[c.action].state = "NONE" /\ \A v \in Writers : call[v].action # c.action
    BY <1>5 DEF AsksApply, Fresh
  <2>2. QED
    BY <1>2, <2>1 DEF ApplyInv, Asking
<1>6. CASE AsksApprove(w, c) \/ AsksLift(c)
  <2>1. store[c.action].state # "NONE" /\ ~Asking(w)'
    BY <1>2, <1>6 DEF AsksApprove, AsksLift, Asking
  <2>2. \A v \in Writers : Asking(v) => call[v].action # c.action
    BY <2>1 DEF ApplyInv
  <2>3. QED
    BY <1>2, <2>1, <2>2 DEF ApplyInv, Asking
<1>7. QED
  BY <1>1, <1>4, <1>5, <1>6 DEF QuietTo, QuietWay

LEMMA ApplySave ==
    ASSUME TypeInv, ApplyInv, NEW w \in Writers, SaveStep(w)
    PROVE  ApplyInv'
<1>1. InPc(w, "save")
  BY WaysToSave
<1>2. PICK record \in Records, entry \in Kinds, after \in {"push", "end"} :
          Written(w, record, entry, after)
  BY WaysToSave
<1> DEFINE a == call[w].action
<1>3. \A b \in Actions \ {a} : store'[b] = store[b]
  BY <1>1, <1>2, SaveMoves DEF Written
<1>4. /\ call'[w].pc = "chain" /\ call'[w].action = a
      /\ \A v \in Writers \ {w} : Stays(v)
  BY <1>1, <1>2, SaveLeaves DEF Written
<1>5. \A v \in Writers : Asking(v) => call[v].action \in Actions
  BY DEF TypeInv, InOrder, Asking
<1>6. \A v \in Writers : call'[v].action = call[v].action /\ (Asking(v)' => Asking(v) /\ v # w)
  BY <1>4 DEF Asking, Stays, SameCall
<1>7. \A v \in Writers : Asking(v)' => call[v].action \in Actions \ {a}
  BY <1>5, <1>6 DEF ApplyInv
<1>8. QED
  BY <1>3, <1>6, <1>7 DEF ApplyInv

LEMMA ApplyNext == TypeInv /\ ApplyInv /\ [Next]_vars => ApplyInv'
<1> SUFFICES ASSUME TypeInv, ApplyInv, [Next]_vars PROVE ApplyInv'
  OBVIOUS
<1>2. ASSUME NEW w \in Writers, TellPlane(w) PROVE ApplyInv'
  <2>1. /\ UNCHANGED store /\ SameCall(call[w], call'[w]) /\ call'[w].pc = "plane"
        /\ \A v \in Writers \ {w} : call'[v] = call[v]
    BY <1>2, TellMoves
  <2>2. QED
    BY <2>1, ApplyKept DEF Asking, SameCall
<1>3. ASSUME NEW w \in Writers, Ends(w) PROVE ApplyInv'
  <2>1. PICK c \in InCall : /\ InOrder(w, c) /\ Go(w, c) /\ c.action = None
                            /\ c.pc \in {"idle", "next"}
    BY <1>3, EndMoves
  <2>2. call'[w] = c /\ \A v \in Writers \ {w} : call'[v] = call[v]
    BY <2>1, CallMoves
  <2>3. UNCHANGED store
    BY <1>3, EndMoves
  <2>4. QED
    BY <2>1, <2>2, <2>3, ApplyKept DEF Asking
<1>4. ASSUME NEW m \in wire, PlaneStep(m) PROVE ApplyInv'
  <2>1. \E entry : PlaneSays(m, entry)
    BY <1>4, PlaneMoves
  <2>2. QED
    BY <2>1, ApplyKept DEF PlaneSays, Asking, SameCall
<1>5. ASSUME NEW w \in Writers, NEW p \in Policies, SetPolicy(w, p) PROVE ApplyInv'
  <2>1. /\ UNCHANGED store /\ call'[w].pc = "chain" /\ call'[w].action = None
        /\ \A v \in Writers \ {w} : Stays(v)
    BY <1>5, PolicyMoves
  <2>2. QED
    BY <2>1, ApplyKept DEF Asking, Stays, SameCall
<1>6. ASSUME StopServer PROVE ApplyInv'
  BY <1>6 DEF StopServer, ApplyInv, Asking, Resting
<1>7. ASSUME UNCHANGED <<store, call>> PROVE ApplyInv'
  BY <1>7 DEF ApplyInv, Asking
<1>8. CASE Next
  BY <1>2, <1>3, <1>4, <1>5, <1>6, <1>7, <1>8, NextIsStep, ApplyQuiet, ApplySave
     DEF Step, PlaneDoesLate, Tick
<1>9. CASE UNCHANGED vars
  BY <1>7, <1>9 DEF vars
<1>10. QED
  BY <1>8, <1>9

LEMMA ApplyInitially == Init => ApplyInv
  BY DEF Init, ApplyInv, Asking, Resting

LifeVars == Life!lifeVars

\* A step that leaves rows and crossings alone is no step of a life; so is crossing.
LEMMA LifeStays ==
    ASSUME UNCHANGED store, NEW a \in Actions, crossed' \in {crossed, crossed \union {a}}
    PROVE  [Life!LifeNext]_LifeVars
<1>1. CASE crossed' = crossed
  BY <1>1 DEF LifeVars, Life!lifeVars
<1>2. CASE crossed' = crossed \union {a}
  BY <1>2 DEF Life!LifeNext, Life!Others, Life!Cross
<1>3. QED
  BY <1>1, <1>2

LEMMA LifeSave ==
    ASSUME TypeInv, ApplyInv, NEW w \in Writers, SaveStep(w)
    PROVE  Life!LifeNext
<1>1. InPc(w, "save")
  BY WaysToSave
<1>2. PICK record \in Records, entry \in Kinds, after \in {"push", "end"} :
          Written(w, record, entry, after)
  BY WaysToSave
<1> DEFINE r == call[w].record
<1>a. call[w].action \in Actions
  BY <1>1, <1>2, SaveMoves DEF Written
<1>b. PICK a \in Actions : a = call[w].action
  BY <1>a
<1>3. store'[a] = record /\ \A b \in Actions \ {a} : store'[b] = store[b]
  BY <1>1, <1>2, <1>b, SaveMoves DEF Written
<1>4. crossed' = IF call[w].op # "apply" /\ store[a] # r THEN crossed \union {a} ELSE crossed
  BY <1>2, <1>b DEF Written, Save, Overwrites
<1>5. Life!Others(a)
  BY <1>3 DEF Life!Others
<1>6. CASE crossed' = crossed \union {a}
  BY <1>3, <1>5, <1>6 DEF Life!LifeNext, Life!Cross
<1>7. CASE crossed' = crossed /\ call[w].op = "apply"
  <2>1. store[a].state = "NONE"
    BY <1>1, <1>7, <1>b DEF ApplyInv, Asking, InPc
  <2>2. record.state \in {"PENDING", "ACTIVE"}
    BY <1>2, <1>7 DEF Written, Way, Proposes, Approves, Refuses, Lifts, TakesEffect
  <2>3. Life!Moves(a)
    BY <1>3, <1>7, <2>1, <2>2 DEF Life!Moves, Life!Ask, Life!Take
  <2>4. QED
    BY <1>3, <1>5, <2>3 DEF Life!LifeNext
<1>8. CASE crossed' = crossed /\ call[w].op # "apply" /\ store[a] = r
  <2>1. r \in Records /\ InOrder(w, call[w]) /\ call[w].pc = "save"
    BY <1>1 DEF TypeInv, TypeOK, InCall, InPc
  <2>2. CASE Approves(w, record)
    <3>1. /\ store[a].state = "PENDING" /\ record.state = "ACTIVE"
          /\ record.proposal = store[a].proposal
          /\ record.approver \in People /\ record.approver # record.proposal.by
      BY <1>8, <2>1, <2>2 DEF Approves, TakesEffect, InOrder
    <3>2. Life!Moves(a)
      BY <1>3, <1>8, <3>1, NoneIsNobody DEF Life!Moves, Life!Approve
    <3>3. QED
      BY <1>3, <1>5, <3>2 DEF Life!LifeNext
  <2>3. CASE Refuses(w, record)
    <3>1. /\ store[a].state = "PENDING" /\ record.state = "REFUSED"
          /\ record.proposal = store[a].proposal /\ record.approver = store[a].approver
      BY <1>8, <2>1, <2>3 DEF Refuses, InOrder, Records
    <3>2. Life!Moves(a)
      BY <1>3, <1>8, <3>1 DEF Life!Moves, Life!Refuse, Life!Same
    <3>3. QED
      BY <1>3, <1>5, <3>2 DEF Life!LifeNext
  <2>4. CASE Lifts(w, record)
    <3>1. /\ store[a].state = "ACTIVE" /\ record.state = "LIFTED"
          /\ record.proposal = store[a].proposal /\ record.approver = store[a].approver
      BY <1>8, <2>1, <2>4 DEF Lifts, InOrder, Records
    <3>2. Life!Moves(a)
      BY <1>3, <1>8, <3>1 DEF Life!Moves, Life!Lift, Life!Same
    <3>3. QED
      BY <1>3, <1>5, <3>2 DEF Life!LifeNext
  <2>5. QED
    BY <1>2, <1>8, <2>2, <2>3, <2>4 DEF Written, Way, Proposes
<1>9. QED
  BY <1>4, <1>6, <1>7, <1>8

LEMMA LifeNext ==
    ASSUME TypeInv, ApplyInv, [Next]_vars
    PROVE  [Life!LifeNext]_LifeVars
<1>1. ASSUME NEW w \in Writers, TellPlane(w) PROVE [Life!LifeNext]_LifeVars
  <2>1. /\ UNCHANGED store /\ call[w].action \in Actions
        /\ crossed' \in {crossed, crossed \union {call[w].action}}
    BY <1>1, TellMoves
  <2>2. QED
    BY <2>1, LifeStays
<1>2. ASSUME NEW w \in Writers, SaveStep(w) PROVE [Life!LifeNext]_LifeVars
  BY <1>2, LifeSave
<1>3. ASSUME UNCHANGED <<store, crossed>> PROVE [Life!LifeNext]_LifeVars
  BY <1>3 DEF LifeVars, Life!lifeVars
<1>4. ASSUME NEW w \in Writers, Quiet(w) PROVE UNCHANGED <<store, crossed>>
  BY <1>4, QuietSteps DEF QuietTo
<1>5. ASSUME NEW w \in Writers, Ends(w) PROVE UNCHANGED <<store, crossed>>
  BY <1>5, EndMoves
<1>6. CASE Next
  BY <1>1, <1>2, <1>3, <1>4, <1>5, <1>6, NextIsStep DEF Step, PlaneStep, PlaneDoes,
     PlaneIgnores, PlaneRefuses, PlaneTimesOut, PlaneDoesLate, SetPolicy, Tick, StopServer
<1>7. CASE UNCHANGED vars
  BY <1>3, <1>7 DEF vars
<1>8. QED
  BY <1>6, <1>7

(***************************************************************************)
(* approve, lift and the sweep implement the life of an action: nobody     *)
(* approves what they asked for, nothing is approved twice or lifted       *)
(* before it was in force, and what is refused or lifted stays so, unless  *)
(* two callers crossed on it.                                              *)
(***************************************************************************)
THEOREM EnforcementImplementsLife == Spec => ImplementsLife
<1>1. Init => Life!LifeInit
  BY DEF Init, Life!LifeInit, Unknown
<1>2. TypeInv /\ ApplyInv /\ [Next]_vars => [Life!LifeNext]_LifeVars
  BY LifeNext
<1>3. Spec => [](TypeInv /\ ApplyInv)
  BY TypesInitially, TypesNext, ApplyInitially, ApplyNext, PTL DEF Spec
<1>4. QED
  BY <1>1, <1>2, <1>3, PTL DEF Spec, ImplementsLife, Life!LifeSpec, LifeVars

-----------------------------------------------------------------------------
(***************************************************************************)
(* The evidence.  Of an action nobody crossed on, being applied and being  *)
(* lifted is on the chain once at most and only since the record says so;  *)
(* what the record says is on the chain, or somebody is appending it, or   *)
(* the call that would have was cut short.                                 *)
(***************************************************************************)
Chapters == {"applied", "lift"}
Since(kind) == IF kind = "applied" THEN InForce ELSE {"LIFTED"}

Appends(w, kind, a) == InPc(w, "chain") /\ call[w].entry = kind /\ call[w].action = a
Told(kind, a) == Times(kind, a) = 1 \/ \E w \in Writers : Appends(w, kind, a)

EvidenceOf(kind, a) ==
    /\ Times(kind, a) \in {0, 1}
    /\ \A w \in Writers : Appends(w, kind, a) =>
          Times(kind, a) = 0 /\ \A v \in Writers : Appends(v, kind, a) => v = w
    /\ Told(kind, a) => store[a].state \in Since(kind)
    /\ store[a].state \in Since(kind) => Told(kind, a) \/ a \in dropped

EvidenceInv == \A a \in Actions, kind \in Chapters : a \notin crossed => EvidenceOf(kind, a)

\* Nobody begins or ends to append, unless cut short.
SameAppends(kind, a) ==
    \A w \in Writers : /\ Appends(w, kind, a)' => Appends(w, kind, a)
                       /\ Appends(w, kind, a) => Appends(w, kind, a)' \/ a \in dropped'

LEMMA EvidenceKept ==
    ASSUME NEW kind, NEW a, EvidenceOf(kind, a), SameAppends(kind, a),
           Times(kind, a)' = Times(kind, a), dropped \subseteq dropped',
           store[a].state \in Since(kind) <=> store'[a].state \in Since(kind)
    PROVE  EvidenceOf(kind, a)'
<1>1. Told(kind, a)' => Told(kind, a)
  BY DEF Told, SameAppends
<1>2. Told(kind, a) => Told(kind, a)' \/ a \in dropped'
  BY DEF Told, SameAppends
<1>3. (store[a].state \in Since(kind))' <=> store'[a].state \in Since(kind)
  BY DEF Since, InForce
<1>4. \A w \in Writers : Appends(w, kind, a)' =>
          Times(kind, a)' = 0 /\ \A v \in Writers : Appends(v, kind, a)' => v = w
  BY DEF EvidenceOf, SameAppends
<1>5. QED
  BY <1>1, <1>2, <1>3, <1>4 DEF EvidenceOf

LEMMA EvidenceKeptAll ==
    ASSUME EvidenceInv, UNCHANGED <<store, log>>,
           crossed \subseteq crossed', dropped \subseteq dropped',
           \A a \in Actions, kind \in Chapters : SameAppends(kind, a)
    PROVE  EvidenceInv'
<1> SUFFICES ASSUME NEW a \in Actions, NEW kind \in Chapters, a \notin crossed'
             PROVE  EvidenceOf(kind, a)'
  BY DEF EvidenceInv
<1>1. EvidenceOf(kind, a) /\ SameAppends(kind, a)
  BY DEF EvidenceInv
<1>2. Times(kind, a)' = Times(kind, a) /\ store' = store
  BY DEF Times
<1>3. QED
  BY <1>1, <1>2, EvidenceKept

\* The entry of a call is stored, and the call goes on from there.
LEMMA EvidenceStored ==
    ASSUME TypeInv, EvidenceInv, NEW w \in Writers, InPc(w, "chain"), EntryStored(w),
           call'[w].pc # "chain", \A v \in Writers \ {w} : call'[v] = call[v],
           UNCHANGED store, crossed \subseteq crossed', dropped \subseteq dropped'
    PROVE  EvidenceInv'
<1> SUFFICES ASSUME NEW a \in Actions, NEW kind \in Chapters, a \notin crossed'
             PROVE  EvidenceOf(kind, a)'
  BY DEF EvidenceInv
<1>1. EvidenceOf(kind, a)
  BY DEF EvidenceInv
<1>2. Entry(kind, a) \in Counted /\ log \in [Counted -> Nat]
  BY DEF Entry, Counted, Chapters, TypeInv, TypeOK
<1>3. ~Appends(w, kind, a)' /\ \A v \in Writers \ {w} : Appends(v, kind, a)' <=> Appends(v, kind, a)
  BY DEF Appends, InPc
<1>4. CASE Appends(w, kind, a)
  <2>1. Appended(w) = Entry(kind, a)
    BY <1>4 DEF Appends, Appended
  <2>2. Times(kind, a)' = Times(kind, a) + 1
    BY <1>2, <2>1 DEF EntryStored, Times
  <2>3. Times(kind, a)' = 1
    BY <1>1, <1>4, <2>2 DEF EvidenceOf
  <2>4. \A v \in Writers : ~Appends(v, kind, a)'
    BY <1>1, <1>3, <1>4 DEF EvidenceOf
  <2>5. Told(kind, a)' /\ store'[a].state \in Since(kind)
    BY <1>1, <1>4, <2>3 DEF EvidenceOf, Told
  <2>6. QED
    BY <2>3, <2>4, <2>5 DEF EvidenceOf, Since, InForce
<1>5. CASE ~Appends(w, kind, a)
  <2>1. Appended(w) # Entry(kind, a)
    BY <1>5 DEF Appends, Appended, Entry
  <2>2. Times(kind, a)' = Times(kind, a)
    BY <1>2, <2>1 DEF EntryStored, Times
  <2>3. SameAppends(kind, a)
    BY <1>3, <1>5 DEF SameAppends
  <2>4. QED
    BY <1>1, <2>2, <2>3, EvidenceKept
<1>6. QED
  BY <1>4, <1>5

\* What an uncrossed save says of the row that was there.
LEMMA SaveTurns ==
    ASSUME TypeInv, ApplyInv, NEW w \in Writers, InPc(w, "save"), NEW a, a = call[w].action,
           NEW record, NEW entry, NEW after, Written(w, record, entry, after), a \notin crossed'
    PROVE  /\ a \notin crossed
           /\ \/ /\ record.state \in {"ACTIVE", "PENDING", "REFUSED"}
                 /\ store[a].state \in {"NONE", "PENDING"}
              \/ record.state = "LIFTED" /\ store[a].state = "ACTIVE"
           /\ call[w].op = "apply" => store[a].state = "NONE"
           /\ call[w].op # "apply" => store[a] = call[w].record
<1>1. /\ crossed' = IF call[w].op # "apply" /\ Overwrites(w)
                    THEN crossed \union {a} ELSE crossed
      /\ Way(w, record)
  BY DEF Written, Save
<1>2. a \notin crossed /\ (call[w].op # "apply" => store[a] = call[w].record)
  BY <1>1 DEF Overwrites
<1>3. call[w].op = "apply" => store[a].state = "NONE"
  BY DEF ApplyInv, Asking, InPc
<1>4. call[w].record \in Records /\ InOrder(w, call[w]) /\ call[w].pc = "save"
  BY DEF TypeInv, TypeOK, InCall, InPc
<1>5. CASE Proposes(w, record)
  BY <1>2, <1>3, <1>5 DEF Proposes, TakesEffect
<1>6. CASE Approves(w, record)
  BY <1>2, <1>3, <1>4, <1>6 DEF Approves, TakesEffect, InOrder
<1>7. CASE Refuses(w, record)
  BY <1>2, <1>3, <1>4, <1>7 DEF Refuses, InOrder, Records
<1>8. CASE Lifts(w, record)
  BY <1>2, <1>3, <1>4, <1>8 DEF Lifts, InOrder, Records
<1>9. QED
  BY <1>1, <1>5, <1>6, <1>7, <1>8 DEF Way

LEMMA EvidenceSave ==
    ASSUME TypeInv, ApplyInv, EvidenceInv, NEW w \in Writers, SaveStep(w)
    PROVE  EvidenceInv'
<1>1. InPc(w, "save")
  BY WaysToSave
<1>2. PICK record \in Records, entry \in Kinds, after \in {"push", "end"} :
          Written(w, record, entry, after)
  BY WaysToSave
<1>3. PICK a \in Actions : a = call[w].action
  BY <1>1, <1>2, SaveMoves DEF Written
<1>4. /\ store'[a] = record /\ \A b \in Actions \ {a} : store'[b] = store[b]
      /\ UNCHANGED <<log, dropped>> /\ crossed \subseteq crossed'
  <2>1. store'[a] = record /\ \A b \in Actions \ {a} : store'[b] = store[b]
    BY <1>1, <1>2, <1>3, SaveMoves DEF Written
  <2>2. UNCHANGED <<log, dropped>> /\ crossed \subseteq crossed'
    BY <1>2 DEF Written, Save
  <2>3. QED
    BY <2>1, <2>2
<1>5. /\ call'[w].pc = "chain" /\ call'[w].action = a /\ call'[w].entry = entry
      /\ \A v \in Writers \ {w} : Stays(v)
  BY <1>1, <1>2, <1>3, SaveLeaves DEF Written
<1>6. \A b, kind : /\ ~Appends(w, kind, b)
                   /\ Appends(w, kind, b)' <=> kind = entry /\ b = a
                   /\ \A v \in Writers \ {w} : Appends(v, kind, b)' <=> Appends(v, kind, b)
  BY <1>1, <1>5 DEF Appends, InPc, Stays, SameCall
<1> SUFFICES ASSUME NEW b \in Actions, NEW kind \in Chapters, b \notin crossed'
             PROVE  EvidenceOf(kind, b)'
  BY DEF EvidenceInv
<1>7. EvidenceOf(kind, b) /\ Times(kind, b)' = Times(kind, b)
  BY <1>4 DEF EvidenceInv, Times
<1>8. CASE b = a /\ kind = entry
  <2>1. record.state = IF kind = "applied" THEN "ACTIVE" ELSE "LIFTED"
    BY <1>2, <1>8 DEF Written, Saves, Chapters
  <2>2. store[b].state \notin Since(kind) /\ store'[b].state \in Since(kind)
    BY <1>1, <1>2, <1>3, <1>4, <1>8, <2>1, SaveTurns DEF Since, InForce, Chapters
  <2>3. Times(kind, b) = 0 /\ \A v \in Writers : ~Appends(v, kind, b)
    BY <1>7, <2>2 DEF EvidenceOf, Told
  <2>4. \A v \in Writers : Appends(v, kind, b)' <=> v = w
    BY <1>6, <1>8, <2>3
  <2>5. Told(kind, b)'
    BY <2>4 DEF Told
  <2>6. QED
    BY <1>7, <2>2, <2>3, <2>4, <2>5 DEF EvidenceOf, Since, InForce
<1>9. CASE ~(b = a /\ kind = entry)
  <2>1. SameAppends(kind, b)
    BY <1>6, <1>9 DEF SameAppends
  <2>2. store[b].state \in Since(kind) <=> store'[b].state \in Since(kind)
    <3>1. CASE b # a
      BY <1>4, <3>1
    <3>2. CASE b = a
      <4>1. entry # kind /\ (entry = "applied" <=> record.state = "ACTIVE")
            /\ (entry = "lift" <=> record.state = "LIFTED")
        BY <1>2, <1>9, <3>2 DEF Written, Saves
      <4>2. QED
        BY <1>1, <1>2, <1>3, <1>4, <3>2, <4>1, SaveTurns DEF Since, InForce, Chapters
    <3>3. QED
      BY <3>1, <3>2
  <2>3. QED
    BY <1>4, <1>7, <2>1, <2>2, EvidenceKept
<1>10. QED
  BY <1>8, <1>9

LEMMA EvidenceInitially == Init => EvidenceInv
<1> SUFFICES ASSUME Init, NEW a \in Actions, NEW kind \in Chapters PROVE EvidenceOf(kind, a)
  BY DEF EvidenceInv
<1>1. Times(kind, a) = 0
  BY DEF Init, Times, Entry, Counted, Chapters
<1>2. \A w \in Writers : ~Appends(w, kind, a)
  BY DEF Init, Appends, InPc, Resting
<1>3. store[a].state = "NONE"
  BY DEF Init, Unknown
<1>4. QED
  BY <1>1, <1>2, <1>3 DEF EvidenceOf, Told, Since, InForce

LEMMA EvidenceNext == TypeInv /\ ApplyInv /\ EvidenceInv /\ [Next]_vars => EvidenceInv'
<1> SUFFICES ASSUME TypeInv, ApplyInv, EvidenceInv, [Next]_vars PROVE EvidenceInv'
  OBVIOUS
<1>1. ASSUME NEW w \in Writers, Quiet(w) PROVE EvidenceInv'
  <2>1. PICK c \in InCall : QuietTo(w, c)
    BY <1>1, QuietSteps
  <2>2. /\ call'[w] = c /\ \A v \in Writers \ {w} : call'[v] = call[v]
        /\ UNCHANGED <<store, log, crossed, dropped>> /\ call[w].pc # "chain"
    BY <2>1, CallMoves DEF QuietTo
  <2>3. c.pc = "chain" => c.entry = "refused"
    <3>1. call[w] \in InCall
      BY DEF TypeInv, TypeOK
    <3>2. QED
      BY <2>1, <3>1 DEF QuietTo, QuietWay, Rests, AsksApply, AsksApprove, AsksLift,
         ReadsPolicy, ReadsView, InCall
  <2>4. \A a \in Actions, kind \in Chapters : SameAppends(kind, a)
    BY <2>2, <2>3 DEF SameAppends, Appends, InPc, Chapters
  <2>5. QED
    BY <2>2, <2>4, EvidenceKeptAll
<1>2. ASSUME NEW w \in Writers, TellPlane(w) PROVE EvidenceInv'
  BY <1>2, TellMoves, EvidenceStored
<1>3. ASSUME NEW w \in Writers, Ends(w) PROVE EvidenceInv'
  <2>1. PICK c \in InCall : /\ InOrder(w, c) /\ Go(w, c) /\ c.pc \in {"idle", "next"}
    BY <1>3, EndMoves
  <2>2. call'[w] = c /\ \A v \in Writers \ {w} : call'[v] = call[v]
    BY <2>1, CallMoves
  <2>3. CASE EntryStored(w)
    BY <1>3, <2>1, <2>2, <2>3, EndMoves, EvidenceStored
  <2>4. CASE UNCHANGED log /\ {call[w].action} \ {None} \subseteq dropped'
    <3>1. \A a \in Actions, kind \in Chapters : SameAppends(kind, a)
      BY <2>1, <2>2, <2>4, NoneIsNobody DEF SameAppends, Appends, InPc
    <3>2. QED
      BY <1>3, <2>4, <3>1, EndMoves, EvidenceKeptAll
  <2>5. QED
    BY <1>3, <2>3, <2>4, EndMoves
<1>4. ASSUME NEW m \in wire, PlaneStep(m) PROVE EvidenceInv'
  <2>1. PICK entry : PlaneSays(m, entry) /\ entry \notin Chapters
    BY <1>4, PlaneMoves DEF Chapters
  <2>2. \A a \in Actions, kind \in Chapters : SameAppends(kind, a)
    BY <2>1 DEF PlaneSays, SameAppends, Appends, InPc
  <2>3. QED
    BY <2>1, <2>2, EvidenceKeptAll DEF PlaneSays
<1>5. ASSUME NEW w \in Writers, NEW p \in Policies, SetPolicy(w, p) PROVE EvidenceInv'
  <2>1. /\ UNCHANGED <<store, log, crossed, dropped>>
        /\ InPc(w, "idle") /\ call'[w].entry = "policy"
        /\ \A v \in Writers \ {w} : Stays(v)
    BY <1>5, PolicyMoves
  <2>2. \A a \in Actions, kind \in Chapters : SameAppends(kind, a)
    BY <2>1 DEF SameAppends, Appends, InPc, Chapters, Stays, SameCall
  <2>3. QED
    BY <2>1, <2>2, EvidenceKeptAll
<1>6. ASSUME StopServer PROVE EvidenceInv'
  <2>1. /\ call' = [w \in Writers |-> Resting]
        /\ dropped' = dropped \union ({call[w].action : w \in Writers} \ {None})
        /\ UNCHANGED <<store, log, crossed>>
    BY <1>6 DEF StopServer
  <2>2. \A a \in Actions, kind \in Chapters : SameAppends(kind, a)
    BY <2>1, NoneIsNobody DEF SameAppends, Appends, InPc, Resting
  <2>3. QED
    BY <2>1, <2>2, EvidenceKeptAll
<1>7. ASSUME UNCHANGED <<store, log, call, crossed, dropped>> PROVE EvidenceInv'
  BY <1>7, EvidenceKeptAll DEF SameAppends, Appends, InPc
<1>8. CASE Next
  BY <1>1, <1>2, <1>3, <1>4, <1>5, <1>6, <1>7, <1>8, NextIsStep, EvidenceSave
     DEF Step, PlaneDoesLate, Tick
<1>9. CASE UNCHANGED vars
  BY <1>7, <1>9 DEF vars
<1>10. QED
  BY <1>8, <1>9

LEMMA EvidenceTells == TypeInv /\ EvidenceInv => EvidenceMatchesRecord
<1> SUFFICES ASSUME TypeInv, EvidenceInv, NEW a \in Actions \ crossed
             PROVE  /\ Times("applied", a) <= 1 /\ Times("lift", a) <= 1
                    /\ Times("lift", a) = 1 => store[a].state = "LIFTED"
                    /\ Times("applied", a) = 1 => store[a].state \in {"ACTIVE", "LIFTED"}
                    /\ AtRest(a) /\ a \notin dropped =>
                          /\ store[a].state \in {"ACTIVE", "LIFTED"} <=> Times("applied", a) = 1
                          /\ store[a].state = "LIFTED" <=> Times("lift", a) = 1
  BY DEF EvidenceMatchesRecord
<1>1. EvidenceOf("applied", a) /\ EvidenceOf("lift", a)
  BY DEF EvidenceInv, Chapters
<1>2. AtRest(a) => \A w \in Writers, kind \in Chapters : ~Appends(w, kind, a)
  BY DEF AtRest, Appends
<1>3. QED
  BY <1>1, <1>2 DEF EvidenceOf, Told, Since, InForce, Chapters

(***************************************************************************)
(* The evidence chain tells the record's story: of an action nobody        *)
(* crossed on, approve, lift and the sweep append each turn once, none     *)
(* that the record does not show, and none is missing unless the call was  *)
(* cut short.                                                              *)
(***************************************************************************)
THEOREM EvidenceIsTheRecord == Spec => []EvidenceMatchesRecord
<1>1. Init => TypeInv /\ ApplyInv /\ EvidenceInv
  BY TypesInitially, ApplyInitially, EvidenceInitially
<1>2. TypeInv /\ ApplyInv /\ EvidenceInv /\ [Next]_vars => (TypeInv /\ ApplyInv /\ EvidenceInv)'
  BY TypesNext, ApplyNext, EvidenceNext
<1>3. TypeInv /\ EvidenceInv => EvidenceMatchesRecord
  BY EvidenceTells
<1>4. QED
  BY <1>1, <1>2, <1>3, PTL DEF Spec

-----------------------------------------------------------------------------
(***************************************************************************)
(* The plane.  Of an action nobody crossed on, whose calls ran to their    *)
(* end, for which the plane has not failed and none of its answers was     *)
(* misread, one request at most is on its way, and somebody waits for it.  The request, or the plane if there *)
(* is none, is as the record says, unless the call that wrote the record   *)
(* is still to tell.                                                       *)
(***************************************************************************)
Failed == "plane.failed"

Clean(a) ==
    /\ a \notin crossed /\ a \notin dropped /\ a \notin misread
    /\ Times(Failed, a) = 0
    /\ \A w \in Writers : ~Appends(w, Failed, a)

Current(w, a) ==
    /\ InPc(w, "chain") /\ call[w].after = "push"
    /\ call[w].action = a /\ call[w].record = store[a]

AsTheRecordSays(a) ==
    /\ \A m \in wire : m.action = a => (m.op = "apply" <=> store[a].state = "ACTIVE")
    /\ (\A m \in wire : m.action # a) => (a \in plane <=> store[a].state = "ACTIVE")

PlaneOf(a) ==
    /\ \A m, n \in wire : m.action = a /\ n.action = a => m = n
    /\ \A m \in wire : m.action = a => ~m.late /\ store[a].state \in InForce
    /\ (\A w \in Writers : ~Current(w, a)) => AsTheRecordSays(a)

PlaneInv == \A a \in Actions : Clean(a) => PlaneOf(a)

\* What is no longer clean never is again.
LEMMA CleanBefore ==
    ASSUME NEW a, Clean(a)', crossed \subseteq crossed', dropped \subseteq dropped',
           misread \subseteq misread',
           Times(Failed, a)' = Times(Failed, a) \/ Times(Failed, a)' > Times(Failed, a),
           Times(Failed, a) \in Nat,
           \A w \in Writers : Appends(w, Failed, a) => Appends(w, Failed, a)'
    PROVE  Clean(a)
  BY DEF Clean

LEMMA TimesAreNumbers ==
    ASSUME TypeInv, NEW a \in Actions
    PROVE  Times(Failed, a) \in Nat
  BY DEF TypeInv, TypeOK, Times, Entry, Counted, Failed

\* A step that is about something else.
LEMMA PlaneKept ==
    ASSUME NEW a, PlaneOf(a), store'[a] = store[a], a \in plane' <=> a \in plane,
           \A m \in wire : m.action = a => m \in wire',
           \A m \in wire' : m.action = a => m \in wire,
           \A w \in Writers : Current(w, a) => Current(w, a)'
    PROVE  PlaneOf(a)'
<1>1. (\A w \in Writers : ~Current(w, a)') => \A w \in Writers : ~Current(w, a)
  OBVIOUS
<1>2. AsTheRecordSays(a) => AsTheRecordSays(a)'
  BY DEF AsTheRecordSays
<1>3. QED
  BY <1>1, <1>2 DEF PlaneOf

LEMMA PlaneKeptAll ==
    ASSUME TypeInv, PlaneInv, UNCHANGED <<store, wire, plane, log, crossed, dropped, misread>>,
           \A a \in Actions, w \in Writers :
               /\ Appends(w, Failed, a) => Appends(w, Failed, a)'
               /\ Current(w, a) => Current(w, a)'
    PROVE  PlaneInv'
<1> SUFFICES ASSUME NEW a \in Actions, Clean(a)' PROVE PlaneOf(a)'
  BY DEF PlaneInv
<1>1. Times(Failed, a)' = Times(Failed, a) /\ Times(Failed, a) \in Nat
  BY TimesAreNumbers DEF Times
<1>2. PlaneOf(a)
  BY <1>1, CleanBefore DEF PlaneInv
<1>3. QED
  BY <1>2, PlaneKept

LEMMA PlaneSave ==
    ASSUME TypeInv, ApplyInv, PlaneInv, NEW w \in Writers, SaveStep(w)
    PROVE  PlaneInv'
<1>1. InPc(w, "save")
  BY WaysToSave
<1>2. PICK record \in Records, entry \in Kinds, after \in {"push", "end"} :
          Written(w, record, entry, after)
  BY WaysToSave
<1>3. PICK a \in Actions : a = call[w].action
  BY <1>1, <1>2, SaveMoves DEF Written
<1>4. store'[a] = record /\ \A b \in Actions \ {a} : store'[b] = store[b]
  BY <1>1, <1>2, <1>3, SaveMoves DEF Written
<1>5. UNCHANGED <<log, dropped, misread, wire, plane>> /\ crossed \subseteq crossed'
  BY <1>2 DEF Written, Save
<1>6. /\ call'[w].pc = "chain" /\ call'[w].action = a /\ call'[w].record = record
      /\ call'[w].after = after
      /\ \A v \in Writers \ {w} : Stays(v)
  BY <1>1, <1>2, <1>3, SaveLeaves DEF Written
<1> SUFFICES ASSUME NEW b \in Actions, Clean(b)' PROVE PlaneOf(b)'
  BY DEF PlaneInv
<1>7. \A v \in Writers : Appends(v, Failed, b) => Appends(v, Failed, b)'
  BY <1>1, <1>6 DEF Appends, InPc, Stays, SameCall
<1>8. PlaneOf(b)
  <2>1. Times(Failed, b)' = Times(Failed, b) /\ Times(Failed, b) \in Nat
    BY <1>5, TimesAreNumbers DEF Times
  <2>2. Clean(b)
    BY <1>5, <1>7, <2>1, CleanBefore
  <2>3. QED
    BY <2>2 DEF PlaneInv
<1>9. CASE b # a
  <2>1. \A v \in Writers : Current(v, b) => Current(v, b)'
    BY <1>1, <1>4, <1>6, <1>9 DEF Current, InPc, Stays, SameCall
  <2>2. QED
    BY <1>4, <1>5, <1>8, <1>9, <2>1, PlaneKept
<1>10. CASE b = a /\ record.state \in InForce
  <2>1. Current(w, b)'
    BY <1>2, <1>4, <1>6, <1>10 DEF Current, InPc, Written, Saves, InForce
  <2>2. store'[b].state \in InForce
    BY <1>4, <1>10
  <2>3. QED
    BY <1>5, <1>8, <2>1, <2>2 DEF PlaneOf, InForce
<1>11. CASE b = a /\ record.state \notin InForce
  <2>1. store[b].state \in {"NONE", "PENDING"} /\ record.state # "ACTIVE"
    BY <1>1, <1>2, <1>3, <1>11, SaveTurns DEF InForce, Clean
  <2>2. \A v \in Writers : ~Current(v, b)
    BY <2>1 DEF Current, InPc, TypeInv, InOrder
  <2>3. /\ \A m \in wire : m.action # b
        /\ b \notin plane
    BY <1>8, <2>1, <2>2 DEF PlaneOf, AsTheRecordSays, InForce
  <2>4. QED
    BY <1>4, <1>5, <1>11, <2>1, <2>3 DEF PlaneOf, AsTheRecordSays
<1>12. QED
  BY <1>9, <1>10, <1>11

LEMMA PlaneTell ==
    ASSUME TypeInv, PlaneInv, NEW w \in Writers, TellPlane(w)
    PROVE  PlaneInv'
<1>1. PICK a \in Actions : a = call[w].action
  BY TellMoves
<1> DEFINE m == [op |-> IF call[w].record.state = "ACTIVE" THEN "apply" ELSE "lift",
                 action |-> a, by |-> w, late |-> FALSE]
<1>2. /\ InPc(w, "chain") /\ call[w].after = "push" /\ call[w].entry \in {"applied", "lift"}
      /\ SameCall(call[w], call'[w]) /\ call'[w].pc = "plane"
      /\ \A v \in Writers \ {w} : call'[v] = call[v]
      /\ wire' = wire \union {m} /\ EntryStored(w)
      /\ crossed' = IF Overwrites(w) \/ Underway(a) # {} THEN crossed \union {a} ELSE crossed
      /\ UNCHANGED <<store, plane, dropped, misread>>
  BY <1>1, TellMoves
<1>3. /\ m.action = a /\ ~m.late
      /\ m.op = "apply" <=> call[w].record.state = "ACTIVE"
  OBVIOUS
<1> HIDE DEF m
<1> SUFFICES ASSUME NEW b \in Actions, Clean(b)' PROVE PlaneOf(b)'
  BY DEF PlaneInv
<1>4. \A v \in Writers : Appends(v, Failed, b) => Appends(v, Failed, b)'
  BY <1>2 DEF Appends, InPc, Failed
<1>5. PlaneOf(b)
  <2>1. Times(Failed, b)' = Times(Failed, b) /\ Times(Failed, b) \in Nat
    <3>1. Appended(w) # Entry(Failed, b) /\ Entry(Failed, b) \in Counted
      BY <1>2 DEF Appended, Entry, Failed, Counted
    <3>2. QED
      BY <1>2, <3>1, TimesAreNumbers DEF EntryStored, Times
  <2>2. Clean(b)
    BY <1>2, <1>4, <2>1, CleanBefore
  <2>3. QED
    BY <2>2 DEF PlaneInv
<1>6. CASE b # a
  <2>1. \A v \in Writers : Current(v, b) => Current(v, b)'
    BY <1>1, <1>2, <1>6 DEF Current, InPc
  <2>2. QED
    BY <1>2, <1>3, <1>5, <1>6, <2>1, PlaneKept
<1>7. CASE b = a
  <2>1. ~Overwrites(w) /\ Underway(a) = {}
    BY <1>2, <1>7 DEF Clean
  <2>2. \A n \in wire : n.action # b
    BY <1>5, <1>7, <2>1 DEF PlaneOf, Underway
  <2>3. call[w].record = store[b] /\ store[b].state \in InForce
    BY <1>1, <1>2, <1>7, <2>1 DEF Overwrites, TypeInv, InOrder, InPc, InForce
  <2>4. QED
    BY <1>2, <1>3, <1>7, <2>2, <2>3 DEF PlaneOf, AsTheRecordSays
<1>8. QED
  BY <1>6, <1>7

LEMMA PlaneEnd ==
    ASSUME TypeInv, PlaneInv, NEW w \in Writers, Ends(w)
    PROVE  PlaneInv'
<1>1. PICK c \in InCall : InOrder(w, c) /\ Go(w, c) /\ c.pc \in {"idle", "next"}
  BY EndMoves
<1>2. /\ call'[w] = c /\ \A v \in Writers \ {w} : call'[v] = call[v]
      /\ InPc(w, "chain") /\ UNCHANGED <<store, plane, wire, crossed, misread>> /\ dropped \subseteq dropped'
  BY <1>1, CallMoves, EndMoves
<1> SUFFICES ASSUME NEW a \in Actions, Clean(a)' PROVE PlaneOf(a)'
  BY DEF PlaneInv
<1>3. Times(Failed, a) \in Nat /\ Entry(Failed, a) \in Counted
  BY TimesAreNumbers DEF Entry, Counted, Failed
<1>4. /\ Times(Failed, a)' = Times(Failed, a) \/ Times(Failed, a)' > Times(Failed, a)
      /\ EntryStored(w) /\ Appended(w) = Entry(Failed, a) => Times(Failed, a)' > Times(Failed, a)
  BY <1>3, EndMoves DEF EntryStored, Times
<1>5. call[w].action = a => EntryStored(w) /\ call[w].after = "end"
  BY NoneIsNobody DEF Ends, CallReturns, CallThrows, Clean
<1>6. ~Appends(w, Failed, a)
  BY <1>3, <1>4, <1>5 DEF Appends, Appended, Clean
<1>7. Clean(a)
  BY <1>2, <1>3, <1>4, <1>6, CleanBefore DEF Appends, InPc
<1>8. \A v \in Writers : Current(v, a) => Current(v, a)'
  BY <1>2, <1>5 DEF Current, InPc
<1>9. PlaneOf(a)
  BY <1>7 DEF PlaneInv
<1>10. QED
  BY <1>2, <1>8, <1>9, PlaneKept

LEMMA PlaneAnswers ==
    ASSUME TypeInv, PlaneInv, NEW m \in wire, PlaneStep(m)
    PROVE  PlaneInv'
<1>1. m \in Messages /\ wire \subseteq Messages
  BY DEF TypeInv, TypeOK
<1>2. PICK entry :
          /\ PlaneSays(m, entry)
          /\ \/ /\ entry # Failed /\ wire' = wire \ {m}
                /\ Does(m) \/ (plane' = plane /\ m.action \in misread')
             \/ /\ entry = Failed /\ (plane' = plane \/ Does(m))
                /\ wire' \in {wire \ {m}, (wire \ {m}) \union {[m EXCEPT !.late = TRUE]}}
  BY PlaneMoves DEF Failed
<1>3. /\ call'[m.by].pc = "chain" /\ call'[m.by].entry = entry /\ call'[m.by].after = "end"
      /\ call'[m.by].action = m.action /\ call[m.by].pc = "plane" /\ m.by \in Writers
      /\ \A v \in Writers \ {m.by} : call'[v] = call[v]
      /\ misread \subseteq misread'
      /\ UNCHANGED <<store, log, crossed, dropped>>
  BY <1>2, PlaneMoves DEF PlaneSays, SameCall, InPc
<1>4. /\ \A n \in wire' : n.action # m.action => n \in wire
      /\ \A n \in wire : n.action # m.action => n \in wire'
      /\ \A b : b # m.action => (b \in plane' <=> b \in plane)
  <2>1. [m EXCEPT !.late = TRUE].action = m.action
    BY <1>1 DEF Messages
  <2>2. QED
    BY <1>2, <2>1 DEF Does
<1> SUFFICES ASSUME NEW a \in Actions, Clean(a)' PROVE PlaneOf(a)'
  BY DEF PlaneInv
<1>5. PlaneOf(a)
  <2>1. Times(Failed, a)' = Times(Failed, a) /\ Times(Failed, a) \in Nat
    BY <1>3, TimesAreNumbers DEF Times
  <2>2. Clean(a)
    BY <1>3, <2>1, CleanBefore DEF Appends, InPc
  <2>3. QED
    BY <2>2 DEF PlaneInv
<1>6. \A v \in Writers : Current(v, a) => Current(v, a)'
  BY <1>3 DEF Current, InPc
<1>7. CASE a # m.action
  BY <1>3, <1>4, <1>5, <1>6, <1>7, PlaneKept
<1>8. CASE a = m.action
  <2>1. entry # Failed
    BY <1>3, <1>8 DEF Clean, Appends, InPc
  <2>2. Does(m) /\ wire' = wire \ {m}
    <3>1. m.action \notin misread'
      BY <1>8 DEF Clean
    <3>2. QED
      BY <1>2, <2>1, <3>1
  <2>3. \A n \in wire' : n.action # a
    BY <1>5, <1>8, <2>2 DEF PlaneOf
  <2>4. (\A v \in Writers : ~Current(v, a)') => (m.op = "apply" <=> store[a].state = "ACTIVE")
    BY <1>5, <1>6, <1>8 DEF PlaneOf, AsTheRecordSays
  <2>5. a \in plane' <=> m.op = "apply"
    BY <1>8, <2>2 DEF Does
  <2>6. QED
    BY <1>3, <2>3, <2>4, <2>5 DEF PlaneOf, AsTheRecordSays
<1>9. QED
  BY <1>7, <1>8

LEMMA PlaneLate ==
    ASSUME TypeInv, PlaneInv, NEW m \in wire, PlaneDoesLate(m)
    PROVE  PlaneInv'
<1>1. /\ m.late /\ wire' = wire \ {m} /\ (plane' = plane \/ Does(m))
      /\ UNCHANGED <<store, call, log, crossed, dropped, misread>>
  BY DEF PlaneDoesLate
<1> SUFFICES ASSUME NEW a \in Actions, Clean(a)' PROVE PlaneOf(a)'
  BY DEF PlaneInv
<1>2. PlaneOf(a)
  BY <1>1 DEF PlaneInv, Clean, Times, Appends, InPc
<1>3. a # m.action
  BY <1>1, <1>2 DEF PlaneOf
<1>4. a \in plane' <=> a \in plane
  BY <1>1, <1>3 DEF Does
<1>5. QED
  BY <1>1, <1>2, <1>3, <1>4, PlaneKept DEF Current, InPc

LEMMA PlaneStop ==
    ASSUME TypeInv, PlaneInv, StopServer
    PROVE  PlaneInv'
<1>1. /\ call' = [w \in Writers |-> Resting]
      /\ dropped' = dropped \union ({call[w].action : w \in Writers} \ {None})
      /\ wire' = {[m EXCEPT !.late = TRUE] : m \in wire}
      /\ UNCHANGED <<store, plane, log, crossed, misread>>
  BY DEF StopServer
<1> SUFFICES ASSUME NEW a \in Actions, Clean(a)' PROVE PlaneOf(a)'
  BY DEF PlaneInv
<1>2. \A w \in Writers : call[w].action # a
  BY <1>1, NoneIsNobody DEF Clean
<1>3. PlaneOf(a) /\ \A w \in Writers : ~Current(w, a)
  <2>1. Times(Failed, a)' = Times(Failed, a) /\ Times(Failed, a) \in Nat
    BY <1>1, TimesAreNumbers DEF Times
  <2>2. Clean(a)
    BY <1>1, <1>2, <2>1, CleanBefore DEF Appends
  <2>3. QED
    BY <1>2, <2>2 DEF PlaneInv, Current
<1>4. wire \subseteq Messages /\ WireInOrder
  BY DEF TypeInv, TypeOK
<1>5. \A m \in wire : m.action # a
  <2>1. \A m \in wire : m.action = a => ~m.late
    BY <1>3 DEF PlaneOf
  <2>2. QED
    BY <1>2, <1>4, <2>1 DEF WireInOrder, Messages
<1>6. \A m \in wire' : m.action # a
  <2>1. \A m \in wire : [m EXCEPT !.late = TRUE].action = m.action
    BY <1>4 DEF Messages
  <2>2. QED
    BY <1>1, <1>5, <2>1
<1>7. QED
  BY <1>1, <1>3, <1>5, <1>6 DEF PlaneOf, AsTheRecordSays

LEMMA PlaneInitially == Init => PlaneInv
  BY DEF Init, PlaneInv, PlaneOf, AsTheRecordSays, Unknown

LEMMA PlaneNext == TypeInv /\ ApplyInv /\ PlaneInv /\ [Next]_vars => PlaneInv'
<1> SUFFICES ASSUME TypeInv, ApplyInv, PlaneInv, [Next]_vars PROVE PlaneInv'
  OBVIOUS
<1>1. ASSUME NEW w \in Writers, Quiet(w) PROVE PlaneInv'
  <2>1. PICK c \in InCall : QuietTo(w, c)
    BY <1>1, QuietSteps
  <2>2. /\ call'[w] = c /\ \A v \in Writers \ {w} : call'[v] = call[v]
        /\ UNCHANGED <<store, wire, plane, log, crossed, dropped, misread>> /\ call[w].pc # "chain"
    BY <2>1, CallMoves DEF QuietTo
  <2>3. QED
    BY <2>2, PlaneKeptAll DEF Appends, Current, InPc
<1>2. ASSUME NEW w \in Writers, NEW p \in Policies, SetPolicy(w, p) PROVE PlaneInv'
  <2>1. /\ InPc(w, "idle") /\ \A v \in Writers \ {w} : Stays(v)
        /\ UNCHANGED <<store, wire, plane, log, crossed, dropped, misread>>
    BY <1>2, PolicyMoves
  <2>2. QED
    BY <2>1, PlaneKeptAll DEF Appends, Current, InPc, Stays, SameCall
<1>3. ASSUME UNCHANGED <<store, wire, plane, log, crossed, dropped, misread, call>> PROVE PlaneInv'
  BY <1>3, PlaneKeptAll DEF Appends, Current, InPc
<1>4. CASE Next
  BY <1>1, <1>2, <1>3, <1>4, NextIsStep, PlaneSave, PlaneTell, PlaneEnd, PlaneAnswers, PlaneLate,
     PlaneStop DEF Step, Tick
<1>5. CASE UNCHANGED vars
  BY <1>3, <1>5 DEF vars
<1>6. QED
  BY <1>4, <1>5

LEMMA PlaneTells == TypeInv /\ PlaneInv => PlaneMatchesRecord
<1> SUFFICES ASSUME TypeInv, PlaneInv, NEW a \in Actions, AtRest(a),
                    ~Recorded("plane.failed", a), a \notin dropped \union crossed \union misread
             PROVE  a \in plane <=> store[a].state = "ACTIVE"
  BY DEF PlaneMatchesRecord
<1>1. Times(Failed, a) = 0
  BY TimesAreNumbers DEF Recorded, Failed
<1>2. \A w \in Writers : ~Appends(w, Failed, a) /\ ~Current(w, a)
  BY DEF AtRest, Appends, Current
<1>3. PlaneOf(a) /\ \A m \in wire : m.action # a
  BY <1>1, <1>2 DEF PlaneInv, Clean, AtRest
<1>4. QED
  BY <1>2, <1>3 DEF PlaneOf, AsTheRecordSays

(***************************************************************************)
(* "The block is approved" and "the block reached something that can drop  *)
(* a packet" come to the same for every action at rest, unless the chain   *)
(* says that the plane failed, the call that would have told it was cut    *)
(* short, two callers crossed on the action, or the plane left the action  *)
(* alone and answered something that was read as success.                  *)
(***************************************************************************)
THEOREM PlaneIsTheRecord == Spec => []PlaneMatchesRecord
<1>1. Init => TypeInv /\ ApplyInv /\ PlaneInv
  BY TypesInitially, ApplyInitially, PlaneInitially
<1>2. TypeInv /\ ApplyInv /\ PlaneInv /\ [Next]_vars => (TypeInv /\ ApplyInv /\ PlaneInv)'
  BY TypesNext, ApplyNext, PlaneNext
<1>3. TypeInv /\ PlaneInv => PlaneMatchesRecord
  BY PlaneTells
<1>4. QED
  BY <1>1, <1>2, <1>3, PTL DEF Spec

-----------------------------------------------------------------------------
(***************************************************************************)
(* The clock: nothing was applied, and no call began, after now.           *)
(***************************************************************************)
NotAfter(r) == r.appliedAt # None => r.appliedAt <= now

ClockInv ==
    /\ \A a \in Actions : NotAfter(store[a])
    /\ \A w \in Writers : call[w].at <= now /\ NotAfter(call[w].record)

LEMMA ClockCall ==
    ASSUME ClockInv, UNCHANGED <<store, now>>, NEW w \in Writers,
           call'[w].at <= now, NotAfter(call'[w].record),
           \A v \in Writers \ {w} : SameCall(call[v], call'[v])
    PROVE  ClockInv'
<1>1. \A v \in Writers \ {w} : call'[v].at <= now /\ NotAfter(call'[v].record)
  BY DEF ClockInv, SameCall
<1>2. \A v \in Writers : call'[v].at <= now /\ NotAfter(call'[v].record)
  BY <1>1
<1>3. QED
  BY <1>2 DEF ClockInv, NotAfter

LEMMA BlankIsNotAfter ==
    ASSUME TypeInv, NEW c, Blank(c)
    PROVE  c.at <= now /\ NotAfter(c.record)
  BY BoundsAreNumbers DEF TypeInv, TypeOK, Blank, NotAfter, Unknown

LEMMA ClockQuiet ==
    ASSUME TypeInv, ClockInv, NEW w \in Writers, Quiet(w)
    PROVE  ClockInv'
<1>1. PICK c \in InCall : QuietTo(w, c)
  BY QuietSteps
<1>2. /\ call'[w] = c /\ \A v \in Writers \ {w} : call'[v] = call[v]
      /\ UNCHANGED <<store, now>>
  BY <1>1, CallMoves DEF QuietTo
<1>3. now \in Nat /\ call[w] \in InCall /\ call[w].at <= now /\ NotAfter(call[w].record)
  BY BoundsAreNumbers DEF ClockInv, TypeInv, TypeOK
<1>4. c.at <= now /\ NotAfter(c.record)
  <2>1. InOrder(w, c)
    BY <1>1 DEF QuietTo
  <2>2. CASE Rests(w, c)
    BY <1>3, <2>2, BlankIsNotAfter DEF Rests
  <2>3. CASE AsksApply(w, c) \/ AsksApprove(w, c)
    BY <1>3, <2>1, <2>3 DEF AsksApply, AsksApprove, InOrder, IsRow, NotAfter
  <2>4. CASE AsksLift(c)
    BY <1>3, <2>1, <2>4 DEF AsksLift, InOrder, ClockInv
  <2>5. CASE ReadsPolicy(w, c) \/ ReadsView(w, c)
    <3>1. c.at = call[w].at /\ c.record = call[w].record
      BY <1>3, <2>5 DEF ReadsPolicy, ReadsView, InCall
    <3>2. QED
      BY <1>3, <3>1
  <2>6. QED
    BY <1>1, <2>2, <2>3, <2>4, <2>5 DEF QuietTo, QuietWay
<1>5. QED
  BY <1>2, <1>4, ClockCall DEF SameCall

LEMMA ClockSave ==
    ASSUME TypeInv, ClockInv, NEW w \in Writers, SaveStep(w)
    PROVE  ClockInv'
<1>1. InPc(w, "save")
  BY WaysToSave
<1>2. PICK record \in Records, entry \in Kinds, after \in {"push", "end"} :
          Written(w, record, entry, after)
  BY WaysToSave
<1>3. PICK a \in Actions : a = call[w].action
  BY <1>1, <1>2, SaveMoves DEF Written
<1>4. store'[a] = record /\ \A b \in Actions \ {a} : store'[b] = store[b]
  BY <1>1, <1>2, <1>3, SaveMoves DEF Written
<1>5. /\ call'[w].record = record /\ call'[w].at = 0
      /\ \A v \in Writers \ {w} : SameCall(call[v], call'[v])
  BY <1>1, <1>2, SaveLeaves DEF Written, Stays
<1>6. now' = now /\ now \in Nat
  BY <1>2, BoundsAreNumbers DEF Written, Save, TypeInv, TypeOK
<1>7. call[w].record \in Records /\ call[w].at <= now /\ NotAfter(call[w].record)
  BY DEF ClockInv, TypeInv, TypeOK, InCall
<1>8. NotAfter(record)
  <2>1. CASE TakesEffect(w, record)
    BY <1>7, <2>1 DEF TakesEffect, NotAfter
  <2>2. CASE Refuses(w, record) \/ Lifts(w, record)
    BY <1>7, <2>2 DEF Refuses, Lifts, NotAfter, Records
  <2>3. CASE record.state = "PENDING"
    BY <1>2, <2>3 DEF Written, Saves, IsRow, NotAfter
  <2>4. QED
    BY <1>2, <2>1, <2>2, <2>3 DEF Written, Way, Proposes, Approves
<1>9. \A b \in Actions : NotAfter(store'[b])
  BY <1>4, <1>8 DEF ClockInv
<1>10. \A v \in Writers : call'[v].at <= now /\ NotAfter(call'[v].record)
  BY <1>5, <1>6, <1>8 DEF ClockInv, SameCall
<1>11. QED
  BY <1>6, <1>9, <1>10 DEF ClockInv, NotAfter

LEMMA ClockInitially == Init => ClockInv
  BY DEF Init, ClockInv, NotAfter, Unknown, Resting

LEMMA ClockNext == TypeInv /\ ClockInv /\ [Next]_vars => ClockInv'
<1> SUFFICES ASSUME TypeInv, ClockInv, [Next]_vars PROVE ClockInv'
  OBVIOUS
<1>1. \A w \in Writers : call[w].at <= now /\ NotAfter(call[w].record)
  BY DEF ClockInv
<1>2. ASSUME NEW w \in Writers, TellPlane(w) PROVE ClockInv'
  <2>1. /\ SameCall(call[w], call'[w]) /\ \A v \in Writers \ {w} : call'[v] = call[v]
        /\ UNCHANGED <<store, now>>
    BY <1>2, TellMoves
  <2>2. QED
    BY <1>1, <2>1, ClockCall DEF SameCall
<1>3. ASSUME NEW w \in Writers, Ends(w) PROVE ClockInv'
  <2>1. PICK c \in InCall : InOrder(w, c) /\ Go(w, c) /\ Blank(c)
    BY <1>3, EndMoves
  <2>2. call'[w] = c /\ \A v \in Writers \ {w} : call'[v] = call[v]
    BY <2>1, CallMoves
  <2>3. c.at <= now /\ NotAfter(c.record) /\ UNCHANGED <<store, now>>
    BY <1>3, <2>1, BlankIsNotAfter, EndMoves
  <2>4. QED
    BY <2>2, <2>3, ClockCall DEF SameCall
<1>4. ASSUME NEW m \in wire, PlaneStep(m) PROVE ClockInv'
  <2>1. PICK entry : PlaneSays(m, entry)
    BY <1>4, PlaneMoves
  <2>2. /\ m.by \in Writers /\ SameCall(call[m.by], call'[m.by])
        /\ \A v \in Writers \ {m.by} : call'[v] = call[v]
        /\ UNCHANGED <<store, now>>
    BY <2>1 DEF PlaneSays
  <2>3. QED
    BY <1>1, <2>2, ClockCall DEF SameCall
<1>5. ASSUME NEW w \in Writers, NEW p \in Policies, SetPolicy(w, p) PROVE ClockInv'
  <2>1. /\ Blank(call'[w]) /\ \A v \in Writers \ {w} : SameCall(call[v], call'[v])
        /\ UNCHANGED <<store, now>>
    BY <1>5, PolicyMoves DEF Stays, Blank
  <2>2. QED
    BY <2>1, ClockCall, BlankIsNotAfter
<1>6. ASSUME StopServer PROVE ClockInv'
  <2>1. UNCHANGED <<store, now>> /\ \A w \in Writers : call'[w] = Resting
    BY <1>6 DEF StopServer
  <2>2. Resting.at <= now /\ NotAfter(Resting.record)
    BY BlankIsNotAfter DEF Blank, Resting
  <2>3. QED
    BY <2>1, <2>2 DEF ClockInv, NotAfter
<1>7. ASSUME Tick PROVE ClockInv'
  <2>1. now' = now + 1 /\ UNCHANGED <<store, call>> /\ now \in Nat
    BY <1>7, BoundsAreNumbers DEF Tick, TypeInv, TypeOK
  <2>2. ASSUME NEW r \in Records, NotAfter(r)
        PROVE  NotAfter(r)'
    BY <2>1, <2>2 DEF NotAfter, Records
  <2>3. /\ \A a \in Actions : store[a] \in Records
        /\ \A w \in Writers : call[w].record \in Records /\ call[w].at \in Nat
    BY DEF TypeInv, TypeOK, InCall
  <2>4. \A a \in Actions : NotAfter(store[a])'
    BY <2>1, <2>2, <2>3 DEF ClockInv, NotAfter
  <2>5. \A w \in Writers : call[w].at <= now' /\ NotAfter(call[w].record)'
    BY <2>1, <2>2, <2>3 DEF ClockInv, NotAfter
  <2>6. QED
    BY <2>1, <2>4, <2>5 DEF ClockInv, NotAfter
<1>8. ASSUME UNCHANGED <<store, call, now>> PROVE ClockInv'
  BY <1>8 DEF ClockInv, NotAfter
<1>9. CASE Next
  BY <1>2, <1>3, <1>4, <1>5, <1>6, <1>7, <1>8, <1>9, NextIsStep, ClockQuiet, ClockSave
     DEF Step, PlaneDoesLate
<1>10. CASE UNCHANGED vars
  BY <1>8, <1>10 DEF vars
<1>11. QED
  BY <1>9, <1>10

-----------------------------------------------------------------------------
(***************************************************************************)
(* The rails.  A call whose reads nothing has overtaken judges by the      *)
(* policy that is stored, and knows of every action applied in the hour    *)
(* before it: none was applied since it began.                             *)
(***************************************************************************)
Judging(w) == Deciding(w) /\ call[w].op \in {"apply", "approve"}

AppliedTo(at) == AppliedBefore(at) \ crossed

CalmOf(w) ==
    Judging(w) /\ call[w].calm =>
        /\ \A a \in Actions \ crossed :
              store[a].appliedAt # None => store[a].appliedAt <= call[w].at
        /\ InPc(w, "save") => Cardinality(AppliedTo(call[w].at)) <= call[w].used
        /\ call[w].pc \in {"view", "save"} => call[w].policy = policy

CalmInv == \A w \in Writers : CalmOf(w)

\* Of what nobody has crossed on, nothing more was applied.
NoneApplied ==
    /\ crossed \subseteq crossed'
    /\ \A a \in Actions : a \notin crossed' => store'[a].appliedAt = store[a].appliedAt

LEMMA FewerAreFewer ==
    ASSUME NEW S, NEW T, T \subseteq Actions, S \subseteq T
    PROVE  /\ Cardinality(S) \in Nat /\ Cardinality(T) \in Nat
           /\ Cardinality(S) <= Cardinality(T)
<1>1. IsFiniteSet(T)
  BY ActionsAreFinite, FS_Subset
<1>2. QED
  BY <1>1, FS_Subset, FS_CardinalityType

LEMMA CalmKept ==
    ASSUME TypeInv, NEW w \in Writers, CalmOf(w), NoneApplied,
           Judging(w)' /\ call'[w].calm =>
               /\ SameCall(call[w], call'[w]) /\ call'[w].pc = call[w].pc
               /\ call[w].calm /\ policy' = policy
    PROVE  CalmOf(w)'
<1> SUFFICES ASSUME Judging(w)', call'[w].calm PROVE CalmOf(w)'
  BY DEF CalmOf
<1>1. /\ Judging(w) /\ call[w].calm /\ call'[w].pc = call[w].pc /\ policy' = policy
      /\ call'[w].at = call[w].at /\ call'[w].used = call[w].used
      /\ call'[w].policy = call[w].policy
  BY DEF Judging, Deciding, SameCall
<1>2. PICK at \in Nat : at = call[w].at
  BY DEF TypeInv, TypeOK, InCall
<1>3. InPc(w, "save") => Cardinality(AppliedTo(at)') <= call[w].used
  <2>1. AppliedTo(at) \subseteq Actions
    BY DEF AppliedTo, AppliedBefore
  <2>2. \A a \in AppliedTo(at)' : a \in AppliedTo(at)
    BY <1>1 DEF AppliedTo, AppliedBefore, NoneApplied
  <2>3. call[w].used \in Nat
    BY DEF TypeInv, TypeOK, InCall
  <2>4. /\ Cardinality(AppliedTo(at)') \in Nat /\ Cardinality(AppliedTo(at)) \in Nat
        /\ Cardinality(AppliedTo(at)') <= Cardinality(AppliedTo(at))
    BY <2>1, <2>2, FewerAreFewer
  <2>5. InPc(w, "save") => Cardinality(AppliedTo(at)) <= call[w].used
    BY <1>1, <1>2 DEF CalmOf
  <2>6. QED
    BY <2>3, <2>4, <2>5
<1>4. \A a \in Actions \ crossed' :
          store'[a].appliedAt # None => store'[a].appliedAt <= call'[w].at
  BY <1>1 DEF CalmOf, NoneApplied
<1>5. call'[w].pc \in {"view", "save"} => call'[w].policy = policy'
  BY <1>1 DEF CalmOf
<1>6. InPc(w, "save")' => Cardinality(AppliedTo(call[w].at))' <= call'[w].used
  <2>1. AppliedTo(call[w].at)' = AppliedTo(at)'
    BY <1>1, <1>2 DEF AppliedTo, AppliedBefore
  <2>2. QED
    BY <1>1, <1>3, <2>1 DEF InPc
<1>7. QED
  BY <1>4, <1>5, <1>6 DEF CalmOf

LEMMA CalmQuiet ==
    ASSUME TypeInv, ClockInv, CalmInv, NEW w \in Writers, Quiet(w)
    PROVE  CalmInv'
<1>1. PICK c \in InCall : QuietTo(w, c)
  BY QuietSteps
<1>2. /\ call'[w] = c /\ \A v \in Writers \ {w} : call'[v] = call[v]
      /\ UNCHANGED <<store, crossed, policy>> /\ call[w] \in InCall /\ CalmOf(w)
  BY <1>1, CallMoves DEF QuietTo, CalmInv, TypeInv, TypeOK
<1>3. NoneApplied
  BY <1>2 DEF NoneApplied
<1>4. \A v \in Writers \ {w} : CalmOf(v)'
  BY <1>2, <1>3, CalmKept DEF CalmInv, Judging, SameCall, Deciding
<1>5. ASSUME Rests(w, c) \/ AsksLift(c) PROVE CalmOf(w)'
  BY <1>2, <1>5 DEF Rests, AsksLift, CalmOf, Judging, Deciding
<1>6. ASSUME AsksApply(w, c) \/ AsksApprove(w, c) PROVE CalmOf(w)'
  BY <1>2, <1>6 DEF AsksApply, AsksApprove, CalmOf, InPc, ClockInv, NotAfter
<1>7. ASSUME ReadsPolicy(w, c) PROVE CalmOf(w)'
  <2>1. /\ call[w].pc = "policy" /\ c.pc = "view" /\ c.policy = policy /\ c.at = call[w].at
        /\ c.calm = call[w].calm /\ c.op = call[w].op
    BY <1>2, <1>7 DEF ReadsPolicy, InPc, InCall
  <2>2. QED
    BY <1>2, <2>1 DEF CalmOf, Judging, Deciding, InPc
<1>8. ASSUME ReadsView(w, c) PROVE CalmOf(w)'
  <2> DEFINE n == Cardinality(AppliedBefore(call[w].at))
  <2>1. call[w].pc = "view" /\ c = [call[w] EXCEPT !.pc = "save", !.used = n]
    BY <1>8 DEF ReadsView, InPc
  <2> HIDE DEF n
  <2>2. /\ c.pc = "save" /\ c.policy = call[w].policy /\ c.at = call[w].at
        /\ c.calm = call[w].calm /\ c.op = call[w].op /\ c.used = n
    BY <1>2, <2>1 DEF InCall
  <2>3. Cardinality(AppliedTo(call[w].at)) <= n
    <3>1. /\ AppliedBefore(call[w].at) \subseteq Actions
          /\ AppliedTo(call[w].at) \subseteq AppliedBefore(call[w].at)
      BY DEF AppliedTo, AppliedBefore
    <3>2. QED
      BY <3>1, FewerAreFewer DEF n
  <2>4. AppliedTo(call[w].at)' = AppliedTo(call[w].at)
    BY <1>2, <2>2 DEF AppliedTo, AppliedBefore
  <2>5. QED
    BY <1>2, <2>1, <2>2, <2>3, <2>4 DEF CalmOf, Judging, Deciding, InPc
<1>9. CalmOf(w)'
  BY <1>1, <1>5, <1>6, <1>7, <1>8 DEF QuietTo, QuietWay
<1>10. QED
  BY <1>4, <1>9 DEF CalmInv

\* A save applies nothing but what it writes ACTIVE.
LEMMA SaveApplies ==
    ASSUME TypeInv, ApplyInv, NEW w \in Writers, InPc(w, "save"),
           NEW record, NEW entry, NEW after, Written(w, record, entry, after),
           record.state # "ACTIVE"
    PROVE  NoneApplied
<1>1. PICK a \in Actions : a = call[w].action
  BY SaveMoves DEF Written
<1>2. store'[a] = record /\ \A b \in Actions \ {a} : store'[b] = store[b]
  BY <1>1, SaveMoves DEF Written
<1>3. crossed \subseteq crossed'
  BY DEF Written, Save
<1>4. ASSUME a \notin crossed' PROVE record.appliedAt = store[a].appliedAt
  <2>1. CASE Refuses(w, record) \/ Lifts(w, record)
    <3>1. store[a] = call[w].record /\ call[w].record \in Records
      BY <1>1, <1>4, <2>1, SaveTurns DEF Refuses, Lifts, TypeInv, TypeOK, InCall
    <3>2. QED
      BY <2>1, <3>1 DEF Refuses, Lifts, Records
  <2>2. CASE Proposes(w, record) /\ record.state = "PENDING"
    <3>1. store[a].state = "NONE" /\ IsRow(store[a]) /\ IsRow(record)
      BY <1>1, <1>4, <2>2, SaveTurns DEF Proposes, TypeInv, Written, Saves
    <3>2. QED
      BY <2>2, <3>1 DEF IsRow
  <2>3. QED
    BY <2>1, <2>2 DEF Written, Way, Proposes, Approves, TakesEffect
<1>5. QED
  BY <1>2, <1>3, <1>4 DEF NoneApplied

LEMMA CalmSave ==
    ASSUME TypeInv, ApplyInv, CalmInv, NEW w \in Writers, SaveStep(w)
    PROVE  CalmInv'
<1>1. InPc(w, "save")
  BY WaysToSave
<1>2. PICK record \in Records, entry \in Kinds, after \in {"push", "end"} :
          Written(w, record, entry, after)
  BY WaysToSave
<1>3. /\ call'[w].pc = "chain"
      /\ \A v \in Writers \ {w} : /\ Stays(v)
                                  /\ record.state = "ACTIVE" /\ Deciding(v) => ~call'[v].calm
  BY <1>1, <1>2, SaveLeaves DEF Written
<1>4. policy' = policy
  BY <1>2 DEF Written, Save
<1>5. CalmOf(w)'
  BY <1>3 DEF CalmOf, Judging, Deciding
<1>6. CASE record.state = "ACTIVE"
  <2>1. \A v \in Writers \ {w} : Deciding(v)' => ~call'[v].calm
    BY <1>3, <1>6 DEF Stays, Deciding
  <2>2. QED
    BY <1>5, <2>1 DEF CalmInv, CalmOf, Judging
<1>7. CASE record.state # "ACTIVE"
  <2>1. NoneApplied
    BY <1>1, <1>2, <1>7, SaveApplies
  <2>2. \A v \in Writers \ {w} : CalmOf(v)'
    BY <1>3, <1>4, <2>1, CalmKept DEF CalmInv, Stays
  <2>3. QED
    BY <1>5, <2>2 DEF CalmInv
<1>8. QED
  BY <1>6, <1>7

\* A call goes on where no rail is asked.
LEMMA CalmAside ==
    ASSUME TypeInv, CalmInv, UNCHANGED <<store, policy>>, crossed \subseteq crossed',
           NEW w \in Writers, call'[w].pc \in {"idle", "next", "chain", "plane"},
           \A v \in Writers \ {w} : call'[v] = call[v]
    PROVE  CalmInv'
<1>1. NoneApplied
  BY DEF NoneApplied
<1>2. CalmOf(w)'
  BY DEF CalmOf, Judging, Deciding
<1>3. \A v \in Writers \ {w} : CalmOf(v)'
  BY <1>1, CalmKept DEF CalmInv, Judging, Deciding, SameCall
<1>4. QED
  BY <1>2, <1>3 DEF CalmInv

LEMMA CalmInitially == Init => CalmInv
  BY DEF Init, CalmInv, CalmOf, Judging, Deciding, Resting

LEMMA CalmNext == TypeInv /\ ApplyInv /\ ClockInv /\ CalmInv /\ [Next]_vars => CalmInv'
<1> SUFFICES ASSUME TypeInv, ApplyInv, ClockInv, CalmInv, [Next]_vars PROVE CalmInv'
  OBVIOUS
<1>1. ASSUME NEW w \in Writers, TellPlane(w) PROVE CalmInv'
  BY <1>1, TellMoves, CalmAside
<1>2. ASSUME NEW w \in Writers, Ends(w) PROVE CalmInv'
  <2>1. PICK c \in InCall : InOrder(w, c) /\ Go(w, c) /\ c.pc \in {"idle", "next"}
    BY <1>2, EndMoves
  <2>2. call'[w] = c /\ \A v \in Writers \ {w} : call'[v] = call[v]
    BY <2>1, CallMoves
  <2>3. UNCHANGED <<store, policy, crossed>>
    BY <1>2, EndMoves
  <2>4. QED
    BY <2>1, <2>2, <2>3, CalmAside
<1>3. ASSUME NEW m \in wire, PlaneStep(m) PROVE CalmInv'
  <2>1. PICK entry : PlaneSays(m, entry)
    BY <1>3, PlaneMoves
  <2>2. QED
    BY <2>1, CalmAside DEF PlaneSays
<1>4. ASSUME NEW w \in Writers, NEW p \in Policies, SetPolicy(w, p) PROVE CalmInv'
  <2>1. /\ call'[w].pc = "chain"
        /\ \A v \in Writers \ {w} : Stays(v) /\ (Deciding(v) => ~call'[v].calm)
    BY <1>4, PolicyMoves
  <2>2. \A v \in Writers : Deciding(v)' => ~call'[v].calm
    BY <2>1 DEF Stays, Deciding
  <2>3. QED
    BY <2>2 DEF CalmInv, CalmOf, Judging
<1>5. ASSUME StopServer PROVE CalmInv'
  BY <1>5 DEF StopServer, CalmInv, CalmOf, Judging, Deciding, Resting
<1>6. ASSUME UNCHANGED <<store, call, crossed, policy>> PROVE CalmInv'
  BY <1>6, CalmKept DEF CalmInv, NoneApplied, Judging, Deciding, SameCall
<1>7. CASE Next
  BY <1>1, <1>2, <1>3, <1>4, <1>5, <1>6, <1>7, NextIsStep, CalmQuiet, CalmSave
     DEF Step, PlaneDoesLate, Tick
<1>8. CASE UNCHANGED vars
  BY <1>6, <1>8 DEF vars
<1>9. QED
  BY <1>7, <1>8

-----------------------------------------------------------------------------
(***************************************************************************)
(* The rate limit, in any hour there may be.                               *)
(***************************************************************************)
AppliedIn(t) == AppliedInHourTo(t) \ (hasty \union crossed)

RateInv == \A t \in Nat : Cardinality(AppliedIn(t)) <= MostPerHour

LEMMA MostIsMost ==
    MostPerHour \in Nat /\ \A p \in Policies : p.maxActionsPerHour <= MostPerHour
<1> DEFINE S == {p.maxActionsPerHour : p \in Policies}
           Most(n) == \A p \in Policies : p.maxActionsPerHour <= n
<1>1. \E n \in S : Most(n)
  BY OnePolicyIsLaxest
<1>2. MostPerHour \in S /\ Most(MostPerHour)
  BY <1>1 DEF MostPerHour
<1>3. S \subseteq Nat
  BY PoliciesAreRails
<1>4. QED
  BY <1>2, <1>3

LEMMA RateKept ==
    ASSUME TypeInv, RateInv, NoneApplied, hasty \subseteq hasty'
    PROVE  RateInv'
<1> SUFFICES ASSUME NEW t \in Nat PROVE Cardinality(AppliedIn(t)') <= MostPerHour
  BY DEF RateInv
<1>1. \A a \in AppliedIn(t)' : a \in AppliedIn(t)
  BY DEF AppliedIn, AppliedInHourTo, NoneApplied
<1>2. AppliedIn(t) \subseteq Actions
  BY DEF AppliedIn, AppliedInHourTo
<1>3. /\ Cardinality(AppliedIn(t)') \in Nat /\ Cardinality(AppliedIn(t)) \in Nat
      /\ Cardinality(AppliedIn(t)') <= Cardinality(AppliedIn(t))
  BY <1>1, <1>2, FewerAreFewer
<1>4. Cardinality(AppliedIn(t)) <= MostPerHour
  BY DEF RateInv
<1>5. QED
  BY <1>3, <1>4, MostIsMost

\* What is judged calmly is within the limit of any hour it falls into.
LEMMA OneMoreFits ==
    ASSUME TypeInv, CalmInv, NEW w \in Writers, InPc(w, "save"),
           call[w].op \in {"apply", "approve"}, call[w].calm,
           call[w].used < call[w].policy.maxActionsPerHour,
           NEW t \in Nat, call[w].at \in (t - Hour + 1)..t
    PROVE  Cardinality(AppliedIn(t)) < MostPerHour
<1>1. PICK at \in Nat : at = call[w].at
  BY DEF TypeInv, TypeOK, InCall
<1>2. /\ \A a \in Actions \ crossed : store[a].appliedAt # None => store[a].appliedAt <= at
      /\ Cardinality(AppliedTo(at)) <= call[w].used
  BY <1>1 DEF CalmInv, CalmOf, Judging, Deciding, InPc
<1>3. AppliedIn(t) \subseteq AppliedTo(at)
  <2> SUFFICES ASSUME NEW a \in AppliedIn(t) PROVE a \in AppliedTo(at)
    OBVIOUS
  <2>1. /\ a \in Actions /\ a \notin crossed
        /\ store[a].appliedAt \in (t - Hour + 1)..t
    BY DEF AppliedIn, AppliedInHourTo
  <2>2. Hour \in Nat /\ at \in (t - Hour + 1)..t
    BY <1>1, BoundsAreNumbers
  <2>3. store[a].appliedAt # None
    BY <2>1, NoneIsNoTime
  <2>4. store[a].appliedAt <= at /\ at < store[a].appliedAt + Hour
    BY <1>2, <2>1, <2>2, <2>3
  <2>5. QED
    BY <2>1, <2>3, <2>4 DEF AppliedTo, AppliedBefore
<1>4. AppliedTo(at) \subseteq Actions
  BY DEF AppliedTo, AppliedBefore
<1>5. /\ Cardinality(AppliedIn(t)) \in Nat /\ Cardinality(AppliedTo(at)) \in Nat
      /\ Cardinality(AppliedIn(t)) <= Cardinality(AppliedTo(at))
  BY <1>3, <1>4, FewerAreFewer
<1>6. call[w].used \in Nat /\ call[w].policy \in Policies
  BY DEF TypeInv, TypeOK, InCall
<1>7. QED
  BY <1>2, <1>5, <1>6, MostIsMost, PoliciesAreRails

LEMMA RateSave ==
    ASSUME TypeInv, ApplyInv, CalmInv, RateInv, NEW w \in Writers, SaveStep(w)
    PROVE  RateInv'
<1>1. InPc(w, "save")
  BY WaysToSave
<1>2. PICK record \in Records, entry \in Kinds, after \in {"push", "end"} :
          Written(w, record, entry, after)
  BY WaysToSave
<1>3. PICK a \in Actions : a = call[w].action
  BY <1>1, <1>2, SaveMoves DEF Written
<1>4. store'[a] = record /\ \A b \in Actions \ {a} : store'[b] = store[b]
  BY <1>1, <1>2, <1>3, SaveMoves DEF Written
<1>5. /\ crossed \subseteq crossed' /\ hasty \subseteq hasty'
      /\ record.state = "ACTIVE" /\ ~call[w].calm => a \in hasty'
  BY <1>2, <1>3 DEF Written, Save
<1>6. CASE record.state # "ACTIVE"
  BY <1>1, <1>2, <1>5, <1>6, SaveApplies, RateKept
<1>7. CASE record.state = "ACTIVE"
  <2> SUFFICES ASSUME NEW t \in Nat PROVE Cardinality(AppliedIn(t)') <= MostPerHour
    BY DEF RateInv
  <2>1. \A b \in AppliedIn(t)' : b # a => b \in AppliedIn(t)
    BY <1>4, <1>5 DEF AppliedIn, AppliedInHourTo
  <2>2. AppliedIn(t) \subseteq Actions /\ IsFiniteSet(AppliedIn(t))
    BY ActionsAreFinite, FS_Subset DEF AppliedIn, AppliedInHourTo
  <2>3. Cardinality(AppliedIn(t)) \in Nat /\ Cardinality(AppliedIn(t)) <= MostPerHour
    BY <2>2, FS_CardinalityType DEF RateInv
  <2>4. CASE a \notin AppliedIn(t)'
    <3>1. \A b \in AppliedIn(t)' : b \in AppliedIn(t)
      BY <2>1, <2>4
    <3>2. /\ Cardinality(AppliedIn(t)') \in Nat
          /\ Cardinality(AppliedIn(t)') <= Cardinality(AppliedIn(t))
      BY <2>2, <3>1, FewerAreFewer
    <3>3. QED
      BY <2>3, <3>2, MostIsMost
  <2>5. CASE a \in AppliedIn(t)'
    <3>1. a \notin hasty' /\ record.appliedAt \in (t - Hour + 1)..t
      BY <1>4, <2>5 DEF AppliedIn, AppliedInHourTo
    <3>2. /\ call[w].op \in {"apply", "approve"} /\ call[w].calm
          /\ TakesEffect(w, record)
      <4>1. call[w].calm
        BY <1>5, <1>7, <3>1
      <4>2. call[w].record \in Records
        BY DEF TypeInv, TypeOK, InCall
      <4>3. ~Refuses(w, record) /\ ~Lifts(w, record)
        BY <1>7, <4>2 DEF Refuses, Lifts, Records
      <4>4. QED
        BY <1>2, <1>7, <4>1, <4>3 DEF Written, Way, Proposes, Approves
    <3>3. Cardinality(AppliedIn(t)) < MostPerHour
      BY <1>1, <3>1, <3>2, OneMoreFits DEF TakesEffect
    <3>4. AppliedIn(t)' \subseteq AppliedIn(t) \union {a}
      BY <2>1
    <3>5. /\ IsFiniteSet(AppliedIn(t) \union {a})
          /\ Cardinality(AppliedIn(t) \union {a}) \in Nat
          /\ Cardinality(AppliedIn(t) \union {a}) <= Cardinality(AppliedIn(t)) + 1
      <4>1. /\ IsFiniteSet(AppliedIn(t) \union {a})
            /\ \/ Cardinality(AppliedIn(t) \union {a}) = Cardinality(AppliedIn(t))
               \/ Cardinality(AppliedIn(t) \union {a}) = Cardinality(AppliedIn(t)) + 1
        BY <2>2, FS_AddElement
      <4>2. QED
        BY <2>3, <4>1
    <3>6. /\ Cardinality(AppliedIn(t)') \in Nat
          /\ Cardinality(AppliedIn(t)') <= Cardinality(AppliedIn(t) \union {a})
      BY <3>4, <3>5, FS_Subset, FS_CardinalityType
    <3>7. QED
      BY <2>3, <3>3, <3>5, <3>6, MostIsMost
  <2>6. QED
    BY <2>4, <2>5
<1>8. QED
  BY <1>6, <1>7

LEMMA RateInitially == Init => RateInv
<1> SUFFICES ASSUME Init, NEW t \in Nat PROVE Cardinality(AppliedIn(t)) <= MostPerHour
  BY DEF RateInv
<1>1. \A a \in Actions : store[a].appliedAt = None
  BY DEF Init, Unknown
<1>2. AppliedIn(t) = {}
  <2>1. \A a \in Actions : store[a].appliedAt \notin (t - Hour + 1)..t
    <3> SUFFICES ASSUME None \in (t - Hour + 1)..t PROVE FALSE
      BY <1>1
    <3>1. Hour \in Nat /\ None \in Int
      BY BoundsAreNumbers
    <3>2. QED
      BY <3>1, NoneIsNoTime
  <2>2. QED
    BY <2>1 DEF AppliedIn, AppliedInHourTo
<1>3. QED
  BY <1>2, MostIsMost, FS_EmptySet

LEMMA RateNext == TypeInv /\ ApplyInv /\ CalmInv /\ RateInv /\ [Next]_vars => RateInv'
<1> SUFFICES ASSUME TypeInv, ApplyInv, CalmInv, RateInv, [Next]_vars PROVE RateInv'
  OBVIOUS
<1>1. ASSUME UNCHANGED <<store, hasty>>, crossed \subseteq crossed' PROVE RateInv'
  BY <1>1, RateKept DEF NoneApplied
<1>2. ASSUME NEW w \in Writers, Quiet(w) PROVE RateInv'
  BY <1>1, <1>2, QuietSteps DEF QuietTo
<1>3. ASSUME NEW w \in Writers, TellPlane(w) PROVE RateInv'
  BY <1>1, <1>3, TellMoves
<1>4. ASSUME NEW w \in Writers, Ends(w) PROVE RateInv'
  BY <1>1, <1>4, EndMoves
<1>5. ASSUME NEW m \in wire, PlaneStep(m) PROVE RateInv'
  BY <1>1, <1>5, PlaneMoves DEF PlaneSays
<1>6. CASE Next
  BY <1>1, <1>2, <1>3, <1>4, <1>5, <1>6, NextIsStep, RateSave
     DEF Step, PlaneDoesLate, SetPolicy, Tick, StopServer
<1>7. CASE UNCHANGED vars
  BY <1>1, <1>7 DEF vars
<1>8. QED
  BY <1>6, <1>7

RailsInv == TypeInv /\ ApplyInv /\ ClockInv /\ CalmInv /\ RateInv

LEMMA RailsInitially == Init => RailsInv
  BY TypesInitially, ApplyInitially, ClockInitially, CalmInitially, RateInitially DEF RailsInv

LEMMA RailsNext == RailsInv /\ [Next]_vars => RailsInv'
  BY TypesNext, ApplyNext, ClockNext, CalmNext, RateNext DEF RailsInv

(***************************************************************************)
(* maxActionsPerHour is a limit on any rolling hour: railsView and the     *)
(* decision let no more be applied than the laxest policy allows, but for  *)
(* what was decided while something else was being applied and what two    *)
(* callers crossed on.                                                     *)
(***************************************************************************)
THEOREM RateLimitIsKept == Spec => []RateLimitHolds
<1>1. RailsInv => RateLimitHolds
  <2> SUFFICES ASSUME RailsInv, NEW t \in 0..now
               PROVE  Cardinality(AppliedIn(t)) <= MostPerHour
    BY DEF RateLimitHolds, AppliedIn
  <2>1. t \in Nat
    BY BoundsAreNumbers DEF RailsInv, TypeInv, TypeOK
  <2>2. QED
    BY <2>1 DEF RailsInv, RateInv
<1>2. QED
  BY <1>1, RailsInitially, RailsNext, PTL DEF Spec

\* A step that takes a call from its decision to the chain with an active row is a save.
LEMMA OnlySavesDecide ==
    ASSUME TypeInv, [Next]_vars, NEW w \in Writers, InPc(w, "save"), call'[w].pc = "chain",
           call'[w].record.state = "ACTIVE"
    PROVE  SaveStep(w)
<1>1. call[w].pc = "save"
  BY DEF InPc
<1>2. ASSUME NEW v \in Writers, Quiet(v) PROVE FALSE
  <2>1. PICK c \in InCall : QuietTo(v, c)
    BY <1>2, QuietSteps
  <2>2. /\ call'[v] = c /\ \A u \in Writers \ {v} : call'[u] = call[u]
        /\ QuietWay(v, c) /\ call[v] \in InCall
    BY <2>1, CallMoves DEF QuietTo, TypeInv, TypeOK
  <2>3. v = w
    BY <1>1, <2>2
  <2>4. Blank(c) \/ c = call[w]
    BY <2>2, <2>3 DEF QuietWay, Rests, AsksApply, AsksApprove, AsksLift, ReadsPolicy, ReadsView,
       InCall
  <2>5. QED
    BY <1>1, <2>2, <2>3, <2>4 DEF Blank, Unknown
<1>3. ASSUME NEW v \in Writers, v # w, SaveStep(v) PROVE FALSE
  <2>1. InPc(v, "save")
    BY <1>3, WaysToSave
  <2>2. PICK record \in Records, entry \in Kinds, after \in {"push", "end"} :
            Written(v, record, entry, after)
    BY <1>3, WaysToSave
  <2>3. Stays(w)
    BY <1>3, <2>1, <2>2, SaveLeaves DEF Written
  <2>4. QED
    BY <1>1, <2>3 DEF Stays
<1>4. ASSUME NEW v \in Writers, TellPlane(v) PROVE FALSE
  BY <1>1, <1>4, TellMoves
<1>5. ASSUME NEW v \in Writers, Ends(v) PROVE FALSE
  <2>1. PICK c \in InCall : InOrder(v, c) /\ Go(v, c) /\ c.pc \in {"idle", "next"}
    BY <1>5, EndMoves
  <2>2. call'[v] = c /\ \A u \in Writers \ {v} : call'[u] = call[u]
    BY <2>1, CallMoves
  <2>3. QED
    BY <1>1, <2>1, <2>2
<1>6. ASSUME NEW m \in wire, PlaneStep(m) PROVE FALSE
  <2>1. PICK entry : PlaneSays(m, entry)
    BY <1>6, PlaneMoves
  <2>2. QED
    BY <1>1, <2>1 DEF PlaneSays, InPc
<1>7. ASSUME NEW v \in Writers, NEW p \in Policies, SetPolicy(v, p) PROVE FALSE
  <2>1. InPc(v, "idle") /\ \A u \in Writers \ {v} : Stays(u)
    BY <1>7, PolicyMoves
  <2>2. QED
    BY <1>1, <2>1 DEF Stays, InPc
<1>8. ASSUME StopServer PROVE FALSE
  BY <1>8 DEF StopServer, Resting
<1>9. ASSUME UNCHANGED call PROVE FALSE
  BY <1>1, <1>9
<1>10. CASE Next
  BY <1>2, <1>3, <1>4, <1>5, <1>6, <1>7, <1>8, <1>9, <1>10, NextIsStep
     DEF Step, PlaneDoesLate, Tick
<1>11. CASE UNCHANGED vars
  BY <1>9, <1>11 DEF vars
<1>12. QED
  BY <1>10, <1>11

(***************************************************************************)
(* "Never grandfathered past": what a calm apply or approve puts in force  *)
(* is off the safe list and within the cap of the policy stored then.      *)
(***************************************************************************)
THEOREM SafeListIsKept == Spec => SafeListHolds
<1>1. ASSUME RailsInv, [Next]_vars, NEW w \in Writers, InPc(w, "save"),
             call'[w].pc = "chain", call[w].calm, call'[w].record.state = "ACTIVE"
      PROVE  /\ ~OnSafeList(call[w].record.proposal, policy)
             /\ Cardinality(call[w].record.proposal.targets) <= AtLeastOne(policy.maxTargets)
  <2>1. TypeInv /\ CalmInv
    BY <1>1 DEF RailsInv
  <2>2. SaveStep(w)
    BY <1>1, <2>1, OnlySavesDecide
  <2>3. PICK record \in Records, entry \in Kinds, after \in {"push", "end"} :
            Written(w, record, entry, after)
    BY <2>1, <2>2, WaysToSave
  <2>4. record.state = "ACTIVE"
    BY <1>1, <2>1, <2>3, SaveLeaves DEF Written
  <2>5. call[w].record \in Records
    BY <2>1 DEF TypeInv, TypeOK, InCall
  <2>6. ~Refuses(w, record) /\ ~Lifts(w, record)
    BY <2>4, <2>5 DEF Refuses, Lifts, Records
  <2>7. TakesEffect(w, record) /\ call[w].op \in {"apply", "approve"}
    BY <2>3, <2>4, <2>6 DEF Written, Way, Proposes, Approves
  <2>8. call[w].policy = policy
    BY <1>1, <2>1, <2>7 DEF CalmInv, CalmOf, Judging, Deciding, InPc
  <2>9. QED
    BY <2>7, <2>8 DEF TakesEffect
<1> DEFINE Rails ==
        \A w \in Writers :
            /\ InPc(w, "save") /\ call'[w].pc = "chain" /\ call[w].calm
            /\ call'[w].record.state = "ACTIVE"
            => /\ ~OnSafeList(call[w].record.proposal, policy)
               /\ Cardinality(call[w].record.proposal.targets) <= AtLeastOne(policy.maxTargets)
<1>2. RailsInv /\ [Next]_vars => [Rails]_vars
  BY <1>1
<1>3. QED
  BY <1>2, RailsInitially, RailsNext, PTL DEF Spec, SafeListHolds
=============================================================================
