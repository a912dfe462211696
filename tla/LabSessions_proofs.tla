------------------------- MODULE LabSessions_proofs -------------------------
(***************************************************************************)
(* What the session manager keeps, however many students, scenarios, calls *)
(* and rows there are, however its calls overlap and whatever crashes: the *)
(* types, the lock it takes from SessionLock, at most one builder of a     *)
(* session in the server process, one result a session, exclusive          *)
(* machines, a machine for a ready session, and ends that are final, each  *)
(* but for what was done on an overtaken reading (crossed, doubtful).  And *)
(* while one process sweeps: pools within their bounds.                    *)
(***************************************************************************)
EXTENDS LabSessions, TLAPS, WellFoundedInduction, FiniteSetTheorems

\* The lock of the web process, with what is proved of it.
LockProofs == INSTANCE SessionLock_proofs WITH
                  Callers <- WebCalls, Keys <- Sids, MaxLinks <- MaxCalls,
                  chain <- lockChain, gates <- lockGates, at <- lockAt,
                  key <- lockKey, place <- lockPlace

-----------------------------------------------------------------------------
(***************************************************************************)
(* The lowest of some numbers, and the highest, which CHOOSE picks a       *)
(* machine, an index and a row by.                                         *)
(***************************************************************************)
LEMMA LowestExists ==
    ASSUME NEW S, S \subseteq Nat, S # {}
    PROVE  \E x \in S : \A y \in S : x <= y
<1> DEFINE less == OpToRel(<, Nat)
<1>1. IsWellFoundedOn(less, Nat)
  BY NatLessThanWellFounded
<1>2. \A x, y \in Nat : y < x => <<y, x>> \in less
  BY Zenon DEF OpToRel
<1> HIDE DEF less
<1>3. PICK x \in S : \A y \in S : ~ (<<y, x>> \in less)
  BY <1>1, WFMin
<1>4. ASSUME NEW y \in S
      PROVE  x <= y
  <2>1. x \in Nat /\ y \in Nat
    OBVIOUS
  <2>2. ~(y < x)
    BY <1>2, <1>3, <2>1, Zenon
  <2>3. QED
    BY <2>1, <2>2
<1>5. QED
  BY <1>4

LEMMA HighestExists ==
    ASSUME NEW n \in Nat, NEW S, S \subseteq 0..n, S # {}
    PROVE  \E x \in S : \A y \in S : y <= x
<1> DEFINE below == {i \in 0..n : n - i \in S}
<1>1. below \subseteq Nat /\ below # {}
  <2>1. PICK y \in S : TRUE
    OBVIOUS
  <2>2. n - y \in 0..n /\ n - (n - y) = y
    OBVIOUS
  <2>3. n - y \in below
    BY <2>2
  <2>4. below # {}
    BY <2>3
  <2>5. QED
    BY <2>4
<1> HIDE DEF below
<1>2. PICK i \in below : \A j \in below : i <= j
  BY <1>1, LowestExists
<1>3. i \in 0..n /\ n - i \in S
  BY DEF below
<1>4. ASSUME NEW y \in S
      PROVE  y <= n - i
  <2>1. n - y \in below
    BY DEF below
  <2>2. i <= n - y
    BY <1>2, <2>1
  <2>3. QED
    BY <1>3, <2>2
<1>5. QED
  BY <1>3, <1>4

\* The machine a claim takes is one of those it may take.
LEMMA LowestIsOne ==
    ASSUME NEW sc \in Scenarios, NEW names, names \subseteq PoolNames(sc), names # {}
    PROVE  Lowest(names) \in names
<1> DEFINE numbers == {m.n : m \in names}
<1>1. \A m \in names : m.n \in Nat
  BY DEF PoolNames, PoolName
<1>2. numbers \subseteq Nat /\ numbers # {}
  BY <1>1
<1>3. PICK i \in numbers : \A j \in numbers : i <= j
  BY <1>2, LowestExists
<1>4. \E m \in names : \A o \in names : m.n <= o.n
  BY <1>3
<1>5. QED
  BY <1>4 DEF Lowest

\* A pool's next index is a number from 1 on.
LEMMA NextIndexIsNat ==
    ASSUME NEW sc \in Scenarios
    PROVE  NextPoolIndex(sc) \in Nat \ {0}
<1>1. CASE PoolInstances(sc) = {}
  BY <1>1 DEF NextPoolIndex
<1>2. CASE PoolInstances(sc) # {}
  <2> DEFINE numbers == {m.n : m \in PoolInstances(sc)}
  <2>1. \A m \in PoolInstances(sc) : m.n \in 0..MaxIndex
    BY BoundsAreNat DEF PoolInstances, PoolNames, PoolName
  <2>2. numbers \subseteq 0..MaxIndex /\ numbers # {}
    BY <1>2, <2>1
  <2>3. \E i \in numbers : \A j \in numbers : j <= i
    BY <2>2, BoundsAreNat, HighestExists
  <2>4. \E i \in {m.n : m \in PoolInstances(sc)} : \A m \in PoolInstances(sc) : m.n <= i
    BY <2>3
  <2> DEFINE top == CHOOSE i \in {m.n : m \in PoolInstances(sc)} :
                        \A m \in PoolInstances(sc) : m.n <= i
  <2>5. top \in numbers
    BY <2>4
  <2>6. NextPoolIndex(sc) = 1 + top
    BY <1>2 DEF NextPoolIndex
  <2> HIDE DEF top, numbers
  <2>7. top \in 0..MaxIndex
    BY <2>2, <2>5
  <2>8. QED
    BY <2>6, <2>7, BoundsAreNat
<1>3. QED
  BY <1>1, <1>2

\* A pool's machines can be counted, and so can those of all pools together.
LEMMA PoolIsFinite ==
    ASSUME NEW sc \in Scenarios
    PROVE  IsFiniteSet(PoolInstances(sc)) /\ Cardinality(PoolInstances(sc)) \in Nat
<1> DEFINE f == [i \in 1..MaxIndex |-> PoolName(sc, i)]
<1>1. f \in Surjection(1..MaxIndex, PoolNames(sc))
  BY DEF Surjection, PoolNames
<1>2. IsFiniteSet(1..MaxIndex)
  <2>1. 1 \in Int /\ MaxIndex \in Int
    BY BoundsAreNat
  <2>2. QED
    BY <2>1, FS_Interval
<1>3. IsFiniteSet(PoolNames(sc))
  BY <1>1, <1>2, FS_Surjection
<1>4. PoolInstances(sc) \subseteq PoolNames(sc)
  BY DEF PoolInstances
<1>5. QED
  BY <1>3, <1>4, FS_Subset, FS_CardinalityType

LEMMA PoolsAreFinite ==
    IsFiniteSet(UNION {PoolInstances(sc) : sc \in Scenarios}) /\ PoolTotal \in Nat
<1> DEFINE pools == {PoolInstances(sc) : sc \in Scenarios}
           f == [sc \in Scenarios |-> PoolInstances(sc)]
<1>1. f \in Surjection(Scenarios, pools)
  BY DEF Surjection
<1>2. IsFiniteSet(pools)
  BY <1>1, ScenariosAreFinite, FS_Surjection
<1>3. \A T \in pools : IsFiniteSet(T)
  BY PoolIsFinite
<1>4. IsFiniteSet(UNION pools)
  BY <1>2, <1>3, FS_UNION
<1>5. QED
  BY <1>4, FS_CardinalityType DEF PoolTotal

-----------------------------------------------------------------------------
(***************************************************************************)
(* What the table, the hypervisor and the calls in flight hold.            *)
(***************************************************************************)

\* Where a call has a session in hand, and its copy of the row.
RowPcs ==
    {"touch", "handoff", "queued", "recycle", "destroy", "destroyed", "check", "grade",
     "graded", "verdict", "record", "claimforuse", "save"} \union ProvisionPcs

\* A machine that session s may have: its own clone, or one of its scenario's pool.
OwnMachine(s, row) ==
    \/ row.instance = NoInstance
    \/ /\ row.instance.scenario = row.scenario
       /\ row.instance.kind = "session" => row.instance.n = s

\* A row that session s may have: of a scenario there is, on a machine of its own.
Fit(s, row) ==
    /\ row \in Row
    /\ row.state # "absent"
    /\ row.scenario \in Scenarios
    /\ OwnMachine(s, row)

RowsFit == rows \in [Sids -> Row] /\ \A s \in Sids : rows[s] = NoRow \/ Fit(s, rows[s])

\* What a call carries: its row, the row it is to insert, the sweep's listing,
\* the machine it is creating and the machines it is draining.
CarriesRow(c) ==
    /\ c.pc \in RowPcs => c.sid \in Sids /\ Fit(c.sid, c.row)
    /\ c.pc = "release" => c.sid \in Sids /\ (c.row = NoRow \/ Fit(c.sid, c.row))
    /\ c.pc \notin RowPcs \union {"release"} => c.sid = 0
    /\ c.pc = "insert" => \A s \in Sids : Fit(s, c.row)
CarriesListing(c) == \A s \in Sids : c.snap[s] = NoRow \/ Fit(s, c.snap[s])
CarriesPool(c) ==
    /\ c.pc \in {"prewarm", "boot"} =>
            c.pool \in Scenarios /\ c.want[c.pool] # 0 /\ c.index # 0
    /\ c.pc \in {"drain", "drainlist"} => c.pool \in Scenarios
    /\ c.pc = "draining" => \A m \in c.names : m.kind = "pool"

Fine(c) == c \in Call /\ CarriesRow(c) /\ CarriesListing(c) /\ CarriesPool(c)

CallsFine == call \in [Calls -> Call] /\ \A t \in Calls : Fine(call[t])

StateInv ==
    /\ RowsFit
    /\ vms \subseteq Names
    /\ CallsFine
    /\ results \in [Sids -> Nat]
    /\ clock \in 0..MaxClock
    /\ calls \in 0..MaxCalls
    /\ crashes \in 0..MaxCrashes

\* A web call that builds holds the lock of its session, and one that waits to
\* build is in the line for it.
Holding(c) == c.op = "start" /\ c.pc \in ProvisionPcs \union {"release"}

LockHeld ==
    \A t \in WebCalls :
        /\ Holding(call[t]) => lockAt[t] = "working" /\ lockKey[t] = call[t].sid
        /\ call[t].pc = "queued" => lockAt[t] = "waiting" /\ lockKey[t] = call[t].sid

-----------------------------------------------------------------------------
(***************************************************************************)
(* The pieces the actions are made of.                                     *)
(***************************************************************************)
LEMMA Bounds ==
    /\ MaxRows \in Nat /\ MaxClock \in Nat /\ MaxCalls \in Nat /\ MaxIndex \in Nat
    /\ PoolTarget \in Nat /\ PoolCeiling \in Nat /\ MaxCrashes \in Nat
  BY BoundsAreNat

LEMMA NamesAreNames ==
    /\ \A sc \in Scenarios, s \in Sids :
        SessionName(sc, s) \in Names /\ SessionName(sc, s) # NoInstance
    /\ \A sc \in Scenarios, i \in 1..MaxIndex :
        PoolName(sc, i) \in Names /\ PoolName(sc, i) # NoInstance
    /\ NoInstance \notin Names
<1> DEFINE clones == {SessionName(sc, s) : sc \in Scenarios, s \in Sids}
           pools  == UNION {PoolNames(sc) : sc \in Scenarios}
<1>1. Names = pools \union clones
  BY DEF Names
<1>2. \A sc \in Scenarios, s \in Sids : SessionName(sc, s) \in clones
  OBVIOUS
<1>3. \A sc \in Scenarios, i \in 1..MaxIndex : PoolName(sc, i) \in pools
  <2>1. \A sc \in Scenarios, i \in 1..MaxIndex : PoolName(sc, i) \in PoolNames(sc)
    BY DEF PoolNames
  <2>2. QED
    BY <2>1
<1>4. \A m \in pools : m.kind = "pool"
  <2>1. \A sc \in Scenarios : \A m \in PoolNames(sc) : m.kind = "pool"
    BY DEF PoolNames, PoolName
  <2>2. QED
    BY <2>1
<1>5. \A m \in clones : m.kind = "session"
  BY DEF SessionName
<1> HIDE DEF clones, pools
<1>6. NoInstance.kind = "none"
  BY DEF NoInstance
<1>7. QED
  BY <1>1, <1>2, <1>3, <1>4, <1>5, <1>6

LEMMA NoRowFits == NoRow \in Row
  BY Bounds DEF Row, NoRow

LEMMA NoCallFine == Fine(NoCall)
<1>1. NoCall \in Call
  <2>1. /\ [s \in Sids |-> NoRow] \in [Sids -> Row]
        /\ [sc \in Scenarios |-> 0] \in [Scenarios -> Nat]
        /\ 0 \in 0..MaxRows /\ 0 \in 0..MaxClock /\ 0 \in Nat
    BY Bounds, NoRowFits
  <2>2. "idle" \in Pcs /\ "none" \in OpNames \union {"none"}
    BY DEF Pcs
  <2>3. {} \in SUBSET Names /\ Nobody \in Scenarios \union {Nobody}
    OBVIOUS
  <2>4. QED
    BY <2>1, <2>2, <2>3, NoRowFits DEF NoCall, Call
<1>2. QED
  BY <1>1 DEF Fine, CarriesRow, CarriesListing, CarriesPool, NoCall, RowPcs, ProvisionPcs

\* One call moves on and the others stay where they are.
LEMMA OneMoves ==
    ASSUME NEW t \in Calls, CallsFine, NEW c, Fine(c), call' = [call EXCEPT ![t] = c]
    PROVE  CallsFine'
<1>1. c \in Call
  BY DEF Fine
<1>2. call' \in [Calls -> Call]
  BY <1>1 DEF CallsFine
<1>3. \A d \in Calls : call'[d] = call[d] \/ call'[d] = c
  BY DEF CallsFine
<1>4. QED
  BY <1>2, <1>3 DEF CallsFine

LEMMA ReturnFine ==
    ASSUME NEW t \in Calls, CallsFine, Return(t)
    PROVE  CallsFine'
  BY NoCallFine, OneMoves DEF Return

\* A call goes on with a row of its session in hand.
LEMMA BecomeFine ==
    ASSUME NEW t \in Calls, CallsFine, NEW pc \in RowPcs, NEW row,
           call[t].sid \in Sids, Fit(call[t].sid, row), Become(t, pc, row)
    PROVE  CallsFine'
<1> DEFINE c == [call[t] EXCEPT !.pc = pc, !.row = row]
<1>1. call[t] \in Call /\ Fine(call[t])
  BY DEF CallsFine
<1>2. pc \in Pcs /\ row \in Row
  BY DEF RowPcs, ProvisionPcs, Pcs, Fit
<1>3. /\ c \in Call /\ c.pc = pc /\ c.row = row /\ c.sid = call[t].sid
      /\ c.snap = call[t].snap
  BY <1>1, <1>2 DEF Call
<1>4. call' = [call EXCEPT ![t] = c]
  BY DEF Become
<1> HIDE DEF c
<1>5. CarriesRow(c) /\ CarriesListing(c)
  BY <1>1, <1>3 DEF CarriesRow, CarriesListing, Fine, RowPcs, ProvisionPcs
<1>6. CarriesPool(c)
  BY <1>3 DEF CarriesPool, RowPcs, ProvisionPcs
<1>7. QED
  BY <1>3, <1>4, <1>5, <1>6, OneMoves DEF Fine

LEMMA GoFine ==
    ASSUME NEW t \in Calls, CallsFine, NEW pc \in RowPcs, call[t].pc \in RowPcs, Go(t, pc)
    PROVE  CallsFine'
<1>1. call[t] \in Call /\ call[t].sid \in Sids /\ Fit(call[t].sid, call[t].row)
  BY DEF CallsFine, Fine, CarriesRow
<1>2. Become(t, pc, call[t].row)
  <2>1. [call[t] EXCEPT !.pc = pc] = [call[t] EXCEPT !.pc = pc, !.row = call[t].row]
    BY <1>1 DEF Call
  <2>2. QED
    BY <2>1 DEF Go, Become
<1>3. QED
  BY <1>1, <1>2, BecomeFine

\* saveSession.
LEMMA SaveFits ==
    ASSUME NEW t \in Calls, RowsFit, NEW row, call[t].sid \in Sids,
           Fit(call[t].sid, row), Save(t, row)
    PROVE  RowsFit'
<1>1. row \in Row
  BY DEF Fit
<1>2. QED
  BY <1>1 DEF RowsFit, Save

\* A call that works on a row has one that fits its session.
LEMMA InHand ==
    ASSUME NEW t \in Calls, CallsFine, call[t].pc \in RowPcs
    PROVE  /\ call[t] \in Call
           /\ call[t].sid \in Sids
           /\ Fit(call[t].sid, call[t].row)
  BY DEF CallsFine, Fine, CarriesRow

\* A row that is there, and that a call reads, fits.
LEMMA RowFits ==
    ASSUME NEW s \in Sids, RowsFit, rows[s].state # "absent"
    PROVE  Fit(s, rows[s])
  BY DEF RowsFit, NoRow

-----------------------------------------------------------------------------
(***************************************************************************)
(* Each step of a call leaves the table, the hypervisor and the calls in   *)
(* flight fine.                                                            *)
(***************************************************************************)

\* A call that begins with a row of its session in hand.
LEMMA OnFine ==
    ASSUME NEW op \in OpNames, NEW pc \in RowPcs, NEW s \in Sids, NEW row, Fit(s, row)
    PROVE  Fine(On(op, pc, s, row))
<1> DEFINE c == On(op, pc, s, row)
<1>1. NoCall \in Call /\ pc \in Pcs /\ row \in Row /\ s \in 0..MaxRows
  BY NoCallFine, Bounds DEF Fine, RowPcs, ProvisionPcs, Pcs, Fit, Sids
<1>2. /\ c \in Call /\ c.pc = pc /\ c.row = row /\ c.sid = s /\ c.snap = NoCall.snap
  BY <1>1 DEF On, Call
<1> HIDE DEF c
<1>3. \A i \in Sids : c.snap[i] = NoRow
  BY <1>2 DEF NoCall
<1>4. CarriesRow(c) /\ CarriesListing(c)
  BY <1>2, <1>3 DEF CarriesRow, CarriesListing, RowPcs, ProvisionPcs
<1>5. CarriesPool(c)
  BY <1>2 DEF CarriesPool, RowPcs, ProvisionPcs
<1>6. QED
  BY <1>2, <1>4, <1>5 DEF Fine, c

LEMMA BeginFine ==
    ASSUME NEW t \in Calls, StateInv, NEW c, Fine(c), Begin(t, c)
    PROVE  CallsFine' /\ calls' \in 0..MaxCalls /\ UNCHANGED <<clock, crashes>>
<1>1. CallsFine'
  BY OneMoves DEF StateInv, Begin
<1>2. calls' \in 0..MaxCalls
  BY Bounds DEF StateInv, Begin
<1>3. QED
  BY <1>1, <1>2 DEF Begin

\* What fits a session still does in another state, with another deadline, and
\* with no machine.
LEMMA FitStays ==
    ASSUME NEW s \in Sids, NEW row, Fit(s, row)
    PROVE  /\ \A st \in SessionStates : Fit(s, [row EXCEPT !.state = st])
           /\ \A e \in 0..MaxClock : Fit(s, [row EXCEPT !.expires = e])
           /\ Fit(s, [row EXCEPT !.instance = NoInstance])
           /\ \A st \in SessionStates, b \in BOOLEAN :
                Fit(s, [row EXCEPT !.resolved = b, !.state = st])
           /\ \A st \in SessionStates, b \in BOOLEAN :
                Fit(s, [row EXCEPT !.state = st, !.resolved = b, !.completed = TRUE])
           /\ \A st \in SessionStates :
                Fit(s, [row EXCEPT !.state = st, !.instance = NoInstance])
<1> USE DEF Fit, OwnMachine
<1>1. row \in Row /\ "absent" \notin SessionStates
  BY DEF SessionStates
<1>2. \A st \in SessionStates : Fit(s, [row EXCEPT !.state = st])
  BY <1>1 DEF Row
<1>3. \A e \in 0..MaxClock : Fit(s, [row EXCEPT !.expires = e])
  BY <1>1 DEF Row
<1>4. Fit(s, [row EXCEPT !.instance = NoInstance])
  BY <1>1 DEF Row
<1>5. \A st \in SessionStates, b \in BOOLEAN :
        Fit(s, [row EXCEPT !.resolved = b, !.state = st])
  BY <1>1 DEF Row
<1>6. \A st \in SessionStates, b \in BOOLEAN :
        Fit(s, [row EXCEPT !.state = st, !.resolved = b, !.completed = TRUE])
  BY <1>1 DEF Row
<1>7. \A st \in SessionStates :
        Fit(s, [row EXCEPT !.state = st, !.instance = NoInstance])
  BY <1>1 DEF Row
<1>8. QED
  BY <1>2, <1>3, <1>4, <1>5, <1>6, <1>7

\* The rows that a call reads when it begins are there, and fit what it makes of them.
LEMMA StartReadFine ==
    ASSUME StateInv, NEW t \in Calls, NEW u \in Students, NEW sc \in Scenarios,
           StartRead(t, u, sc)
    PROVE  StateInv'
<1>1. UNCHANGED <<rows, vms, results>>
  BY DEF StartRead
<1>2. CallsFine' /\ calls' \in 0..MaxCalls /\ UNCHANGED <<clock, crashes>>
  <2>1. ASSUME NEW s \in LiveSessionsFor(u), Begin(t, On("start", "touch", s, rows[s]))
        PROVE  CallsFine' /\ calls' \in 0..MaxCalls /\ UNCHANGED <<clock, crashes>>
    <3>1. s \in Sids /\ Fit(s, rows[s])
      BY RowFits DEF LiveSessionsFor, LiveStates, StateInv
    <3>2. Fine(On("start", "touch", s, rows[s]))
      BY <3>1, OnFine DEF OpNames, RowPcs
    <3>3. QED
      BY <2>1, <3>2, BeginFine
  <2> DEFINE row == [NoRow EXCEPT !.state = "requested", !.student = u, !.scenario = sc]
             c == On("start", "insert", 0, row)
  <2>2. ASSUME Begin(t, c)
        PROVE  CallsFine' /\ calls' \in 0..MaxCalls /\ UNCHANGED <<clock, crashes>>
    <3>1. row \in Row /\ row.state = "requested" /\ row.scenario = sc
          /\ row.instance = NoInstance
      BY NoRowFits DEF Row, NoRow, SessionStates
    <3> HIDE DEF row
    <3>2. \A s \in Sids : Fit(s, row)
      BY <3>1 DEF Fit, OwnMachine
    <3>3. NoCall \in Call /\ "insert" \in Pcs /\ "start" \in OpNames /\ 0 \in 0..MaxRows
      BY NoCallFine, Bounds DEF Fine, Pcs, OpNames
    <3>4. /\ c \in Call /\ c.pc = "insert" /\ c.row = row /\ c.sid = 0
          /\ c.snap = NoCall.snap
      BY <3>1, <3>3 DEF On, Call
    <3> HIDE DEF c
    <3>5. \A i \in Sids : c.snap[i] = NoRow
      BY <3>4 DEF NoCall
    <3>6. Fine(c)
      BY <3>2, <3>4, <3>5
         DEF Fine, CarriesRow, CarriesListing, CarriesPool, RowPcs, ProvisionPcs
    <3>7. QED
      BY <2>2, <3>6, BeginFine
  <2>3. QED
    BY <2>1, <2>2 DEF StartRead
<1>3. QED
  BY <1>1, <1>2 DEF StateInv, RowsFit

LEMMA BeginsOnRow ==
    ASSUME StateInv, NEW t \in Calls, NEW op \in OpNames, NEW pc \in RowPcs, NEW s \in Sids,
           NEW row, Fit(s, row), Begin(t, On(op, pc, s, row)),
           UNCHANGED <<rows, vms, results>>
    PROVE  StateInv'
<1>1. CallsFine' /\ calls' \in 0..MaxCalls /\ UNCHANGED <<clock, crashes>>
  BY OnFine, BeginFine
<1>2. QED
  BY <1>1 DEF StateInv, RowsFit

LEMMA OpenReadFine ==
    ASSUME StateInv, NEW t \in Calls, NEW s \in Sids, OpenRead(t, s)
    PROVE  StateInv'
<1> DEFINE row == [rows[s] EXCEPT !.state = IF @ = "ready" THEN "in_use" ELSE @]
           pc  == IF rows[s].state = "ready" THEN "claimforuse" ELSE "save"
<1>1. Fit(s, rows[s]) /\ rows[s].state \in SessionStates
  BY RowFits DEF OpenRead, UsableStates, SessionStates, StateInv
<1>2. Fit(s, row)
  BY <1>1, FitStays DEF SessionStates
<1>3. Begin(t, On("open", pc, s, row)) /\ UNCHANGED <<rows, vms, results>>
  BY DEF OpenRead
<1>4. pc \in RowPcs /\ "open" \in OpNames
  BY DEF RowPcs, OpNames
<1> HIDE DEF row, pc
<1>5. QED
  BY <1>2, <1>3, <1>4, BeginsOnRow

LEMMA EditReadFine ==
    ASSUME StateInv, NEW t \in Calls, NEW s \in Sids, EditRead(t, s)
    PROVE  StateInv'
<1>1. PICK deadline \in Deadlines(rows[s]) :
        Begin(t, On("edit", "save", s, [rows[s] EXCEPT !.expires = deadline]))
  BY DEF EditRead
<1>2. Fit(s, rows[s])
  BY RowFits DEF EditRead, StateInv
<1>3. deadline \in 0..MaxClock
  <2>1. rows[s].expires \in 0..MaxClock /\ clock \in 0..MaxClock
    BY <1>2 DEF Fit, Row, StateInv
  <2>2. \A n \in 0..MaxClock : Later(n) \in 0..MaxClock
    BY Bounds DEF Later
  <2>3. QED
    BY <2>1, <2>2 DEF Deadlines
<1>4. Fit(s, [rows[s] EXCEPT !.expires = deadline])
  BY <1>2, <1>3, FitStays
<1>5. UNCHANGED <<rows, vms, results>> /\ "save" \in RowPcs /\ "edit" \in OpNames
  BY DEF EditRead, RowPcs, OpNames
<1>6. QED
  BY <1>1, <1>4, <1>5, BeginsOnRow

LEMMA CheckReadFine ==
    ASSUME StateInv, NEW t \in Calls, NEW s \in Sids, CheckRead(t, s)
    PROVE  StateInv'
<1>1. Fit(s, rows[s])
  BY RowFits DEF CheckRead, StateInv
<1>2. Fit(s, [rows[s] EXCEPT !.state = "checking"])
  BY <1>1, FitStays DEF SessionStates
<1>3. QED
  BY <1>2, BeginsOnRow DEF CheckRead, RowPcs, OpNames

LEMMA CompleteReadFine ==
    ASSUME StateInv, NEW t \in Calls, NEW s \in Sids, CompleteRead(t, s)
    PROVE  StateInv'
<1>1. Fit(s, rows[s])
  BY RowFits DEF CompleteRead, StateInv
<1>2. CASE rows[s].instance # NoInstance
  <2>1. Fit(s, [rows[s] EXCEPT !.state = "checking"])
    BY <1>1, FitStays DEF SessionStates
  <2>2. QED
    BY <1>2, <2>1, BeginsOnRow DEF CompleteRead, RowPcs, OpNames
<1>3. CASE rows[s].instance = NoInstance
  <2> DEFINE on == On("complete", "verdict", s, rows[s])
             c  == [on EXCEPT !.report = "error"]
  <2>1. Fine(on)
    BY <1>1, OnFine DEF RowPcs, OpNames
  <2> HIDE DEF on
  <2>2. /\ c \in Call /\ c.pc = on.pc /\ c.row = on.row /\ c.sid = on.sid
        /\ c.snap = on.snap /\ c.pool = on.pool /\ c.want = on.want
        /\ c.index = on.index /\ c.names = on.names
    BY <2>1 DEF Fine, Call
  <2> HIDE DEF c
  <2>3. Fine(c)
    BY <2>1, <2>2 DEF Fine, CarriesRow, CarriesListing, CarriesPool
  <2>4. Begin(t, c) /\ UNCHANGED <<rows, vms, results>>
    BY <1>3 DEF CompleteRead, c, on
  <2>5. CallsFine' /\ calls' \in 0..MaxCalls /\ UNCHANGED <<clock, crashes>>
    BY <2>3, <2>4, BeginFine
  <2>6. QED
    BY <2>4, <2>5 DEF StateInv, RowsFit
<1>4. QED
  BY <1>2, <1>3

LEMMA EndReadFine ==
    ASSUME StateInv, NEW t \in Calls, NEW s \in Sids, EndRead(t, s) \/ ResetRead(t, s)
    PROVE  StateInv'
<1>1. Fit(s, rows[s])
  BY RowFits DEF EndRead, ResetRead, StateInv
<1>2. Fit(s, [rows[s] EXCEPT !.state = "recycling"])
  BY <1>1, FitStays DEF SessionStates
<1>3. QED
  BY <1>2, BeginsOnRow DEF EndRead, ResetRead, RowPcs, OpNames

LEMMA DrainCallFine ==
    ASSUME StateInv, NEW t \in Calls, NEW sc \in Scenarios, DrainCall(t, sc)
    PROVE  StateInv'
<1> DEFINE c == [NoCall EXCEPT !.op = "drain", !.pc = "drain", !.pool = sc]
<1>1. Fine(NoCall) /\ NoCall \in Call /\ NoCall.sid = 0
      /\ "drain" \in Pcs /\ "drain" \in OpNames
  BY NoCallFine DEF Fine, NoCall, Pcs, OpNames
<1>2. /\ c \in Call /\ c.pc = "drain" /\ c.sid = NoCall.sid /\ c.pool = sc
      /\ c.snap = NoCall.snap
  BY <1>1 DEF Call
<1>3. Begin(t, c) /\ UNCHANGED <<rows, vms, results>>
  BY DEF DrainCall
<1> HIDE DEF c
<1>4. Fine(c)
  BY <1>1, <1>2 DEF Fine, CarriesRow, CarriesListing, CarriesPool, RowPcs, ProvisionPcs
<1>5. CallsFine' /\ calls' \in 0..MaxCalls /\ UNCHANGED <<clock, crashes>>
  BY <1>3, <1>4, BeginFine
<1>6. QED
  BY <1>3, <1>5 DEF StateInv, RowsFit

LEMMA PrewarmCallFine ==
    ASSUME StateInv, NEW t \in Calls, NEW sc \in Scenarios, NEW n \in 1..MaxIndex,
           PrewarmCall(t, sc, n)
    PROVE  StateInv'
<1> DEFINE c == [NoCall EXCEPT !.op = "prewarm", !.pc = "refill", !.want[sc] = n]
<1>1. Fine(NoCall) /\ NoCall \in Call /\ NoCall.sid = 0 /\ n \in Nat
      /\ "refill" \in Pcs /\ "prewarm" \in OpNames
  BY NoCallFine, Bounds DEF Fine, NoCall, Pcs, OpNames
<1>2. [NoCall.want EXCEPT ![sc] = n] \in [Scenarios -> Nat]
  BY <1>1 DEF Call
<1>3. /\ c \in Call /\ c.pc = "refill" /\ c.sid = NoCall.sid /\ c.snap = NoCall.snap
  BY <1>1, <1>2 DEF Call
<1>4. Begin(t, c) /\ UNCHANGED <<rows, vms, results>>
  BY DEF PrewarmCall
<1> HIDE DEF c
<1>5. Fine(c)
  BY <1>1, <1>3 DEF Fine, CarriesRow, CarriesListing, CarriesPool, RowPcs, ProvisionPcs
<1>6. CallsFine' /\ calls' \in 0..MaxCalls /\ UNCHANGED <<clock, crashes>>
  BY <1>4, <1>5, BeginFine
<1>7. QED
  BY <1>4, <1>6 DEF StateInv, RowsFit

\* A call that writes its copy of the row back, or writes nothing, and goes on
\* with its session in hand or returns.
LEMMA SavesAndGoes ==
    ASSUME StateInv, NEW t \in Calls, call[t].pc \in RowPcs,
           Save(t, call[t].row) \/ UNCHANGED rows,
           Return(t) \/ \E pc \in RowPcs : Go(t, pc),
           UNCHANGED <<vms, results, env>>
    PROVE  StateInv'
<1>1. call[t].sid \in Sids /\ Fit(call[t].sid, call[t].row)
  BY InHand DEF StateInv
<1>2. RowsFit'
  <2>1. CASE Save(t, call[t].row)
    BY <1>1, <2>1, SaveFits DEF StateInv
  <2>2. CASE UNCHANGED rows
    BY <2>2 DEF StateInv, RowsFit
  <2>3. QED
    BY <2>1, <2>2
<1>3. CallsFine'
  BY ReturnFine, GoFine DEF StateInv
<1>4. QED
  BY <1>2, <1>3 DEF StateInv, env

\* A call that makes something of its row and goes on with it, whether it
\* saves it or not.
LEMMA MakesARow ==
    ASSUME StateInv, NEW t \in Calls, call[t].sid \in Sids, NEW pc \in RowPcs,
           NEW row, Fit(call[t].sid, row), Become(t, pc, row),
           Save(t, row) \/ UNCHANGED rows,
           vms' \subseteq Names, UNCHANGED <<results, env>>
    PROVE  StateInv'
<1>1. RowsFit'
  <2>1. CASE Save(t, row)
    BY <2>1, SaveFits DEF StateInv
  <2>2. CASE UNCHANGED rows
    BY <2>2 DEF StateInv, RowsFit
  <2>3. QED
    BY <2>1, <2>2
<1>2. CallsFine'
  BY BecomeFine DEF StateInv
<1>3. QED
  BY <1>1, <1>2 DEF StateInv, env

LEMMA SavingStepsFine ==
    ASSUME StateInv, NEW t \in Calls,
           \/ TouchExisting(t) \/ Enqueue(t) \/ Allocate(t) \/ KeepMachine(t)
           \/ Finish(t) \/ TouchBeforeClaim(t) \/ SaveRow(t) \/ CheckSave(t)
           \/ GradedSave(t) \/ RecycleSave(t)
    PROVE  StateInv'
<1> USE SavesAndGoes DEF At, RowPcs, ProvisionPcs
<1>1. CASE TouchExisting(t)
  BY <1>1 DEF TouchExisting
<1>2. CASE Enqueue(t)
  BY <1>2 DEF Enqueue
<1>3. CASE Allocate(t)
  BY <1>3 DEF Allocate
<1>4. CASE KeepMachine(t)
  BY <1>4 DEF KeepMachine
<1>5. CASE Finish(t)
  BY <1>5 DEF Finish
<1>6. CASE TouchBeforeClaim(t)
  BY <1>6 DEF TouchBeforeClaim
<1>7. CASE SaveRow(t)
  BY <1>7 DEF SaveRow
<1>8. CASE CheckSave(t)
  BY <1>8 DEF CheckSave
<1>9. CASE GradedSave(t)
  BY <1>9 DEF GradedSave
<1>10. CASE RecycleSave(t)
  BY <1>10 DEF RecycleSave
<1>11. QED
  BY <1>1, <1>2, <1>3, <1>4, <1>5, <1>6, <1>7, <1>8, <1>9, <1>10

\* The first row not yet in use becomes the new session's.
LEMMA InsertRowFine ==
    ASSUME StateInv, NEW t \in Calls, InsertRow(t)
    PROVE  StateInv'
<1>1. call[t] \in Call /\ CarriesListing(call[t]) /\ \A s \in Sids : Fit(s, call[t].row)
  BY DEF InsertRow, At, StateInv, CallsFine, Fine, CarriesRow
<1>2. CASE Unused = {}
  <2>1. CallsFine' /\ UNCHANGED rows
    BY <1>2, ReturnFine DEF InsertRow, StateInv
  <2>2. QED
    BY <2>1 DEF InsertRow, StateInv, RowsFit, env
<1>3. CASE Unused # {}
  <2> DEFINE s == CHOOSE i \in Unused : \A j \in Unused : i <= j
             fresh == [call[t].row EXCEPT !.created = clock, !.expires = Later(clock)]
             c == [call[t] EXCEPT !.pc = "handoff", !.sid = s, !.row = fresh]
  <2>1. s \in Unused
    <3>1. Unused \subseteq Nat
      BY DEF Unused, Sids
    <3>2. \E i \in Unused : \A j \in Unused : i <= j
      BY <1>3, <3>1, LowestExists
    <3>3. QED
      BY <3>2
  <2>2. s \in Sids /\ s \in 0..MaxRows
    BY <2>1, Bounds DEF Unused, Sids
  <2>3. rows' = [rows EXCEPT ![s] = fresh] /\ call' = [call EXCEPT ![t] = c]
    BY <1>3 DEF InsertRow
  <2> HIDE DEF s
  <2>4. clock \in 0..MaxClock /\ Later(clock) \in 0..MaxClock
    BY Bounds DEF StateInv, Later
  <2>5. Fit(s, fresh)
    BY <1>1, <2>2, <2>4 DEF Fit, OwnMachine, Row
  <2> HIDE DEF fresh
  <2>6. fresh \in Row /\ "handoff" \in Pcs
    BY <2>5 DEF Fit, Pcs
  <2>7. /\ c \in Call /\ c.pc = "handoff" /\ c.sid = s /\ c.row = fresh
        /\ c.snap = call[t].snap
    BY <1>1, <2>2, <2>6 DEF Call
  <2> HIDE DEF c
  <2>8. Fine(c)
    BY <1>1, <2>2, <2>5, <2>7
       DEF Fine, CarriesRow, CarriesListing, CarriesPool, RowPcs, ProvisionPcs
  <2>9. CallsFine'
    BY <2>3, <2>8, OneMoves DEF StateInv
  <2>10. RowsFit'
    BY <2>2, <2>3, <2>5, <2>6 DEF StateInv, RowsFit
  <2>11. QED
    BY <2>9, <2>10 DEF InsertRow, StateInv, env
<1>4. QED
  BY <1>2, <1>3

LEMMA ReleaseFine ==
    ASSUME StateInv, NEW t \in Calls, Release(t)
    PROVE  StateInv'
<1>1. CallsFine'
  BY ReturnFine DEF Release, StateInv
<1>2. QED
  BY <1>1 DEF Release, StateInv, RowsFit, env

\* Under the lock the row is read again: it is built, or left as it is.
LEMMA ProvisionFine ==
    ASSUME StateInv, NEW t \in Calls, Provision(t)
    PROVE  StateInv'
<1>1. call[t] \in Call /\ call[t].sid \in Sids /\ CarriesListing(call[t])
  BY DEF Provision, At, RowPcs, StateInv, CallsFine, Fine, CarriesRow
<1>2. Fresh(t) = NoRow \/ Fit(call[t].sid, Fresh(t))
  BY <1>1 DEF StateInv, RowsFit, Fresh
<1>3. CASE Fresh(t).state \in {"requested", "allocating"}
  <2>1. Fit(call[t].sid, Fresh(t))
    BY <1>2, <1>3 DEF NoRow
  <2>2. Fit(call[t].sid, [Fresh(t) EXCEPT !.state = "allocating"])
    BY <1>1, <2>1, FitStays DEF SessionStates
  <2>3. Become(t, "allocate", [Fresh(t) EXCEPT !.state = "allocating"])
    BY <1>3 DEF Provision
  <2>4. vms' \subseteq Names /\ UNCHANGED <<rows, results, env>>
    BY DEF Provision, StateInv
  <2>5. QED
    BY <1>1, <2>2, <2>3, <2>4, MakesARow DEF RowPcs, ProvisionPcs
<1>4. CASE Fresh(t).state \notin {"requested", "allocating"}
  <2> DEFINE row == Fresh(t)
             c == [call[t] EXCEPT !.pc = "release", !.row = row]
  <2>1. call' = [call EXCEPT ![t] = c]
    BY <1>4 DEF Provision, Become
  <2>2. row \in Row /\ (row = NoRow \/ Fit(call[t].sid, row)) /\ "release" \in Pcs
    BY <1>2, NoRowFits DEF Fit, Pcs
  <2> HIDE DEF row
  <2>3. /\ c \in Call /\ c.pc = "release" /\ c.sid = call[t].sid /\ c.row = row
        /\ c.snap = call[t].snap
    BY <1>1, <2>2 DEF Call
  <2> HIDE DEF c
  <2>4. Fine(c)
    BY <1>1, <2>2, <2>3
       DEF Fine, CarriesRow, CarriesListing, CarriesPool, RowPcs, ProvisionPcs
  <2>5. CallsFine'
    BY <2>1, <2>4, OneMoves DEF StateInv
  <2>6. QED
    BY <2>5 DEF Provision, StateInv, RowsFit, env
<1>5. QED
  BY <1>3, <1>4

\* What makes a call fine that goes on with its session in hand.
LEMMA FineInHand ==
    ASSUME NEW t \in Calls, CallsFine, NEW c, c \in Call, c.pc \in RowPcs,
           c.sid \in Sids, Fit(c.sid, c.row), c.snap = call[t].snap
    PROVE  Fine(c)
<1>1. CarriesListing(c)
  BY DEF CallsFine, Fine, CarriesListing
<1>2. CarriesRow(c) /\ CarriesPool(c)
  BY DEF CarriesRow, CarriesPool, RowPcs, ProvisionPcs
<1>3. QED
  BY <1>1, <1>2 DEF Fine

LEMMA ClaimsAreNames ==
    ASSUME RowsFit
    PROVE  ClaimedInstances \subseteq Names
<1>1. \A s \in Sids : rows[s].instance \in Names \union {NoInstance}
  BY DEF RowsFit, Row
<1>2. QED
  BY <1>1 DEF ClaimedInstances

LEMMA ListClaimedFine ==
    ASSUME StateInv, NEW t \in Calls, ListClaimed(t)
    PROVE  StateInv'
<1> DEFINE c == [call[t] EXCEPT !.pc = "listed", !.names = ClaimedInstances]
<1>1. call[t] \in Call /\ call[t].sid \in Sids /\ Fit(call[t].sid, call[t].row)
  BY InHand DEF ListClaimed, At, RowPcs, ProvisionPcs, StateInv
<1>2. ClaimedInstances \in SUBSET Names /\ "listed" \in Pcs /\ "listed" \in RowPcs
  BY ClaimsAreNames DEF StateInv, Pcs, RowPcs, ProvisionPcs
<1>3. /\ c \in Call /\ c.pc = "listed" /\ c.sid = call[t].sid /\ c.row = call[t].row
      /\ c.snap = call[t].snap
  BY <1>1, <1>2 DEF Call
<1>4. call' = [call EXCEPT ![t] = c]
  BY DEF ListClaimed
<1> HIDE DEF c
<1>5. CallsFine'
  BY <1>1, <1>2, <1>3, <1>4, FineInHand, OneMoves DEF StateInv
<1>6. QED
  BY <1>5 DEF ListClaimed, StateInv, RowsFit, env

\* A pool machine of the row's own scenario, whichever it is, fits any session.
LEMMA PoolFits ==
    ASSUME NEW s \in Sids, NEW row, Fit(s, row),
           NEW m \in PoolNames(row.scenario), NEW st \in SessionStates
    PROVE  Fit(s, [row EXCEPT !.instance = m, !.state = st])
<1>1. m \in Names /\ m.scenario = row.scenario /\ m.kind = "pool"
  BY NamesAreNames DEF PoolNames, PoolName, Fit
<1>2. row \in Row /\ "absent" \notin SessionStates
  BY DEF Fit, SessionStates
<1>3. QED
  BY <1>1, <1>2 DEF Fit, OwnMachine, Row

LEMMA PickPoolFine ==
    ASSUME StateInv, NEW t \in Calls, PickPool(t)
    PROVE  StateInv'
<1>1. call[t] \in Call /\ call[t].sid \in Sids /\ Fit(call[t].sid, call[t].row)
  BY InHand DEF PickPool, At, RowPcs, ProvisionPcs, StateInv
<1> DEFINE sc == call[t].row.scenario
<1>2. PICK available \in SUBSET (PoolInstances(sc) \ call[t].names) :
        call' = [call EXCEPT ![t].names = {},
                    ![t].pc = IF available = {} THEN "clone" ELSE "claimed",
                    ![t].row = IF available = {} THEN @
                               ELSE [@ EXCEPT !.instance = Lowest(available),
                                              !.state = "provisioning"]]
  BY DEF PickPool
<1> DEFINE row == IF available = {} THEN call[t].row
                  ELSE [call[t].row EXCEPT !.instance = Lowest(available),
                                           !.state = "provisioning"]
           pc == IF available = {} THEN "clone" ELSE "claimed"
           c == [call[t] EXCEPT !.names = {}, !.pc = pc, !.row = row]
<1>3. call' = [call EXCEPT ![t] = c]
  BY <1>2
<1>4. Fit(call[t].sid, row)
  <2>1. CASE available = {}
    BY <1>1, <2>1
  <2>2. CASE available # {}
    <3>1. available \subseteq PoolNames(sc) /\ sc \in Scenarios
      BY <1>1 DEF PoolInstances, Fit
    <3>2. Lowest(available) \in PoolNames(sc)
      BY <2>2, <3>1, LowestIsOne
    <3>3. QED
      BY <1>1, <2>2, <3>2, PoolFits DEF SessionStates
  <2>3. QED
    BY <2>1, <2>2
<1>5. pc \in RowPcs /\ pc \in Pcs
  BY DEF RowPcs, ProvisionPcs, Pcs
<1> HIDE DEF row, pc
<1>6. row \in Row /\ {} \in SUBSET Names
  BY <1>4 DEF Fit
<1>7. /\ c \in Call /\ c.pc = pc /\ c.sid = call[t].sid /\ c.row = row
      /\ c.snap = call[t].snap
  BY <1>1, <1>5, <1>6 DEF Call
<1> HIDE DEF c
<1>8. CallsFine'
  BY <1>1, <1>3, <1>4, <1>5, <1>7, FineInHand, OneMoves DEF StateInv
<1>9. QED
  BY <1>8 DEF PickPool, StateInv, RowsFit, env

\* The clone that bears the session's own name fits it.
LEMMA OwnNameFits ==
    ASSUME NEW t \in Calls, call[t].sid \in Sids, Fit(call[t].sid, call[t].row)
    PROVE  /\ OwnName(t) \in Names
           /\ Fit(call[t].sid, [call[t].row EXCEPT !.instance = OwnName(t)])
<1>1. /\ OwnName(t) \in Names /\ OwnName(t).scenario = call[t].row.scenario
      /\ OwnName(t).n = call[t].sid
  BY NamesAreNames DEF OwnName, SessionName, Fit
<1>2. call[t].row \in Row
  BY DEF Fit
<1>3. QED
  BY <1>1, <1>2 DEF Fit, OwnMachine, Row

LEMMA CloneFine ==
    ASSUME StateInv, NEW t \in Calls, Clone(t)
    PROVE  StateInv'
<1>1. call[t] \in Call /\ call[t].sid \in Sids /\ Fit(call[t].sid, call[t].row)
  BY InHand DEF Clone, At, RowPcs, ProvisionPcs, StateInv
<1>2. vms' \subseteq Names
  BY <1>1, OwnNameFits DEF Clone, StateInv
<1>3. "cloned" \in RowPcs
  BY DEF RowPcs, ProvisionPcs
<1>4. QED
  BY <1>1, <1>2, <1>3, OwnNameFits, MakesARow DEF Clone

LEMMA MachineFailsFine ==
    ASSUME StateInv, NEW t \in Calls, MachineFails(t)
    PROVE  StateInv'
<1> DEFINE row == [call[t].row EXCEPT !.state = "error"]
           c == [call[t] EXCEPT !.pc = "finish", !.names = {}, !.row = row]
<1>1. call[t] \in Call /\ call[t].sid \in Sids /\ Fit(call[t].sid, call[t].row)
  BY InHand DEF MachineFails, RowPcs, ProvisionPcs, StateInv
<1>2. vms' \subseteq Names
  <2>1. vms' = vms \/ vms' = vms \union {OwnName(t)}
    BY DEF MachineFails
  <2>2. OwnName(t) \in Names
    BY <1>1, OwnNameFits
  <2>3. QED
    BY <2>1, <2>2 DEF StateInv
<1>3. Fit(call[t].sid, row)
  BY <1>1, FitStays DEF SessionStates
<1>4. call' = [call EXCEPT ![t] = c]
  BY DEF MachineFails
<1>5. "finish" \in RowPcs /\ "finish" \in Pcs /\ row \in Row /\ {} \in SUBSET Names
  BY <1>3 DEF RowPcs, ProvisionPcs, Pcs, Fit
<1> HIDE DEF row
<1>6. /\ c \in Call /\ c.pc = "finish" /\ c.sid = call[t].sid /\ c.row = row
      /\ c.snap = call[t].snap
  BY <1>1, <1>5 DEF Call
<1> HIDE DEF c
<1>7. CallsFine'
  BY <1>1, <1>3, <1>4, <1>5, <1>6, FineInHand, OneMoves DEF StateInv
<1>8. QED
  BY <1>2, <1>7 DEF MachineFails, StateInv, RowsFit, env

LEMMA GuestFine ==
    ASSUME StateInv, NEW t \in Calls, GuestAnswers(t) \/ GuestSilent(t)
    PROVE  StateInv'
<1>1. call[t].sid \in Sids /\ Fit(call[t].sid, call[t].row)
  BY InHand DEF GuestAnswers, GuestSilent, At, RowPcs, ProvisionPcs, StateInv
<1>2. \A st \in {"ready", "error"} : Fit(call[t].sid, [call[t].row EXCEPT !.state = st])
  BY <1>1, FitStays DEF SessionStates
<1>3. "finish" \in RowPcs /\ vms' \subseteq Names
  BY DEF RowPcs, ProvisionPcs, GuestAnswers, GuestSilent, StateInv
<1>4. QED
  BY <1>1, <1>2, <1>3, MakesARow DEF GuestAnswers, GuestSilent

LEMMA GradeFine ==
    ASSUME StateInv, NEW t \in Calls, Grade(t)
    PROVE  StateInv'
<1>1. call[t] \in Call /\ call[t].sid \in Sids /\ Fit(call[t].sid, call[t].row)
  BY InHand DEF Grade, At, RowPcs, StateInv
<1>2. PICK report \in {"error", "unresolved", "resolved"} :
        LET resolved == call[t].row.resolved \/ report = "resolved"
        IN  call' = [call EXCEPT ![t].pc = "graded", ![t].report = report,
                         ![t].row.resolved = resolved,
                         ![t].row.state = IF resolved THEN "passed" ELSE "in_use"]
  BY DEF Grade
<1> DEFINE resolved == call[t].row.resolved \/ report = "resolved"
           st == IF resolved THEN "passed" ELSE "in_use"
           row == [call[t].row EXCEPT !.resolved = resolved, !.state = st]
           c == [call[t] EXCEPT !.pc = "graded", !.report = report, !.row = row]
<1>3. call' = [call EXCEPT ![t] = c]
  BY <1>2
<1>4. resolved \in BOOLEAN /\ st \in SessionStates
  BY <1>1 DEF Fit, Row, SessionStates
<1> HIDE DEF resolved, st
<1>5. Fit(call[t].sid, row)
  BY <1>1, <1>4, FitStays
<1> HIDE DEF row
<1>6. row \in Row /\ "graded" \in Pcs /\ "graded" \in RowPcs
  BY <1>5 DEF Fit, Pcs, RowPcs
<1>7. /\ c \in Call /\ c.pc = "graded" /\ c.sid = call[t].sid /\ c.row = row
      /\ c.snap = call[t].snap
  BY <1>1, <1>6 DEF Call
<1> HIDE DEF c
<1>8. CallsFine'
  BY <1>1, <1>3, <1>5, <1>6, <1>7, FineInHand, OneMoves DEF StateInv
<1>9. QED
  BY <1>8 DEF Grade, StateInv, RowsFit, env

LEMMA VerdictFine ==
    ASSUME StateInv, NEW t \in Calls, Verdict(t)
    PROVE  StateInv'
<1>1. call[t].sid \in Sids /\ Fit(call[t].sid, call[t].row)
  BY InHand DEF Verdict, At, RowPcs, StateInv
<1>2. PICK writeUpClears \in BOOLEAN :
        LET resolved == call[t].report = "resolved" /\ writeUpClears
            row == [call[t].row EXCEPT !.state = IF resolved THEN "passed" ELSE "failed",
                                       !.resolved = resolved, !.completed = TRUE]
        IN  Save(t, row) /\ Become(t, "record", row)
  BY DEF Verdict
<1> DEFINE resolved == call[t].report = "resolved" /\ writeUpClears
           st == IF resolved THEN "passed" ELSE "failed"
           row == [call[t].row EXCEPT !.state = st, !.resolved = resolved, !.completed = TRUE]
<1>3. resolved \in BOOLEAN /\ st \in SessionStates
  BY DEF SessionStates
<1>4. Save(t, row) /\ Become(t, "record", row)
  BY <1>2
<1> HIDE DEF resolved, st
<1>5. Fit(call[t].sid, row)
  BY <1>1, <1>3, FitStays
<1> HIDE DEF row
<1>6. "record" \in RowPcs /\ vms' \subseteq Names /\ UNCHANGED <<results, env>>
  BY DEF RowPcs, Verdict, StateInv
<1>7. QED
  BY <1>1, <1>4, <1>5, <1>6, MakesARow

LEMMA RecordResultFine ==
    ASSUME StateInv, NEW t \in Calls, RecordResult(t)
    PROVE  StateInv'
<1>1. call[t].pc \in RowPcs /\ "destroy" \in RowPcs
  BY DEF RecordResult, At, RowPcs
<1>2. CallsFine'
  BY <1>1, GoFine DEF RecordResult, StateInv
<1>3. results' \in [Sids -> Nat]
  <2>1. call[t].sid \in Sids /\ results \in [Sids -> Nat]
    BY <1>1, InHand DEF StateInv
  <2>2. results' = [results EXCEPT ![call[t].sid] = @ + 1]
    BY DEF RecordResult
  <2>3. QED
    BY <2>1, <2>2
<1>4. QED
  BY <1>2, <1>3 DEF RecordResult, StateInv, RowsFit, env

LEMMA DestroyInstanceFine ==
    ASSUME StateInv, NEW t \in Calls, DestroyInstance(t)
    PROVE  StateInv'
<1>1. call[t].sid \in Sids /\ Fit(call[t].sid, call[t].row)
  BY InHand DEF DestroyInstance, At, RowPcs, StateInv
<1>2. Fit(call[t].sid, AfterDestroy(call[t].op, call[t].row))
  BY <1>1, FitStays DEF AfterDestroy, SessionStates
<1>3. "destroyed" \in RowPcs /\ vms' \subseteq Names
  BY DEF RowPcs, DestroyInstance, StateInv
<1>4. QED
  BY <1>1, <1>2, <1>3, MakesARow DEF DestroyInstance

LEMMA DestroyedSaveFine ==
    ASSUME StateInv, NEW t \in Calls, DestroyedSave(t)
    PROVE  StateInv'
<1>1. /\ call[t] \in Call /\ call[t].sid \in Sids /\ Fit(call[t].sid, call[t].row)
      /\ CarriesListing(call[t])
  BY InHand DEF DestroyedSave, At, RowPcs, StateInv, CallsFine, Fine
<1>2. RowsFit'
  BY <1>1, SaveFits DEF DestroyedSave, StateInv
<1>3. CallsFine'
  <2>1. CASE call[t].op = "reset"
    BY <2>1, GoFine DEF DestroyedSave, At, RowPcs, ProvisionPcs, StateInv
  <2>2. CASE call[t].op = "reap"
    <3> DEFINE pc == IF call[t].row.state = "error" THEN "stuck" ELSE "sweep"
               c == [call[t] EXCEPT !.row = NoRow, !.sid = 0, !.pc = pc]
    <3>1. call' = [call EXCEPT ![t] = c]
      BY <2>2, <1>1 DEF DestroyedSave, Call
    <3>2. pc \in {"stuck", "sweep"} /\ pc \in Pcs /\ 0 \in 0..MaxRows
      BY Bounds DEF Pcs
    <3> HIDE DEF pc
    <3>3. c \in Call /\ c.pc = pc /\ c.sid = 0 /\ c.snap = call[t].snap
      BY <1>1, <3>2, NoRowFits DEF Call
    <3> HIDE DEF c
    <3>4. Fine(c)
      BY <1>1, <3>2, <3>3
         DEF Fine, CarriesRow, CarriesListing, CarriesPool, RowPcs, ProvisionPcs
    <3>5. QED
      BY <3>1, <3>4, OneMoves DEF StateInv
  <2>3. CASE call[t].op \notin {"reset", "reap"}
    BY <2>3, ReturnFine DEF DestroyedSave, StateInv
  <2>4. QED
    BY <2>1, <2>2, <2>3
<1>4. QED
  BY <1>2, <1>3 DEF DestroyedSave, StateInv, env

\* A listing of the table holds rows that fit.
LEMMA SnapshotFits ==
    ASSUME RowsFit, NEW states, "absent" \notin states
    PROVE  /\ Snapshot(states) \in [Sids -> Row]
           /\ \A s \in Sids : Snapshot(states)[s] = NoRow \/ Fit(s, Snapshot(states)[s])
<1>1. \A s \in Sids : rows[s].state \in states => Fit(s, rows[s])
  BY DEF RowsFit, NoRow
<1>2. \A s \in Sids : rows[s] \in Row
  BY DEF RowsFit
<1>3. QED
  BY <1>1, <1>2, NoRowFits DEF Snapshot

\* What makes a call fine that holds no session.
LEMMA FineBetween ==
    ASSUME NEW c, c \in Call, c.pc \in {"sweep", "stuck", "refill"}, c.sid = 0,
           CarriesListing(c)
    PROVE  Fine(c)
  BY DEF Fine, CarriesRow, CarriesPool, RowPcs, ProvisionPcs

LEMMA ReapListFine ==
    ASSUME StateInv, NEW t \in Calls, ReapList(t)
    PROVE  StateInv'
<1> DEFINE listing == Snapshot(Watched)
           c == [NoCall EXCEPT !.op = "reap", !.pc = "sweep", !.snap = listing, !.now = clock]
<1>1. /\ listing \in [Sids -> Row]
      /\ \A s \in Sids : listing[s] = NoRow \/ Fit(s, listing[s])
  BY SnapshotFits DEF Watched, StateInv
<1>2. call' = [call EXCEPT ![t] = c]
  BY DEF ReapList
<1> HIDE DEF listing
<1>3. /\ NoCall \in Call /\ NoCall.sid = 0 /\ clock \in 0..MaxClock
      /\ "sweep" \in Pcs /\ "reap" \in OpNames
  BY NoCallFine DEF Fine, NoCall, StateInv, Pcs, OpNames
<1>4. c \in Call /\ c.pc = "sweep" /\ c.sid = NoCall.sid /\ c.snap = listing
  BY <1>1, <1>3 DEF Call
<1> HIDE DEF c
<1>5. Fine(c)
  BY <1>1, <1>3, <1>4, FineBetween DEF CarriesListing
<1>6. CallsFine'
  BY <1>2, <1>5, OneMoves DEF StateInv
<1>7. QED
  BY <1>6 DEF ReapList, StateInv, RowsFit, env

LEMMA StuckListFine ==
    ASSUME StateInv, NEW t \in Calls, StuckList(t)
    PROVE  StateInv'
<1> DEFINE listing == Snapshot(Building)
           c == [call[t] EXCEPT !.pc = "stuck", !.snap = listing]
<1>1. /\ listing \in [Sids -> Row]
      /\ \A s \in Sids : listing[s] = NoRow \/ Fit(s, listing[s])
  BY SnapshotFits DEF Building, StateInv
<1>2. call' = [call EXCEPT ![t] = c]
  BY DEF StuckList
<1> HIDE DEF listing
<1>3. call[t] \in Call /\ call[t].sid = 0 /\ "stuck" \in Pcs
  BY DEF StuckList, At, StateInv, CallsFine, Fine, CarriesRow, RowPcs, ProvisionPcs, Pcs
<1>4. c \in Call /\ c.pc = "stuck" /\ c.sid = call[t].sid /\ c.snap = listing
  BY <1>1, <1>3 DEF Call
<1> HIDE DEF c
<1>5. Fine(c)
  BY <1>1, <1>3, <1>4, FineBetween DEF CarriesListing
<1>6. CallsFine'
  BY <1>2, <1>5, OneMoves DEF StateInv
<1>7. QED
  BY <1>6 DEF StuckList, StateInv, RowsFit, env

\* A listed session is taken in hand, with the row the listing has of it, or
\* only crossed off.
LEMMA TakesListed ==
    ASSUME StateInv, NEW t \in Calls, NEW s \in Listed(t), call[t].pc \in {"sweep", "stuck"},
           NEW pc \in RowPcs, NEW row, Fit(s, row),
           call' = [call EXCEPT ![t].pc = pc, ![t].sid = s, ![t].row = row,
                                ![t].snap[s] = NoRow]
    PROVE  CallsFine'
<1> DEFINE listing == [call[t].snap EXCEPT ![s] = NoRow]
           c == [call[t] EXCEPT !.pc = pc, !.sid = s, !.row = row, !.snap = listing]
<1>1. call[t] \in Call /\ CarriesListing(call[t]) /\ s \in Sids /\ s \in 0..MaxRows
  BY Bounds DEF StateInv, CallsFine, Fine, Listed, Sids
<1>2. /\ listing \in [Sids -> Row]
      /\ \A i \in Sids : listing[i] = NoRow \/ Fit(i, listing[i])
  BY <1>1, NoRowFits DEF Call, CarriesListing
<1>3. call' = [call EXCEPT ![t] = c]
  BY <1>1 DEF Call
<1> HIDE DEF listing
<1>4. row \in Row /\ pc \in Pcs
  BY DEF Fit, RowPcs, ProvisionPcs, Pcs
<1>5. c \in Call /\ c.pc = pc /\ c.sid = s /\ c.row = row /\ c.snap = listing
  BY <1>1, <1>2, <1>4 DEF Call
<1> HIDE DEF c
<1>6. CarriesRow(c) /\ CarriesListing(c)
  BY <1>1, <1>2, <1>5 DEF CarriesRow, CarriesListing, RowPcs, ProvisionPcs
<1>7. CarriesPool(c)
  BY <1>5 DEF CarriesPool, RowPcs, ProvisionPcs
<1>8. QED
  BY <1>3, <1>5, <1>6, <1>7, OneMoves DEF Fine, StateInv

LEMMA CrossesOff ==
    ASSUME StateInv, NEW t \in Calls, NEW s \in Listed(t), call[t].pc \in {"sweep", "stuck"},
           call' = [call EXCEPT ![t].snap[s] = NoRow]
    PROVE  CallsFine'
<1> DEFINE listing == [call[t].snap EXCEPT ![s] = NoRow]
           c == [call[t] EXCEPT !.snap = listing]
<1>1. call[t] \in Call /\ CarriesListing(call[t]) /\ s \in Sids /\ call[t].sid = 0
  BY DEF StateInv, CallsFine, Fine, Listed, CarriesRow, RowPcs, ProvisionPcs
<1>2. /\ listing \in [Sids -> Row]
      /\ \A i \in Sids : listing[i] = NoRow \/ Fit(i, listing[i])
  BY <1>1, NoRowFits DEF Call, CarriesListing
<1>3. call' = [call EXCEPT ![t] = c]
  BY <1>1 DEF Call
<1> HIDE DEF listing
<1>4. c \in Call /\ c.pc = call[t].pc /\ c.sid = call[t].sid /\ c.snap = listing
  BY <1>1, <1>2 DEF Call
<1> HIDE DEF c
<1>5. Fine(c)
  BY <1>1, <1>2, <1>4, FineBetween DEF CarriesListing
<1>6. QED
  BY <1>3, <1>5, OneMoves DEF StateInv

LEMMA ListedFits ==
    ASSUME StateInv, NEW t \in Calls, NEW s \in Listed(t)
    PROVE  s \in Sids /\ Fit(s, call[t].snap[s])
<1>1. s \in Sids /\ call[t].snap[s].state # "absent" /\ CarriesListing(call[t])
  BY DEF Listed, StateInv, CallsFine, Fine
<1>2. QED
  BY <1>1 DEF CarriesListing, NoRow

LEMMA SweepNextFine ==
    ASSUME StateInv, NEW t \in Calls, NEW s \in Sids, SweepNext(t, s)
    PROVE  StateInv'
<1>1. s \in Listed(t) /\ call[t].pc \in {"sweep", "stuck"}
  BY DEF SweepNext, At
<1>2. Fit(s, [call[t].snap[s] EXCEPT !.state = "recycling"])
  BY <1>1, ListedFits, FitStays DEF SessionStates
<1>3. "recycle" \in RowPcs
  BY DEF RowPcs
<1>4. CallsFine'
  BY <1>1, <1>2, <1>3, TakesListed, CrossesOff DEF SweepNext
<1>5. QED
  BY <1>4 DEF SweepNext, StateInv, RowsFit, env

LEMMA StuckNextFine ==
    ASSUME StateInv, NEW t \in Calls, NEW s \in Sids, StuckNext(t, s)
    PROVE  StateInv'
<1>1. s \in Listed(t) /\ call[t].pc \in {"sweep", "stuck"}
  BY DEF StuckNext, At
<1>2. Fit(s, call[t].snap[s])
  BY <1>1, ListedFits
<1>3. "destroy" \in RowPcs
  BY DEF RowPcs
<1>4. CallsFine'
  BY <1>1, <1>2, <1>3, TakesListed, CrossesOff DEF StuckNext
<1>5. QED
  BY <1>4 DEF StuckNext, StateInv, RowsFit, env

\* The pools: the call creates a machine with a name of its pool, or stops.
LEMMA RefillStatusFine ==
    ASSUME StateInv, NEW t \in Calls, RefillStatus(t)
    PROVE  StateInv'
<1> DEFINE wants == [sc \in Scenarios |-> Deficit(sc)]
           c == [call[t] EXCEPT !.pc = "refill", !.want = wants]
<1>1. call[t] \in Call /\ call[t].sid = 0 /\ CarriesListing(call[t]) /\ "refill" \in Pcs
  BY DEF RefillStatus, At, StateInv, CallsFine, Fine, CarriesRow, RowPcs, ProvisionPcs, Pcs
<1>2. \A sc \in Scenarios : Deficit(sc) \in Nat
  <2> SUFFICES ASSUME NEW sc \in Scenarios
               PROVE  Deficit(sc) \in Nat
    OBVIOUS
  <2>1. Cardinality(PoolInstances(sc)) \in Nat
    BY PoolIsFinite
  <2>2. QED
    BY <2>1, Bounds DEF Deficit
<1>3. wants \in [Scenarios -> Nat]
  BY <1>2
<1>4. call' = [call EXCEPT ![t] = c]
  BY DEF RefillStatus
<1> HIDE DEF wants
<1>5. c \in Call /\ c.pc = "refill" /\ c.sid = call[t].sid /\ c.snap = call[t].snap
  BY <1>1, <1>3 DEF Call
<1> HIDE DEF c
<1>6. Fine(c)
  BY <1>1, <1>5, FineBetween DEF CarriesListing
<1>7. CallsFine'
  BY <1>4, <1>6, OneMoves DEF StateInv
<1>8. QED
  BY <1>7 DEF RefillStatus, StateInv, RowsFit, env

\* What makes a call fine that is creating machines.
LEMMA FinePrewarming ==
    ASSUME NEW c, c \in Call, c.pc \in {"prewarm", "boot"}, c.sid = 0, CarriesListing(c),
           c.pool \in Scenarios, c.want[c.pool] # 0, c.index # 0
    PROVE  Fine(c)
  BY DEF Fine, CarriesRow, CarriesPool, RowPcs, ProvisionPcs

LEMMA PrewarmListFine ==
    ASSUME StateInv, NEW t \in Calls, NEW sc \in Scenarios, PrewarmList(t, sc)
    PROVE  StateInv'
<1> DEFINE count == IF call[t].want[sc] < Budget THEN call[t].want[sc] ELSE Budget
           pc == IF count = 0 THEN "refill" ELSE "prewarm"
           pool == IF count = 0 THEN call[t].pool ELSE sc
           wants == [call[t].want EXCEPT ![sc] = count]
           next == NextPoolIndex(sc)
           c == [call[t] EXCEPT !.pc = pc, !.pool = pool, !.want = wants, !.index = next]
<1>1. call[t] \in Call /\ call[t].sid = 0 /\ CarriesListing(call[t])
  BY DEF PrewarmList, At, StateInv, CallsFine, Fine, CarriesRow, RowPcs, ProvisionPcs
<1>2. count \in Nat
  <2>1. Budget \in Nat
    BY Bounds, PoolsAreFinite DEF Budget
  <2>2. QED
    BY <1>1, <2>1 DEF Call
<1>3. call' = [call EXCEPT ![t] = c]
  <2>1. call' = [call EXCEPT ![t].pc = IF count = 0 THEN "refill" ELSE "prewarm",
                        ![t].pool = IF count = 0 THEN @ ELSE sc,
                        ![t].want[sc] = count, ![t].index = NextPoolIndex(sc)]
    BY DEF PrewarmList
  <2> HIDE DEF count, next
  <2>2. QED
    BY <1>1, <2>1 DEF Call, next
<1> HIDE DEF count
<1>4. /\ pc \in Pcs /\ pc \in {"refill", "prewarm"} /\ pool \in Scenarios \union {Nobody}
      /\ pc = "prewarm" => pool = sc /\ count # 0
  BY <1>1 DEF Pcs, Call
<1>5. wants \in [Scenarios -> Nat] /\ wants[sc] = count
  BY <1>1, <1>2 DEF Call
<1>6. next \in Nat \ {0}
  BY NextIndexIsNat
<1> HIDE DEF pc, pool, wants, next
<1>7. /\ c \in Call /\ c.pc = pc /\ c.sid = call[t].sid /\ c.snap = call[t].snap
      /\ c.pool = pool /\ c.want = wants /\ c.index = next
  BY <1>1, <1>4, <1>5, <1>6 DEF Call
<1> HIDE DEF c
<1>8. CarriesListing(c)
  BY <1>1, <1>7 DEF CarriesListing
<1>9. Fine(c)
  <2>1. CASE pc = "refill"
    BY <1>1, <1>7, <1>8, <2>1, FineBetween
  <2>2. CASE pc = "prewarm"
    BY <1>1, <1>4, <1>5, <1>6, <1>7, <1>8, <2>2, FinePrewarming
  <2>3. QED
    BY <1>4, <2>1, <2>2
<1>10. CallsFine'
  BY <1>3, <1>9, OneMoves DEF StateInv
<1>11. QED
  BY <1>10 DEF PrewarmList, StateInv, RowsFit, env

LEMMA Prewarming ==
    ASSUME StateInv, NEW t \in Calls, call[t].pc \in {"prewarm", "boot"}
    PROVE  /\ call[t] \in Call /\ call[t].sid = 0 /\ CarriesListing(call[t])
           /\ call[t].pool \in Scenarios
           /\ call[t].want \in [Scenarios -> Nat] /\ call[t].want[call[t].pool] # 0
           /\ call[t].index \in Nat \ {0}
<1>1. Fine(call[t])
  BY DEF StateInv, CallsFine
<1>2. call[t].want \in [Scenarios -> Nat] /\ call[t].index \in Nat
  BY <1>1 DEF Fine, Call
<1>3. QED
  BY <1>1, <1>2 DEF Fine, CarriesRow, CarriesPool, RowPcs, ProvisionPcs

LEMMA NextNameIsAName ==
    ASSUME StateInv, NEW t \in Calls, call[t].pc \in {"prewarm", "boot"},
           call[t].index <= MaxIndex
    PROVE  NextName(t) \in Names
<1>1. call[t].pool \in Scenarios /\ call[t].index \in 1..MaxIndex
  BY Prewarming, Bounds
<1>2. QED
  BY <1>1, NamesAreNames DEF NextName

LEMMA PrewarmCloneFine ==
    ASSUME StateInv, NEW t \in Calls, PrewarmClone(t)
    PROVE  StateInv'
<1> DEFINE c == [call[t] EXCEPT !.pc = "boot"]
<1>1. call[t].pc \in {"prewarm", "boot"} /\ "boot" \in Pcs
  BY DEF PrewarmClone, At, Pcs
<1>2. vms' \subseteq Names
  BY <1>1, NextNameIsAName DEF PrewarmClone, StateInv
<1>3. call' = [call EXCEPT ![t] = c]
  BY DEF PrewarmClone, Go
<1>4. /\ c \in Call /\ c.pc = "boot" /\ c.sid = call[t].sid /\ c.snap = call[t].snap
      /\ c.pool = call[t].pool /\ c.want = call[t].want /\ c.index = call[t].index
  BY <1>1, Prewarming DEF Call
<1> HIDE DEF c
<1>5. CarriesListing(c)
  BY <1>1, <1>4, Prewarming DEF CarriesListing
<1>6. Fine(c)
  BY <1>1, <1>4, <1>5, Prewarming, FinePrewarming
<1>7. CallsFine'
  BY <1>3, <1>6, OneMoves DEF StateInv
<1>8. QED
  BY <1>2, <1>7 DEF PrewarmClone, StateInv, RowsFit, env

LEMMA PrewarmBootedFine ==
    ASSUME StateInv, NEW t \in Calls, PrewarmBooted(t)
    PROVE  StateInv'
<1> DEFINE left == call[t].want[call[t].pool] - 1
           wants == [call[t].want EXCEPT ![call[t].pool] = left]
           pc == IF left = 0 THEN "refill" ELSE "prewarm"
           pool == IF left = 0 THEN Nobody ELSE call[t].pool
           next == IF left = 0 THEN 0 ELSE call[t].index + 1
           c == [call[t] EXCEPT !.want = wants, !.pc = pc, !.pool = pool, !.index = next]
<1>1. /\ call[t] \in Call /\ call[t].sid = 0 /\ CarriesListing(call[t])
      /\ call[t].pool \in Scenarios
      /\ call[t].want \in [Scenarios -> Nat] /\ call[t].want[call[t].pool] # 0
      /\ call[t].index \in Nat \ {0}
  BY Prewarming DEF PrewarmBooted, At
<1>2. left \in Nat
  BY <1>1
<1>3. call' = [call EXCEPT ![t] = c]
  <2>1. call' = [call EXCEPT ![t].want[call[t].pool] = left,
                        ![t].pc = IF left = 0 THEN "refill" ELSE "prewarm",
                        ![t].pool = IF left = 0 THEN Nobody ELSE @,
                        ![t].index = IF left = 0 THEN 0 ELSE @ + 1]
    BY DEF PrewarmBooted
  <2> HIDE DEF left
  <2>2. QED
    BY <1>1, <2>1 DEF Call
<1> HIDE DEF left
<1>4. /\ wants \in [Scenarios -> Nat] /\ wants[call[t].pool] = left
      /\ pc \in Pcs /\ pc \in {"refill", "prewarm"} /\ next \in Nat
      /\ pool \in Scenarios \union {Nobody}
      /\ pc = "prewarm" => left # 0 /\ pool = call[t].pool /\ next # 0
  BY <1>1, <1>2 DEF Pcs
<1> HIDE DEF wants, pc, pool, next
<1>5. /\ c \in Call /\ c.pc = pc /\ c.sid = call[t].sid /\ c.snap = call[t].snap
      /\ c.pool = pool /\ c.want = wants /\ c.index = next
  BY <1>1, <1>4 DEF Call
<1> HIDE DEF c
<1>6. CarriesListing(c)
  BY <1>1, <1>5 DEF CarriesListing
<1>7. Fine(c)
  <2>1. CASE pc = "refill"
    BY <1>1, <1>5, <1>6, <2>1, FineBetween
  <2>2. CASE pc = "prewarm"
    BY <1>1, <1>4, <1>5, <1>6, <2>2, FinePrewarming
  <2>3. QED
    BY <1>4, <2>1, <2>2
<1>8. CallsFine'
  BY <1>3, <1>7, OneMoves DEF StateInv
<1>9. QED
  BY <1>8 DEF PrewarmBooted, StateInv, RowsFit, env

LEMMA PrewarmFailsFine ==
    ASSUME StateInv, NEW t \in Calls, PrewarmFails(t)
    PROVE  StateInv'
<1> DEFINE wants == [call[t].want EXCEPT ![call[t].pool] = 0]
           c == [call[t] EXCEPT !.want = wants, !.pc = "refill", !.pool = Nobody, !.index = 0]
<1>1. /\ call[t] \in Call /\ call[t].sid = 0 /\ CarriesListing(call[t])
      /\ call[t].want \in [Scenarios -> Nat]
  BY Prewarming DEF PrewarmFails
<1>2. vms' \subseteq Names
  <2>1. vms' = vms \/ (vms' = vms \union {NextName(t)} /\ call[t].index <= MaxIndex)
    BY DEF PrewarmFails
  <2>2. QED
    BY <2>1, NextNameIsAName DEF PrewarmFails, StateInv
<1>3. call' = [call EXCEPT ![t] = c]
  BY <1>1 DEF PrewarmFails, Call
<1>4. wants \in [Scenarios -> Nat] /\ "refill" \in Pcs /\ Nobody \in Scenarios \union {Nobody}
  BY <1>1 DEF Pcs
<1> HIDE DEF wants
<1>5. c \in Call /\ c.pc = "refill" /\ c.sid = call[t].sid /\ c.snap = call[t].snap
  BY <1>1, <1>4 DEF Call
<1> HIDE DEF c
<1>6. Fine(c)
  BY <1>1, <1>5, FineBetween DEF CarriesListing
<1>7. CallsFine'
  BY <1>3, <1>6, OneMoves DEF StateInv
<1>8. QED
  BY <1>2, <1>7 DEF PrewarmFails, StateInv, RowsFit, env

LEMMA RefillDoneFine ==
    ASSUME StateInv, NEW t \in Calls, RefillDone(t)
    PROVE  StateInv'
<1>1. CallsFine'
  BY ReturnFine DEF RefillDone, StateInv
<1>2. QED
  BY <1>1 DEF RefillDone, StateInv, RowsFit, env

\* What makes a call fine that drains a pool.
LEMMA Draining ==
    ASSUME StateInv, NEW t \in Calls, call[t].pc \in {"drain", "drainlist", "draining"},
           NEW pc \in {"drainlist", "draining"}, NEW names \in SUBSET Names,
           pc = "drainlist" => call[t].pool \in Scenarios,
           pc = "draining" => \A m \in names : m.kind = "pool",
           call' = [call EXCEPT ![t].pc = pc, ![t].names = names]
    PROVE  CallsFine'
<1> DEFINE c == [call[t] EXCEPT !.pc = pc, !.names = names]
<1>1. call[t] \in Call /\ call[t].sid = 0 /\ CarriesListing(call[t]) /\ pc \in Pcs
  BY DEF StateInv, CallsFine, Fine, CarriesRow, RowPcs, ProvisionPcs, Pcs
<1>2. call' = [call EXCEPT ![t] = c]
  OBVIOUS
<1>3. /\ c \in Call /\ c.pc = pc /\ c.sid = call[t].sid /\ c.snap = call[t].snap
      /\ c.names = names /\ c.pool = call[t].pool
  BY <1>1 DEF Call
<1> HIDE DEF c
<1>4. CarriesRow(c) /\ CarriesListing(c)
  BY <1>1, <1>3 DEF CarriesRow, CarriesListing, RowPcs, ProvisionPcs
<1>5. CarriesPool(c)
  BY <1>3 DEF CarriesPool
<1>6. QED
  BY <1>2, <1>3, <1>4, <1>5, OneMoves DEF Fine, StateInv

LEMMA DrainFine ==
    ASSUME StateInv, NEW t \in Calls, DrainClaims(t) \/ DrainList(t) \/ DrainNext(t)
    PROVE  StateInv'
<1>1. call[t] \in Call /\ CarriesPool(call[t])
  BY DEF StateInv, CallsFine, Fine
<1>2. CASE DrainClaims(t)
  <2>1. call[t].pool \in Scenarios /\ ClaimedInstances \in SUBSET Names
    BY <1>1, <1>2, ClaimsAreNames DEF DrainClaims, At, CarriesPool, StateInv
  <2>2. CallsFine'
    BY <1>2, <2>1, Draining DEF DrainClaims, At
  <2>3. QED
    BY <1>2, <2>2 DEF DrainClaims, StateInv, RowsFit, env
<1>3. CASE DrainList(t)
  <2>1. PICK available \in SUBSET (PoolInstances(call[t].pool) \ call[t].names) :
          call' = [call EXCEPT ![t].pc = "draining", ![t].names = available]
    BY <1>3 DEF DrainList
  <2>2. available \in SUBSET Names /\ \A m \in available : m.kind = "pool"
    <3>1. available \subseteq vms /\ available \subseteq PoolNames(call[t].pool)
      BY DEF PoolInstances
    <3>2. QED
      BY <3>1 DEF StateInv, PoolNames, PoolName
  <2>3. CallsFine'
    BY <1>3, <2>1, <2>2, Draining DEF DrainList, At
  <2>4. QED
    BY <1>3, <2>3 DEF DrainList, StateInv, RowsFit, env
<1>4. CASE DrainNext(t) /\ call[t].names = {}
  <2>1. CallsFine' /\ UNCHANGED vms
    BY <1>4, ReturnFine DEF DrainNext, StateInv
  <2>2. QED
    BY <1>4, <2>1 DEF DrainNext, StateInv, RowsFit, env
<1>5. CASE DrainNext(t) /\ call[t].names # {}
  <2>1. PICK m \in call[t].names :
          vms' \in {vms, vms \ {m}} /\ call' = [call EXCEPT ![t].names = @ \ {m}]
    BY <1>5 DEF DrainNext
  <2> DEFINE names == call[t].names \ {m}
  <2>2. names \in SUBSET Names /\ \A o \in names : o.kind = "pool"
    BY <1>1, <1>5 DEF DrainNext, At, Call, CarriesPool
  <2>3. call' = [call EXCEPT ![t].pc = "draining", ![t].names = names]
    <3>1. [call[t] EXCEPT !.names = names] = [call[t] EXCEPT !.pc = "draining", !.names = names]
      BY <1>1, <1>5 DEF DrainNext, At, Call
    <3>2. QED
      BY <2>1, <3>1
  <2> HIDE DEF names
  <2>4. CallsFine'
    BY <1>5, <2>2, <2>3, Draining DEF DrainNext, At
  <2>5. vms' \subseteq Names
    BY <2>1 DEF StateInv
  <2>6. QED
    BY <1>5, <2>4, <2>5 DEF DrainNext, StateInv, RowsFit, env
<1>6. QED
  BY <1>2, <1>3, <1>4, <1>5

LEMMA CrashesFine ==
    ASSUME StateInv, WebCrash \/ \E t \in Calls : CliCrash(t)
    PROVE  StateInv'
<1>1. crashes' \in 0..MaxCrashes
  BY Bounds DEF WebCrash, CliCrash, StateInv
<1>2. CallsFine'
  <2>1. CASE WebCrash
    BY <2>1, NoCallFine DEF WebCrash, StateInv, CallsFine, Fine
  <2>2. ASSUME NEW t \in Calls, CliCrash(t)
        PROVE  CallsFine'
    BY <2>2, ReturnFine DEF CliCrash, StateInv
  <2>3. QED
    BY <2>1, <2>2
<1>3. UNCHANGED <<rows, vms, results, clock, calls>>
  BY DEF WebCrash, CliCrash
<1>4. QED
  BY <1>1, <1>2, <1>3 DEF StateInv, RowsFit

LEMMA TickFine ==
    ASSUME StateInv, Tick
    PROVE  StateInv'
<1>1. clock' \in 0..MaxClock
  BY Bounds DEF Tick, StateInv
<1>2. QED
  BY <1>1 DEF Tick, StateInv, RowsFit, CallsFine

LEMMA InitFine == Init => StateInv
<1> SUFFICES ASSUME Init PROVE StateInv
  OBVIOUS
<1>1. RowsFit
  BY NoRowFits DEF Init, RowsFit
<1>2. CallsFine
  BY NoCallFine DEF Init, CallsFine, Fine
<1>3. QED
  BY <1>1, <1>2, PoolsWereFilled, Bounds DEF Init, StateInv, Names

LEMMA StepsFine ==
    ASSUME StateInv, [Next]_vars
    PROVE  StateInv'
<1>1. ASSUME NEW t \in Calls, Starts(t)
      PROVE  StateInv'
  BY <1>1, StartReadFine, OpenReadFine, EditReadFine, CheckReadFine, CompleteReadFine,
     EndReadFine, DrainCallFine, PrewarmCallFine DEF Starts
<1>2. ASSUME NEW t \in Calls, Steps(t)
      PROVE  StateInv'
  <2>1. CASE \/ TouchExisting(t) \/ Enqueue(t) \/ Allocate(t) \/ KeepMachine(t)
             \/ Finish(t) \/ TouchBeforeClaim(t) \/ SaveRow(t) \/ CheckSave(t)
             \/ GradedSave(t) \/ RecycleSave(t)
    BY <2>1, SavingStepsFine
  <2>2. CASE \/ InsertRow(t) \/ Provision(t) \/ Release(t) \/ ListClaimed(t) \/ PickPool(t)
             \/ Clone(t) \/ MachineFails(t) \/ GuestAnswers(t) \/ GuestSilent(t)
    BY <2>2, InsertRowFine, ProvisionFine, ReleaseFine, ListClaimedFine, PickPoolFine,
       CloneFine, MachineFailsFine, GuestFine
  <2>3. CASE \/ Grade(t) \/ Verdict(t) \/ RecordResult(t) \/ DestroyInstance(t)
             \/ DestroyedSave(t)
    BY <2>3, GradeFine, VerdictFine, RecordResultFine, DestroyInstanceFine, DestroyedSaveFine
  <2>4. CASE \/ ReapList(t) \/ StuckList(t) \/ RefillStatus(t)
             \/ \E s \in Sids : SweepNext(t, s) \/ StuckNext(t, s)
    BY <2>4, ReapListFine, StuckListFine, RefillStatusFine, SweepNextFine, StuckNextFine
  <2>5. CASE \/ \E sc \in Scenarios : PrewarmList(t, sc)
             \/ PrewarmClone(t) \/ PrewarmBooted(t) \/ PrewarmFails(t) \/ RefillDone(t)
             \/ DrainClaims(t) \/ DrainList(t) \/ DrainNext(t)
    BY <2>5, PrewarmListFine, PrewarmCloneFine, PrewarmBootedFine, PrewarmFailsFine,
       RefillDoneFine, DrainFine
  <2>6. QED
    BY <1>2, <2>1, <2>2, <2>3, <2>4, <2>5 DEF Steps
<1>3. CASE UNCHANGED vars
  BY <1>3 DEF vars, StateInv, RowsFit, CallsFine
<1>4. QED
  BY <1>1, <1>2, <1>3, CrashesFine, TickFine DEF Next

LEMMA StateInvariant == Spec => []StateInv
  BY InitFine, StepsFine, PTL DEF Spec

-----------------------------------------------------------------------------
(***************************************************************************)
(* The history of what calls read.                                         *)
(***************************************************************************)
HistoryFits ==
    /\ overtaken \in [Calls -> SUBSET Sids]
    /\ crossed \subseteq Sids
    /\ doubtful \subseteq Names

\* A step of a call adds sessions and machines there are.
LEMMA RememberFits ==
    ASSUME StateInv, HistoryFits, NEW t \in Calls, Remember(t)
    PROVE  HistoryFits'
<1>1. overtaken' \in [Calls -> SUBSET Sids]
  BY DEF Remember, Knows
<1>2. Careless(t) => call[t].sid \in Sids
  BY InHand DEF Careless, HistoryFits, At, RowPcs, StateInv
<1>3. call[t].row.instance \in Names \union {NoInstance}
  BY DEF StateInv, CallsFine, Call, Row
<1>4. Misjudged(t) \subseteq Names \union {NoInstance}
  BY <1>3 DEF Misjudged, StateInv
<1>5. QED
  BY <1>1, <1>2, <1>4 DEF Remember, HistoryFits

LEMMA HistoryStepsFit ==
    ASSUME StateInv, HistoryFits, [Next]_vars
    PROVE  HistoryFits'
<1>1. ASSUME Forget
      PROVE  HistoryFits'
  BY <1>1 DEF Forget, HistoryFits
<1>2. ASSUME UNCHANGED history
      PROVE  HistoryFits'
  BY <1>2 DEF history, HistoryFits
<1>3. QED
  BY <1>1, <1>2, RememberFits DEF Next, vars, history

LEMMA HistoryInvariant == Spec => []HistoryFits
<1>1. Init => HistoryFits
  BY DEF Init, HistoryFits
<1>2. QED
  BY <1>1, HistoryStepsFit, StateInvariant, PTL DEF Spec

-----------------------------------------------------------------------------
(***************************************************************************)
(* The calls of the server process use the lock as SessionLock has it.     *)
(***************************************************************************)

\* Every step of the manager is a step of its lock, or leaves the lock alone.
LEMMA LockSteps ==
    ASSUME StateInv, [Next]_vars
    PROVE  [LockProofs!LockNext]_(LockProofs!lockVars)
<1> USE DEF lock
<1>1. ASSUME NEW t \in Calls, Starts(t)
      PROVE  UNCHANGED lock
  BY <1>1 DEF Starts, StartRead, OpenRead, EditRead, CheckRead, CompleteRead, EndRead,
     ResetRead, DrainCall, PrewarmCall
<1>2. ASSUME NEW t \in Calls, Enqueue(t)
      PROVE  UNCHANGED lock \/ LockProofs!LockNext
  <2>1. call[t].sid \in Sids
    BY <1>2, InHand DEF Enqueue, At, RowPcs, StateInv
  <2>2. CASE t \in WebCalls
    <3>1. LockProofs!Request(t, call[t].sid)
      BY <1>2, <2>2 DEF Enqueue, Lock!Request, LockProofs!Request
    <3>2. QED
      BY <2>1, <2>2, <3>1 DEF LockProofs!LockNext
  <2>3. QED
    BY <1>2, <2>2 DEF Enqueue
<1>3. ASSUME NEW t \in Calls, Provision(t)
      PROVE  UNCHANGED lock \/ LockProofs!LockNext
  <2>1. CASE t \in WebCalls
    <3>1. LockProofs!Enter(t)
      BY <1>3, <2>1 DEF Provision, Lock!Enter, LockProofs!Enter, Lock!PreviousResolved,
         LockProofs!PreviousResolved, Lock!Links, LockProofs!Links
    <3>2. QED
      BY <2>1, <3>1 DEF LockProofs!LockNext
  <2>2. QED
    BY <1>3, <2>1 DEF Provision
<1>4. ASSUME NEW t \in Calls, Release(t) \/ Finish(t)
      PROVE  UNCHANGED lock \/ LockProofs!LockNext
  <2>1. Unlock(t)
    BY <1>4 DEF Release, Finish
  <2>2. CASE t \in WebCalls /\ call[t].op = "start"
    <3>1. LockProofs!Leave(t)
      BY <2>1, <2>2 DEF Unlock, Lock!Leave, LockProofs!Leave
    <3>2. QED
      BY <2>2, <3>1 DEF LockProofs!LockNext
  <2>3. QED
    BY <2>1, <2>2 DEF Unlock
<1>5. ASSUME NEW t \in Calls, Steps(t)
      PROVE  UNCHANGED lock \/ LockProofs!LockNext
  <2>1. CASE Enqueue(t) \/ Provision(t) \/ Release(t) \/ Finish(t)
    BY <1>2, <1>3, <1>4, <2>1
  <2>2. CASE \/ TouchExisting(t) \/ InsertRow(t) \/ Allocate(t) \/ ListClaimed(t)
             \/ PickPool(t) \/ KeepMachine(t) \/ Clone(t) \/ MachineFails(t)
             \/ GuestAnswers(t) \/ GuestSilent(t)
    BY <2>2 DEF TouchExisting, InsertRow, Allocate, ListClaimed, PickPool, KeepMachine,
       Clone, MachineFails, GuestAnswers, GuestSilent
  <2>3. CASE \/ TouchBeforeClaim(t) \/ SaveRow(t) \/ CheckSave(t) \/ Grade(t) \/ GradedSave(t)
             \/ Verdict(t) \/ RecordResult(t) \/ RecycleSave(t) \/ DestroyInstance(t)
             \/ DestroyedSave(t)
    BY <2>3 DEF TouchBeforeClaim, SaveRow, CheckSave, Grade, GradedSave, Verdict,
       RecordResult, RecycleSave, DestroyInstance, DestroyedSave
  <2>4. CASE \/ ReapList(t) \/ StuckList(t) \/ RefillStatus(t)
             \/ \E s \in Sids : SweepNext(t, s) \/ StuckNext(t, s)
             \/ \E sc \in Scenarios : PrewarmList(t, sc)
    BY <2>4 DEF ReapList, StuckList, RefillStatus, SweepNext, StuckNext, PrewarmList
  <2>5. CASE \/ PrewarmClone(t) \/ PrewarmBooted(t) \/ PrewarmFails(t) \/ RefillDone(t)
             \/ DrainClaims(t) \/ DrainList(t) \/ DrainNext(t)
    BY <2>5 DEF PrewarmClone, PrewarmBooted, PrewarmFails, RefillDone, DrainClaims,
       DrainList, DrainNext
  <2>6. QED
    BY <1>5, <2>1, <2>2, <2>3, <2>4, <2>5 DEF Steps
<1>6. CASE WebCrash
  BY <1>6 DEF WebCrash, Lock!Restart, LockProofs!Restart, LockProofs!LockNext
<1>7. CASE Tick \/ (\E t \in Calls : CliCrash(t)) \/ UNCHANGED vars
  BY <1>7 DEF Tick, CliCrash, vars, LockProofs!lockVars
<1>8. QED
  BY <1>1, <1>5, <1>6, <1>7 DEF Next, LockProofs!lockVars

LEMMA LockIsUsed == Spec => LockProofs!LockSpec
<1>1. Init => LockProofs!LockInit
  BY DEF Init, Lock!LockInit, LockProofs!LockInit
<1>2. StateInv /\ [Next]_vars => [LockProofs!LockNext]_(LockProofs!lockVars)
  BY LockSteps
<1>3. QED
  BY <1>1, <1>2, StateInvariant, PTL DEF Spec, LockProofs!LockSpec

\* What is proved of the lock therefore holds of the manager's.
LEMMA LockProved ==
    Spec => [](LockProofs!LockTypeOK) /\ [](LockProofs!MutualExclusion)
<1>1. MaxCalls \in Nat
  BY Bounds
<1>2. LockProofs!LockSpec => [](LockProofs!LockTypeOK)
  BY <1>1, LockProofs!LockTypeCorrect
<1>3. LockProofs!LockSpec => [](LockProofs!MutualExclusion)
  BY <1>1, LockProofs!LockExcludes
<1>4. QED
  BY <1>2, <1>3, LockIsUsed, PTL

-----------------------------------------------------------------------------
(***************************************************************************)
(* Results                                                                 *)
(***************************************************************************)

(***************************************************************************)
(* The table, the hypervisor, the calls' copies and the lock keep their    *)
(* types: a session in hand is one of the table's, a name put on a row is  *)
(* one of the range's, and no deadline or count leaves its bound.          *)
(***************************************************************************)
THEOREM SessionsTypeCorrect == Spec => []TypeOK
<1>1. StateInv /\ HistoryFits /\ LockProofs!LockTypeOK => TypeOK
  BY DEF StateInv, HistoryFits, RowsFit, CallsFine, TypeOK, LockProofs!LockTypeOK,
     Lock!LockTypeOK, LockProofs!Links, Lock!Links
<1>2. QED
  BY <1>1, StateInvariant, HistoryInvariant, LockProved, PTL

(***************************************************************************)
(* "One lock per session, so two callers cannot provision the same session *)
(* twice": the calls of the server process that are between the re-read    *)
(* and the last save of provision hold the lock of their session.          *)
(***************************************************************************)

\* A step of one call that leaves the lock alone and does not begin to build.
LEMMA HoldsOn ==
    ASSUME LockHeld, NEW t \in Calls, \A d \in Calls \ {t} : call'[d] = call[d],
           UNCHANGED lock, call'[t].pc # "queued",
           Holding(call'[t]) => Holding(call[t]) /\ call'[t].sid = call[t].sid
    PROVE  LockHeld'
<1>1. WebCalls \subseteq Calls /\ lockAt' = lockAt /\ lockKey' = lockKey
  BY DEF Calls, lock
<1>2. ASSUME NEW d \in WebCalls
      PROVE  /\ Holding(call'[d]) => lockAt'[d] = "working" /\ lockKey'[d] = call'[d].sid
             /\ call'[d].pc = "queued" => lockAt'[d] = "waiting" /\ lockKey'[d] = call'[d].sid
  <2>1. CASE d = t
    BY <1>1, <2>1 DEF LockHeld
  <2>2. CASE d # t
    BY <1>1, <2>2 DEF LockHeld
  <2>3. QED
    BY <2>1, <2>2
<1>3. QED
  BY <1>2 DEF LockHeld, Holding

LEMMA BuildersHoldOn ==
    ASSUME StateInv, LockHeld, NEW t \in Calls,
           \/ Allocate(t) \/ ListClaimed(t) \/ PickPool(t) \/ KeepMachine(t) \/ Clone(t)
           \/ MachineFails(t) \/ GuestAnswers(t) \/ GuestSilent(t)
    PROVE  LockHeld'
<1>1. call \in [Calls -> Call] /\ call[t] \in Call
  BY DEF StateInv, CallsFine
<1>2. /\ call'[t].op = call[t].op /\ call'[t].sid = call[t].sid /\ call'[t].pc # "queued"
      /\ call[t].pc \in ProvisionPcs
      /\ \A d \in Calls \ {t} : call'[d] = call[d]
      /\ UNCHANGED lock
  <2> USE <1>1 DEF At, Go, Become, Call, ProvisionPcs
  <2>1. CASE Allocate(t) \/ KeepMachine(t)
    BY <2>1 DEF Allocate, KeepMachine
  <2>2. CASE ListClaimed(t)
    BY <2>2 DEF ListClaimed
  <2>3. CASE PickPool(t)
    <3>1. PICK available :
            call' = [call EXCEPT ![t].names = {},
                        ![t].pc = IF available = {} THEN "clone" ELSE "claimed",
                        ![t].row = IF available = {} THEN @
                                   ELSE [@ EXCEPT !.instance = Lowest(available),
                                                  !.state = "provisioning"]]
      BY <2>3 DEF PickPool
    <3>2. /\ call'[t].op = call[t].op /\ call'[t].sid = call[t].sid
          /\ \A d \in Calls \ {t} : call'[d] = call[d]
      BY <3>1
    <3>3. call'[t].pc = IF available = {} THEN "clone" ELSE "claimed"
      BY <3>1
    <3>4. QED
      BY <2>3, <3>2, <3>3 DEF PickPool
  <2>4. CASE Clone(t)
    BY <2>4 DEF Clone
  <2>5. CASE MachineFails(t)
    BY <2>5 DEF MachineFails
  <2>6. CASE GuestAnswers(t) \/ GuestSilent(t)
    BY <2>6 DEF GuestAnswers, GuestSilent
  <2>7. QED
    BY <2>1, <2>2, <2>3, <2>4, <2>5, <2>6
<1>3. QED
  BY <1>2, HoldsOn DEF Holding

LEMMA LockStepsHold ==
    ASSUME StateInv, LockHeld, LockProofs!LockTypeOK, NEW t \in Calls,
           Enqueue(t) \/ Provision(t) \/ Release(t) \/ Finish(t)
    PROVE  LockHeld'
<1>1. call \in [Calls -> Call] /\ call[t] \in Call
  BY DEF StateInv, CallsFine
<1>2. lockAt \in [WebCalls -> {"out", "waiting", "working"}] /\ lockKey \in [WebCalls -> Sids]
  BY DEF LockProofs!LockTypeOK
<1>3. \A d \in Calls \ {t} : call'[d] = call[d]
  BY <1>1 DEF Enqueue, Provision, Release, Finish, Go, Become, Return
<1>4. \A d \in WebCalls \ {t} : lockAt'[d] = lockAt[d] /\ lockKey'[d] = lockKey[d]
  BY <1>2 DEF Enqueue, Provision, Release, Finish, Unlock, lock, Lock!Request, Lock!Enter,
     Lock!Leave
<1>5. ASSUME t \in WebCalls
      PROVE  /\ Holding(call'[t]) => lockAt'[t] = "working" /\ lockKey'[t] = call'[t].sid
             /\ call'[t].pc = "queued" => lockAt'[t] = "waiting" /\ lockKey'[t] = call'[t].sid
  <2>1. CASE Enqueue(t)
    <3>1. call'[t].pc = "queued" /\ call'[t].sid = call[t].sid
      BY <1>1, <2>1 DEF Enqueue, Go, Call
    <3>2. lockAt'[t] = "waiting" /\ lockKey'[t] = call[t].sid
      BY <1>2, <1>5, <2>1 DEF Enqueue, Lock!Request
    <3>3. QED
      BY <3>1, <3>2 DEF Holding, ProvisionPcs
  <2>2. CASE Provision(t)
    <3>1. call'[t].sid = call[t].sid /\ call'[t].pc # "queued" /\ call[t].pc = "queued"
      BY <1>1, <2>2 DEF Provision, Become, At, Call
    <3>2. lockAt'[t] = "working" /\ lockKey'[t] = lockKey[t]
      BY <1>2, <1>5, <2>2 DEF Provision, Lock!Enter
    <3>3. QED
      BY <1>5, <3>1, <3>2 DEF LockHeld
  <2>3. CASE Release(t) \/ Finish(t)
    <3>1. call'[t].op = "none" /\ call'[t].pc = "idle"
      BY <1>1, <2>3 DEF Release, Finish, Return, NoCall
    <3>2. QED
      BY <3>1 DEF Holding
  <2>4. QED
    BY <2>1, <2>2, <2>3
<1>6. WebCalls \subseteq Calls
  BY DEF Calls
<1>7. ASSUME NEW d \in WebCalls, d # t
      PROVE  /\ Holding(call'[d]) => lockAt'[d] = "working" /\ lockKey'[d] = call'[d].sid
             /\ call'[d].pc = "queued" => lockAt'[d] = "waiting" /\ lockKey'[d] = call'[d].sid
  BY <1>3, <1>4, <1>6, <1>7 DEF LockHeld
<1>8. QED
  BY <1>5, <1>7 DEF LockHeld, Holding

\* Where a call stands that is not in provision.
LEMMA OthersHoldOn ==
    ASSUME StateInv, LockHeld, NEW t \in Calls, UNCHANGED lock,
           \A d \in Calls \ {t} : call'[d] = call[d],
           call'[t].pc \notin ProvisionPcs \union {"release", "queued"}
    PROVE  LockHeld'
  BY HoldsOn DEF Holding

LEMMA StartsHoldOn ==
    ASSUME StateInv, LockHeld, NEW t \in Calls, Starts(t)
    PROVE  LockHeld'
<1>1. call \in [Calls -> Call]
  BY DEF StateInv, CallsFine
<1>2. ASSUME NEW c, Begin(t, c), UNCHANGED lock,
             c.pc \notin ProvisionPcs \union {"release", "queued"}
      PROVE  LockHeld'
  <2>1. call'[t] = c /\ \A d \in Calls \ {t} : call'[d] = call[d]
    BY <1>1, <1>2 DEF Begin
  <2>2. QED
    BY <1>2, <2>1, OthersHoldOn
<1>3. ASSUME NEW op, NEW pc, NEW s, NEW row, Begin(t, On(op, pc, s, row)), UNCHANGED lock,
             pc \notin ProvisionPcs \union {"release", "queued"}
      PROVE  LockHeld'
  <2>1. On(op, pc, s, row).pc = pc
    BY DEF On, NoCall
  <2>2. QED
    BY <1>2, <1>3, <2>1
<1>4. ASSUME NEW s, NEW row, UNCHANGED lock,
             Begin(t, [On("complete", "verdict", s, row) EXCEPT !.report = "error"])
      PROVE  LockHeld'
  <2>1. [On("complete", "verdict", s, row) EXCEPT !.report = "error"].pc = "verdict"
    BY DEF On, NoCall
  <2>2. QED
    BY <1>2, <1>4, <2>1 DEF ProvisionPcs
<1>5. ASSUME NEW u \in Students, NEW sc \in Scenarios, StartRead(t, u, sc)
      PROVE  LockHeld'
  BY <1>3, <1>5 DEF StartRead, ProvisionPcs
<1>6. ASSUME NEW s \in Sids, OpenRead(t, s)
      PROVE  LockHeld'
  <2> DEFINE pc == IF rows[s].state = "ready" THEN "claimforuse" ELSE "save"
             row == [rows[s] EXCEPT !.state = IF @ = "ready" THEN "in_use" ELSE @]
  <2>1. Begin(t, On("open", pc, s, row)) /\ UNCHANGED lock
    BY <1>6 DEF OpenRead
  <2>2. pc \notin ProvisionPcs \union {"release", "queued"}
    BY DEF ProvisionPcs
  <2> HIDE DEF pc, row
  <2>3. QED
    BY <1>3, <2>1, <2>2
<1>7. ASSUME NEW s \in Sids,
             EditRead(t, s) \/ CheckRead(t, s) \/ EndRead(t, s) \/ ResetRead(t, s)
      PROVE  LockHeld'
  BY <1>3, <1>7 DEF EditRead, CheckRead, EndRead, ResetRead, ProvisionPcs
<1>8. ASSUME NEW s \in Sids, CompleteRead(t, s)
      PROVE  LockHeld'
  BY <1>3, <1>4, <1>8 DEF CompleteRead, ProvisionPcs
<1>9. ASSUME NEW sc \in Scenarios, DrainCall(t, sc)
      PROVE  LockHeld'
  <2>1. [NoCall EXCEPT !.op = "drain", !.pc = "drain", !.pool = sc].pc = "drain"
    BY DEF NoCall
  <2>2. QED
    BY <1>2, <1>9, <2>1 DEF DrainCall, ProvisionPcs
<1>10. ASSUME NEW sc \in Scenarios, NEW n \in 1..MaxIndex, PrewarmCall(t, sc, n)
       PROVE  LockHeld'
  <2>1. [NoCall EXCEPT !.op = "prewarm", !.pc = "refill", !.want[sc] = n].pc = "refill"
    BY DEF NoCall
  <2>2. QED
    BY <1>2, <1>10, <2>1 DEF PrewarmCall, ProvisionPcs
<1>11. QED
  BY <1>5, <1>6, <1>7, <1>8, <1>9, <1>10 DEF Starts

LEMMA OtherStepsHoldOn ==
    ASSUME StateInv, LockHeld, NEW t \in Calls,
           \/ TouchExisting(t) \/ InsertRow(t) \/ TouchBeforeClaim(t) \/ SaveRow(t)
           \/ CheckSave(t) \/ Grade(t) \/ GradedSave(t) \/ Verdict(t) \/ RecordResult(t)
           \/ RecycleSave(t) \/ DestroyInstance(t)
    PROVE  LockHeld'
<1>1. call \in [Calls -> Call] /\ call[t] \in Call
  BY DEF StateInv, CallsFine
<1>2. \A d \in Calls \ {t} : call'[d] = call[d]
  <2> USE DEF Go, Become, Return
  <2>1. CASE TouchExisting(t) \/ TouchBeforeClaim(t) \/ SaveRow(t) \/ CheckSave(t)
             \/ GradedSave(t) \/ RecordResult(t) \/ RecycleSave(t) \/ DestroyInstance(t)
    BY <1>1, <2>1 DEF TouchExisting, TouchBeforeClaim, SaveRow, CheckSave, GradedSave,
       RecordResult, RecycleSave, DestroyInstance
  <2>2. CASE InsertRow(t)
    BY <1>1, <2>2 DEF InsertRow
  <2>3. CASE Grade(t)
    BY <1>1, <2>3 DEF Grade
  <2>4. CASE Verdict(t)
    BY <1>1, <2>4 DEF Verdict
  <2>5. QED
    BY <2>1, <2>2, <2>3, <2>4
<1>3. call'[t].pc \in {"idle", "handoff", "save", "grade", "graded", "verdict", "record",
                       "destroy", "destroyed"}
  <2> USE DEF Go, Become, Return, NoCall, Call
  <2>1. CASE TouchExisting(t) \/ TouchBeforeClaim(t) \/ SaveRow(t) \/ CheckSave(t)
             \/ GradedSave(t) \/ RecordResult(t) \/ RecycleSave(t) \/ DestroyInstance(t)
    BY <1>1, <2>1 DEF TouchExisting, TouchBeforeClaim, SaveRow, CheckSave, GradedSave,
       RecordResult, RecycleSave, DestroyInstance
  <2>2. CASE InsertRow(t)
    <3> DEFINE s == CHOOSE i \in Unused : \A j \in Unused : i <= j
               row == [call[t].row EXCEPT !.created = clock, !.expires = Later(clock)]
    <3>1. \/ Return(t)
          \/ call' = [call EXCEPT ![t].pc = "handoff", ![t].sid = s, ![t].row = row]
      BY <2>2 DEF InsertRow
    <3> HIDE DEF s, row
    <3>2. QED
      BY <1>1, <3>1
  <2>3. CASE Grade(t)
    BY <1>1, <2>3 DEF Grade
  <2>4. CASE Verdict(t)
    <3>1. \E row : Become(t, "record", row)
      BY <2>4 DEF Verdict
    <3>2. QED
      BY <1>1, <3>1
  <2>5. QED
    BY <2>1, <2>2, <2>3, <2>4
<1>4. UNCHANGED lock
  BY DEF TouchExisting, InsertRow, TouchBeforeClaim, SaveRow, CheckSave, Grade, GradedSave,
     Verdict, RecordResult, RecycleSave, DestroyInstance
<1>5. QED
  BY <1>2, <1>3, <1>4, OthersHoldOn DEF ProvisionPcs

LEMMA DestroyedSaveHoldsOn ==
    ASSUME StateInv, LockHeld, NEW t \in Calls, DestroyedSave(t)
    PROVE  LockHeld'
<1>1. call \in [Calls -> Call] /\ call[t] \in Call
  BY DEF StateInv, CallsFine
<1>2. UNCHANGED lock
  BY DEF DestroyedSave
<1>3. CASE call[t].op = "reset"
  <2>1. Go(t, "claim")
    BY <1>3 DEF DestroyedSave
  <2>2. /\ call'[t].op = "reset" /\ call'[t].pc = "claim"
        /\ \A d \in Calls \ {t} : call'[d] = call[d]
    BY <1>1, <1>3, <2>1 DEF Go, Call
  <2>3. QED
    BY <1>2, <2>2, HoldsOn DEF Holding
<1>4. CASE call[t].op = "reap"
  <2> DEFINE pc == IF call[t].row.state = "error" THEN "stuck" ELSE "sweep"
  <2>1. call' = [call EXCEPT ![t].row = NoRow, ![t].sid = 0, ![t].pc = pc]
    BY <1>4 DEF DestroyedSave
  <2>2. pc \in {"stuck", "sweep"}
    OBVIOUS
  <2> HIDE DEF pc
  <2>3. call'[t].pc = pc /\ \A d \in Calls \ {t} : call'[d] = call[d]
    BY <1>1, <2>1 DEF Call
  <2>4. QED
    BY <1>2, <2>2, <2>3, OthersHoldOn DEF ProvisionPcs
<1>5. CASE call[t].op \notin {"reset", "reap"}
  <2>1. Return(t)
    BY <1>5 DEF DestroyedSave
  <2>2. call'[t].pc = "idle" /\ \A d \in Calls \ {t} : call'[d] = call[d]
    BY <1>1, <2>1 DEF Return, NoCall
  <2>3. QED
    BY <1>2, <2>2, OthersHoldOn DEF ProvisionPcs
<1>6. QED
  BY <1>3, <1>4, <1>5

LEMMA MaintenanceHoldsOn ==
    ASSUME StateInv, LockHeld, NEW t \in Calls,
           \/ ReapList(t) \/ StuckList(t) \/ RefillStatus(t)
           \/ \E s \in Sids : SweepNext(t, s) \/ StuckNext(t, s)
           \/ \E sc \in Scenarios : PrewarmList(t, sc)
           \/ PrewarmClone(t) \/ PrewarmBooted(t) \/ PrewarmFails(t) \/ RefillDone(t)
           \/ DrainClaims(t) \/ DrainList(t) \/ DrainNext(t)
    PROVE  LockHeld'
<1>1. call \in [Calls -> Call] /\ call[t] \in Call
  BY DEF StateInv, CallsFine
<1> DEFINE Settled == /\ call'[t].pc \notin ProvisionPcs \union {"release", "queued"}
                      /\ \A d \in Calls \ {t} : call'[d] = call[d]
                      /\ UNCHANGED lock
<1> USE <1>1 DEF Go, Return, NoCall, Call, ProvisionPcs
<1>2. ASSUME ReapList(t)
      PROVE  Settled
  BY <1>2 DEF ReapList
<1>3. ASSUME StuckList(t)
      PROVE  Settled
  BY <1>3 DEF StuckList
<1>4. ASSUME RefillStatus(t)
      PROVE  Settled
  BY <1>4 DEF RefillStatus
<1>5. ASSUME NEW s \in Sids, SweepNext(t, s)
      PROVE  Settled
  <2>1. call[t].pc = "sweep"
    BY <1>5 DEF SweepNext, At
  <2> DEFINE row == [call[t].snap[s] EXCEPT !.state = "recycling"]
  <2>2. \/ call' = [call EXCEPT ![t].pc = "recycle", ![t].sid = s, ![t].row = row,
                                ![t].snap[s] = NoRow]
        \/ call' = [call EXCEPT ![t].snap[s] = NoRow]
    BY <1>5 DEF SweepNext
  <2> HIDE DEF row
  <2>3. call'[t].pc \in {"recycle", "sweep"} /\ \A d \in Calls \ {t} : call'[d] = call[d]
    BY <2>1, <2>2
  <2>4. QED
    BY <1>5, <2>3 DEF SweepNext
<1>6. ASSUME NEW s \in Sids, StuckNext(t, s)
      PROVE  Settled
  <2>1. call[t].pc = "stuck"
    BY <1>6 DEF StuckNext, At
  <2> DEFINE row == call[t].snap[s]
  <2>2. \/ call' = [call EXCEPT ![t].pc = "destroy", ![t].sid = s, ![t].row = row,
                                ![t].snap[s] = NoRow]
        \/ call' = [call EXCEPT ![t].snap[s] = NoRow]
    BY <1>6 DEF StuckNext
  <2> HIDE DEF row
  <2>3. call'[t].pc \in {"destroy", "stuck"} /\ \A d \in Calls \ {t} : call'[d] = call[d]
    BY <2>1, <2>2
  <2>4. QED
    BY <1>6, <2>3 DEF StuckNext
<1>7. ASSUME NEW sc \in Scenarios, PrewarmList(t, sc)
      PROVE  Settled
  <2> DEFINE count == IF call[t].want[sc] < Budget THEN call[t].want[sc] ELSE Budget
             next == NextPoolIndex(sc)
  <2>1. call' = [call EXCEPT ![t].pc = IF count = 0 THEN "refill" ELSE "prewarm",
                        ![t].pool = IF count = 0 THEN @ ELSE sc,
                        ![t].want[sc] = count, ![t].index = next]
    BY <1>7 DEF PrewarmList
  <2> HIDE DEF count, next
  <2>2. call'[t].pc = IF count = 0 THEN "refill" ELSE "prewarm"
    BY <2>1
  <2>3. QED
    BY <1>7, <2>1, <2>2 DEF PrewarmList
<1>8. ASSUME PrewarmClone(t) \/ RefillDone(t)
      PROVE  Settled
  BY <1>8 DEF PrewarmClone, RefillDone
<1>9. ASSUME PrewarmBooted(t)
      PROVE  Settled
  <2> DEFINE left == call[t].want[call[t].pool] - 1
  <2>1. call' = [call EXCEPT ![t].want[call[t].pool] = left,
                        ![t].pc = IF left = 0 THEN "refill" ELSE "prewarm",
                        ![t].pool = IF left = 0 THEN Nobody ELSE @,
                        ![t].index = IF left = 0 THEN 0 ELSE @ + 1]
    BY <1>9 DEF PrewarmBooted
  <2> HIDE DEF left
  <2>2. call'[t].pc = IF left = 0 THEN "refill" ELSE "prewarm"
    BY <2>1
  <2>3. QED
    BY <1>9, <2>1, <2>2 DEF PrewarmBooted
<1>10. ASSUME PrewarmFails(t)
       PROVE  Settled
  BY <1>10 DEF PrewarmFails
<1>11. ASSUME DrainClaims(t) \/ DrainList(t)
       PROVE  Settled
  BY <1>11 DEF DrainClaims, DrainList
<1>12. ASSUME DrainNext(t)
       PROVE  Settled
  <2>1. call[t].pc = "draining"
    BY <1>12 DEF DrainNext, At
  <2>2. QED
    BY <1>12, <2>1 DEF DrainNext
<1>13. QED
  <2>1. Settled
    BY <1>2, <1>3, <1>4, <1>5, <1>6, <1>7, <1>8, <1>9, <1>10, <1>11, <1>12
  <2>2. QED
    BY <2>1, OthersHoldOn

LEMMA LockStaysHeld ==
    ASSUME StateInv, LockProofs!LockTypeOK, LockHeld, [Next]_vars
    PROVE  LockHeld'
<1>1. ASSUME NEW t \in Calls, Steps(t)
      PROVE  LockHeld'
  BY <1>1, BuildersHoldOn, LockStepsHold, OtherStepsHoldOn, DestroyedSaveHoldsOn,
     MaintenanceHoldsOn DEF Steps
<1>2. CASE WebCrash
  <2>1. \A t \in WebCalls : call'[t] = NoCall
    BY <1>2 DEF WebCrash, Calls
  <2>2. QED
    BY <2>1 DEF LockHeld, Holding, NoCall
<1>3. ASSUME NEW t \in Calls, CliCrash(t)
      PROVE  LockHeld'
  <2>1. /\ call'[t].pc = "idle" /\ \A d \in Calls \ {t} : call'[d] = call[d]
        /\ UNCHANGED lock
    BY <1>3 DEF CliCrash, Return, NoCall, StateInv, CallsFine
  <2>2. QED
    BY <2>1, OthersHoldOn DEF ProvisionPcs
<1>4. CASE Tick \/ UNCHANGED vars
  BY <1>4 DEF Tick, vars, lock, LockHeld, Holding
<1>5. QED
  BY <1>1, <1>2, <1>3, <1>4, StartsHoldOn DEF Next

LEMMA LockHeldInvariant == Spec => []LockHeld
<1>1. Init => LockHeld
  BY DEF Init, LockHeld, Holding, NoCall, Calls
<1>2. QED
  BY <1>1, LockStaysHeld, StateInvariant, LockProved, PTL DEF Spec

\* Two builders of one session would both be at work under its lock.
THEOREM OneBuilderIsKept == Spec => []OneBuilderPerProcess
<1>1. LockHeld /\ LockProofs!MutualExclusion => OneBuilderPerProcess
  BY DEF LockHeld, Holding, LockProofs!MutualExclusion, OneBuilderPerProcess, Provisioning
<1>2. QED
  BY <1>1, LockHeldInvariant, LockProved, PTL

-----------------------------------------------------------------------------
\* What a call looks like that begins with a row in hand.
LEMMA OnIs ==
    ASSUME NEW op, NEW pc, NEW s, NEW row
    PROVE  /\ On(op, pc, s, row).op = op /\ On(op, pc, s, row).pc = pc
           /\ On(op, pc, s, row).sid = s /\ On(op, pc, s, row).row = row
           /\ \A i \in Sids : On(op, pc, s, row).snap[i] = NoRow
  BY DEF On, NoCall

-----------------------------------------------------------------------------
(***************************************************************************)
(* What calls read, and whether it still holds.                            *)
(*                                                                         *)
(* A call acts upon what it read: its copy of a row, a listing, the        *)
(* claims.  Unless another call has overtaken that reading, it is still    *)
(* so when the call acts: its copy lacks only what it is about to write    *)
(* itself, a listed row is the table's, and the claims it read are the     *)
(* claims.  That is what makes the table true of the machines, and the     *)
(* saves of one call safe for the others; what a call does on the strength *)
(* of a reading that was overtaken goes into crossed and doubtful.         *)
(***************************************************************************)
Over(row) == row.state \in TerminalStates

BuildPcs == ProvisionPcs \ {"finish"}

\* Call t goes on as c.
Moves(t, c) == call' = [call EXCEPT ![t] = c]

\* What a call carries, whatever the others do.
Shape(c) ==
    /\ c.sid # 0 =>
        /\ Over(c.row) => c.pc \in {"release", "save", "finish", "destroyed"}
        /\ c.pc = "destroyed" /\ c.op = "reset" => ~Over(c.row)
        /\ c.pc = "recycle" => c.row.state = "recycling"
        /\ c.pc \in {"check", "record", "destroy", "destroyed"} \union BuildPcs =>
                c.row.state # "ready"
        /\ c.pc = "cloned" => c.row.instance.kind = "session"
        /\ c.pc \in {"verdict", "record"} => c.op = "complete"
        /\ c.op = "complete" /\ c.pc \in {"check", "grade", "graded", "verdict"} =>
                ~c.row.completed
        /\ c.pc = "record" => c.row.completed
        /\ c.row.state = "ready" => c.row.instance # NoInstance
    /\ c.pc = "insert" =>
            /\ c.op = "start"
            /\ c.row.state = "requested" /\ c.row.instance = NoInstance /\ ~c.row.completed
    /\ c.pc = "sweep" => c.op = "reap"

\* The sweep's listing, which from the second half of the sweep on is one of half
\* built sessions.
SecondHalf(c) ==
    \/ c.pc = "stuck"
    \/ c.pc = "destroy" /\ c.row.state # "recycling"
    \/ c.pc = "destroyed" /\ c.row.state = "error"

Lists(c) ==
    \A s \in Sids :
        /\ c.op # "reap" \/ c.pc = "idle" => c.snap[s] = NoRow
        /\ c.snap[s] # NoRow =>
            /\ s # c.sid /\ c.snap[s].state \in Watched \union Building
            /\ SecondHalf(c) => c.snap[s].state \in Building

\* The session in hand is as the call read it; `gone` are the sessions that are not.
Held(c, gone) == c.sid \in Knows(c) \ gone

\* What a call read of the session in hand, unless it was overtaken; `table` are the
\* rows and `kept` the machines that are there, or doubtful.
CopyHolds(c, gone, table, kept) ==
    Held(c, gone) =>
        /\ (c.row.completed <=> table[c.sid].completed)
        /\ c.pc \notin {"claimed", "cloned"} =>
                c.row.instance \in {table[c.sid].instance, NoInstance}
        /\ Over(table[c.sid]) /\ ~Over(c.row) => c.pc = "check" /\ c.op = "check"
        /\ c.pc \in {"record", "destroy", "destroyed"} => table[c.sid].state # "ready"
        /\ c.row.state = "ready" => c.row.instance \in kept

\* What it read of other sessions: the listing, and the claims.
ListHolds(c, gone, table) ==
    \A s \in Sids \ gone : c.snap[s] # NoRow => c.snap[s] = table[s]

ClaimsHold(c, gone, table) ==
    \A s \in Sids \ gone :
        ~Over(table[s]) /\ table[s].instance # NoInstance =>
            /\ c.pc \in {"listed", "drainlist"} => table[s].instance \in c.names
            /\ c.pc = "draining" => table[s].instance \notin c.names
            /\ c.pc = "claimed" => table[s].instance # c.row.instance

Holds(c, gone, table, kept) ==
    CopyHolds(c, gone, table, kept) /\ ListHolds(c, gone, table) /\ ClaimsHold(c, gone, table)

\* Results, and the calls about to store one.
Recording(c, s) == c.pc = "record" /\ c.sid = s

Counted ==
    \A s \in Sids \ crossed :
        /\ results[s] <= 1 /\ (results[s] = 1 => rows[s].completed)
        /\ \A t \in Calls : Recording(call[t], s) =>
                /\ results[s] = 0 /\ rows[s].completed
                /\ \A d \in Calls \ {t} : ~Recording(call[d], s)

MachinesApart ==
    /\ ExclusiveMachine
    /\ \A s \in Sids : rows[s].state = "ready" => rows[s].instance \in vms \union doubtful

ReadInv ==
    /\ Counted
    /\ MachinesApart
    /\ \A t \in Calls :
        /\ Shape(call[t]) /\ Lists(call[t])
        /\ Holds(call[t], overtaken[t], rows, vms \union doubtful)

Inv == StateInv /\ HistoryFits /\ ReadInv

\* A machine that a step of call t takes is on no session that is not over, but the
\* one the call destroys it for.
TakesOwn(t) ==
    \A m \in vms \ vms', s \in Sids :
        m \notin doubtful' /\ ~Over(rows[s]) /\ rows[s].instance = m =>
            At(t, "destroy") /\ s = call[t].sid /\ rows[s].state # "ready"

\* No session comes back from a final state, but by a careless write.
StaysOver == \A s \in Sids \ crossed' : Over(rows[s]) => Over(rows'[s])

\* What a call at rest carries contradicts nothing.
LEMMA RestIsFine ==
    /\ NoCall.pc = "idle" /\ NoCall.sid = 0 /\ \A s \in Sids : NoCall.snap[s] = NoRow
    /\ Shape(NoCall) /\ Lists(NoCall)
    /\ \A gone, table, kept : Holds(NoCall, gone, table, kept)
<1>1. NoCall.pc = "idle" /\ NoCall.sid = 0 /\ \A s \in Sids : NoCall.snap[s] = NoRow
  BY DEF NoCall
<1>2. Shape(NoCall) /\ Lists(NoCall)
  BY <1>1 DEF Shape, Lists
<1>3. \A gone, table, kept : CopyHolds(NoCall, gone, table, kept)
  BY <1>1 DEF CopyHolds, Held, Knows, Sids
<1>4. \A gone, table : ListHolds(NoCall, gone, table) /\ ClaimsHold(NoCall, gone, table)
  BY <1>1 DEF ListHolds, ClaimsHold
<1>5. QED
  BY <1>1, <1>2, <1>3, <1>4 DEF Holds

\* What a call may know: the session in hand, but while its row waits to be read
\* again, the listed ones, and with the claims in hand all of them.
LEMMA KnowsOf ==
    ASSUME NEW c, Fine(c), NEW s \in Sids
    PROVE  s \in Knows(c) <=>
                \/ s = c.sid /\ c.pc \notin {"handoff", "queued"}
                \/ c.snap[s] # NoRow
                \/ c.pc \in {"listed", "claimed", "drainlist", "draining"}
<1>1. c.snap[s] = NoRow \/ c.snap[s].state # "absent"
  BY DEF Fine, CarriesListing, Fit
<1>2. NoRow.state = "absent"
  BY DEF NoRow
<1>3. c.snap[s].state # "absent" <=> c.snap[s] # NoRow
  BY <1>1, <1>2
<1>4. QED
  BY <1>3 DEF Knows

\* What a step of call t leaves for call d to hold.
LEMMA OthersKnow ==
    ASSUME HistoryFits, NEW t \in Calls, Remember(t), NEW d \in Calls \ {t},
           call'[d] = call[d], NEW s \in Knows(call[d]) \ overtaken'[d]
    PROVE  /\ s \in Sids /\ s \notin overtaken[d] /\ rows'[s] = rows[s]
           /\ At(t, "destroy") /\ s = call[t].sid => vms' = vms
<1>1. overtaken'[d] = (overtaken[d] \union Changed(t)) \intersect Knows(call[d])
  BY DEF Remember
<1>2. s \in Sids
  BY DEF Knows
<1>3. QED
  BY <1>1, <1>2 DEF Changed

LEMMA OthersHold ==
    ASSUME Inv, NEW t \in Calls, Remember(t), NEW d \in Calls \ {t},
           call'[d] = call[d], TakesOwn(t)
    PROVE  Holds(call[d], overtaken'[d], rows', vms' \union doubtful')
<1>1. PICK c, old, gone : c = call[d] /\ old = overtaken[d] /\ gone = overtaken'[d]
  OBVIOUS
<1>2. /\ Holds(c, old, rows, vms \union doubtful) /\ Shape(c) /\ Fine(c)
      /\ doubtful \subseteq doubtful'
  BY <1>1 DEF Inv, ReadInv, StateInv, CallsFine, Remember
<1>3. ASSUME NEW s \in Knows(c) \ gone
      PROVE  /\ s \in Sids /\ s \notin old /\ rows'[s] = rows[s]
             /\ At(t, "destroy") /\ s = call[t].sid => vms' = vms
  BY <1>1, <1>3, OthersKnow DEF Inv
<1>4. CopyHolds(c, gone, rows', vms' \union doubtful')
  <2> SUFFICES ASSUME Held(c, gone)
               PROVE  CopyHolds(c, gone, rows', vms' \union doubtful')
    BY DEF CopyHolds
  <2>1. PICK s : s = c.sid
    OBVIOUS
  <2>2. /\ s \in Sids /\ s \notin old /\ rows'[s] = rows[s] /\ Held(c, old)
        /\ At(t, "destroy") /\ s = call[t].sid => vms' = vms
    BY <1>3, <2>1 DEF Held
  <2>3. /\ (c.row.completed <=> rows[s].completed)
        /\ c.pc \notin {"claimed", "cloned"} => c.row.instance \in {rows[s].instance, NoInstance}
        /\ Over(rows[s]) /\ ~Over(c.row) => c.pc = "check" /\ c.op = "check"
        /\ c.pc \in {"record", "destroy", "destroyed"} => rows[s].state # "ready"
        /\ c.row.state = "ready" => c.row.instance \in vms \union doubtful
    BY <1>2, <2>1, <2>2 DEF Holds, CopyHolds
  <2>4. ASSUME c.row.state = "ready"
        PROVE  c.row.instance \in vms' \union doubtful'
    <3>1. s # 0 /\ ~Over(c.row)
      BY <2>2, <2>4 DEF Sids, Over, TerminalStates
    <3>2. c.pc \notin {"check", "claimed", "cloned"} /\ c.row.instance # NoInstance
      BY <1>2, <2>1, <2>4, <3>1 DEF Shape, BuildPcs, ProvisionPcs
    <3>3. c.row.instance = rows[s].instance /\ ~Over(rows[s])
      BY <2>3, <3>1, <3>2
    <3>4. QED
      BY <1>2, <2>2, <2>3, <2>4, <3>3 DEF TakesOwn
  <2>5. QED
    BY <2>1, <2>2, <2>3, <2>4 DEF CopyHolds
<1>5. ListHolds(c, gone, rows')
  <2>1. ASSUME NEW s \in Sids \ gone, c.snap[s] # NoRow
        PROVE  c.snap[s] = rows'[s]
    <3>1. s \in Knows(c)
      BY <1>2, <2>1, KnowsOf
    <3>2. s \notin old /\ rows'[s] = rows[s]
      BY <1>3, <3>1
    <3>3. QED
      BY <1>2, <2>1, <3>2 DEF Holds, ListHolds
  <2>2. QED
    BY <2>1 DEF ListHolds
<1>6. ClaimsHold(c, gone, rows')
  <2>1. CASE c.pc \in {"listed", "claimed", "drainlist", "draining"}
    <3>1. \A s \in Sids \ gone : s \notin old /\ rows'[s] = rows[s]
      BY <1>2, <1>3, <2>1, KnowsOf
    <3>2. QED
      BY <1>2, <3>1 DEF Holds, ClaimsHold
  <2>2. CASE c.pc \notin {"listed", "claimed", "drainlist", "draining"}
    BY <2>2 DEF ClaimsHold
  <2>3. QED
    BY <2>1, <2>2
<1>7. QED
  BY <1>1, <1>4, <1>5, <1>6 DEF Holds

\* The invariant after a step, in the parts the steps are proved to keep.
LEMMA ReadsAfter ==
    ASSUME Counted', MachinesApart',
           \A d \in Calls :
               /\ Shape(call'[d]) /\ Lists(call'[d])
               /\ Holds(call'[d], overtaken'[d], rows', vms' \union doubtful')
    PROVE  ReadInv'
<1>1. \A d \in Calls : Shape(call[d])'
  BY DEF Shape, Over
<1>2. \A d \in Calls : Lists(call[d])'
  BY DEF Lists, SecondHalf
<1>3. \A d \in Calls : Holds(call[d], overtaken[d], rows, vms \union doubtful)'
  <2>1. \A d \in Calls : CopyHolds(call[d], overtaken[d], rows, vms \union doubtful)'
    BY DEF Holds, CopyHolds, Held, Knows, Over
  <2>2. \A d \in Calls : ListHolds(call[d], overtaken[d], rows)'
    BY DEF Holds, ListHolds
  <2>3. \A d \in Calls : ClaimsHold(call[d], overtaken[d], rows)'
    BY DEF Holds, ClaimsHold, Over
  <2>4. QED
    BY <2>1, <2>2, <2>3 DEF Holds
<1>4. QED
  BY <1>1, <1>2, <1>3 DEF ReadInv

\* One call moves; what the others hold still holds.
LEMMA OneReads ==
    ASSUME Inv, NEW t \in Calls, Remember(t), NEW c, Moves(t, c),
           TakesOwn(t), Shape(c), Lists(c),
           Holds(c, overtaken'[t], rows', vms' \union doubtful'),
           Counted', MachinesApart'
    PROVE  ReadInv'
<1>1. call'[t] = c /\ \A d \in Calls \ {t} : call'[d] = call[d]
  BY DEF Moves, Inv, StateInv, CallsFine
<1>2. ASSUME NEW d \in Calls
      PROVE  /\ Shape(call'[d]) /\ Lists(call'[d])
             /\ Holds(call'[d], overtaken'[d], rows', vms' \union doubtful')
  <2>1. CASE d = t
    BY <1>1, <2>1
  <2>2. CASE d # t
    <3>1. call'[d] = call[d] /\ Holds(call[d], overtaken'[d], rows', vms' \union doubtful')
      BY <1>1, <2>2, OthersHold
    <3>2. Shape(call[d]) /\ Lists(call[d])
      BY DEF Inv, ReadInv
    <3>3. QED
      BY <3>1, <3>2
  <2>3. QED
    BY <2>1, <2>2
<1>3. QED
  BY <1>2, ReadsAfter

-----------------------------------------------------------------------------
(***************************************************************************)
(* The pieces: what a step that leaves the table alone keeps, what a call  *)
(* still holds of what it held, and what it holds when it begins.          *)
(***************************************************************************)

\* The call that moves, before and after.
LEMMA MovesOn ==
    ASSUME Inv, NEW t \in Calls, Remember(t), NEW c, Moves(t, c)
    PROVE  /\ overtaken'[t] = overtaken[t] \intersect Knows(c)
           /\ doubtful \subseteq doubtful' /\ crossed \subseteq crossed'
           /\ Fine(call[t]) /\ call[t] \in Call /\ Shape(call[t]) /\ Lists(call[t])
           /\ Holds(call[t], overtaken[t], rows, vms \union doubtful)
           /\ call'[t] = c /\ \A d \in Calls \ {t} : call'[d] = call[d]
<1>1. call'[t] = c /\ \A d \in Calls \ {t} : call'[d] = call[d]
  BY DEF Moves, Inv, StateInv, CallsFine
<1>2. /\ overtaken'[t] = overtaken[t] \intersect Knows(c)
      /\ doubtful \subseteq doubtful' /\ crossed \subseteq crossed'
  BY <1>1 DEF Remember
<1>3. Fine(call[t]) /\ call[t] \in Call
  BY DEF Inv, StateInv, CallsFine
<1>4. QED
  BY <1>1, <1>2, <1>3 DEF Inv, ReadInv

LEMMA MachinesStand ==
    ASSUME Inv, NEW t \in Calls, Remember(t), rows' = rows, TakesOwn(t)
    PROVE  MachinesApart'
<1>1. doubtful \subseteq doubtful'
  BY DEF Remember
<1>2. ExclusiveMachine'
  BY <1>1 DEF Inv, ReadInv, MachinesApart, ExclusiveMachine
<1>3. ASSUME NEW s \in Sids, rows[s].state = "ready"
      PROVE  rows[s].instance \in vms' \union doubtful'
  <2>1. rows[s].instance \in vms \union doubtful /\ ~Over(rows[s])
    BY <1>3 DEF Inv, ReadInv, MachinesApart, Over, TerminalStates
  <2>2. QED
    BY <1>1, <1>3, <2>1 DEF TakesOwn
<1>4. QED
  BY <1>2, <1>3 DEF MachinesApart

LEMMA CountedStands ==
    ASSUME Inv, NEW t \in Calls, Remember(t), NEW c, Moves(t, c),
           UNCHANGED <<rows, results>>, c.pc # "record"
    PROVE  Counted'
<1>1. crossed \subseteq crossed' /\ call'[t] = c /\ \A d \in Calls \ {t} : call'[d] = call[d]
  BY MovesOn
<1>2. \A d \in Calls, s \in Sids : Recording(call'[d], s) => Recording(call[d], s)
  BY <1>1 DEF Recording
<1>3. ASSUME NEW s \in Sids \ crossed'
      PROVE  /\ results'[s] <= 1 /\ (results'[s] = 1 => rows'[s].completed)
             /\ \A d \in Calls : Recording(call'[d], s) =>
                    /\ results'[s] = 0 /\ rows'[s].completed
                    /\ \A e \in Calls \ {d} : ~Recording(call'[e], s)
  BY <1>1, <1>2 DEF Inv, ReadInv, Counted
<1>4. QED
  BY <1>3 DEF Counted, Recording

LEMMA GoesOn ==
    ASSUME Inv, NEW t \in Calls, Remember(t), NEW c, Moves(t, c),
           UNCHANGED <<rows, results>>, TakesOwn(t), c.pc # "record", Shape(c), Lists(c),
           Holds(c, overtaken'[t], rows', vms' \union doubtful')
    PROVE  ReadInv' /\ StaysOver
<1>1. MachinesApart' /\ Counted'
  BY MachinesStand, CountedStands
<1>2. ReadInv'
  BY <1>1, OneReads
<1>3. QED
  BY <1>2 DEF StaysOver

LEMMA Returns ==
    ASSUME Inv, NEW t \in Calls, Remember(t), Return(t), UNCHANGED <<rows, results>>,
           TakesOwn(t)
    PROVE  ReadInv' /\ StaysOver
<1>1. PICK c : c = NoCall
  OBVIOUS
<1>2. Moves(t, c)
  BY <1>1 DEF Return, Moves
<1>3. /\ c.pc # "record" /\ Shape(c) /\ Lists(c)
      /\ Holds(c, overtaken'[t], rows', vms' \union doubtful')
  BY <1>1, RestIsFine
<1>4. QED
  BY <1>2, <1>3, GoesOn

\* A listing that the step leaves as it is.
LEMMA ListsOn ==
    ASSUME NEW d, NEW c, Lists(d), c.snap = d.snap, c.op = d.op, c.sid = d.sid,
           c.pc # "idle", c.op = "reap" /\ SecondHalf(c) => SecondHalf(d)
    PROVE  Lists(c)
  BY DEF Lists

\* Listed sessions the step does not write.
LEMMA ListOn ==
    ASSUME Inv, NEW t \in Calls, Remember(t), NEW c, Moves(t, c),
           \A i \in Sids : c.snap[i] # NoRow =>
                c.snap[i] = call[t].snap[i] /\ rows'[i] = rows[i]
    PROVE  ListHolds(c, overtaken'[t], rows')
<1>1. ASSUME NEW i \in Sids \ overtaken'[t], c.snap[i] # NoRow
      PROVE  c.snap[i] = rows'[i]
  <2>1. c.snap[i] = call[t].snap[i] /\ call[t].snap[i] # NoRow /\ rows'[i] = rows[i]
    BY <1>1
  <2>2. call[t].snap[i].state # "absent"
    BY <2>1, MovesOn DEF Fine, CarriesListing, Fit
  <2>3. i \in Knows(c)
    BY <2>1, <2>2 DEF Knows
  <2>4. /\ overtaken'[t] = overtaken[t] \intersect Knows(c)
        /\ ListHolds(call[t], overtaken[t], rows)
    BY MovesOn DEF Holds
  <2>5. i \notin overtaken[t]
    BY <1>1, <2>3, <2>4
  <2>6. QED
    BY <2>1, <2>4, <2>5 DEF ListHolds
<1>2. QED
  BY <1>1 DEF ListHolds

\* The session in hand was in hand before, and what was read of it stands.
LEMMA HeldBefore ==
    ASSUME Inv, NEW t \in Calls, Remember(t), NEW c, Moves(t, c),
           c.sid = call[t].sid, call[t].pc \notin {"handoff", "queued"},
           Held(c, overtaken'[t])
    PROVE  /\ c.sid \in Sids /\ c.sid \notin overtaken[t]
           /\ (call[t].row.completed <=> rows[c.sid].completed)
           /\ call[t].pc \notin {"claimed", "cloned"} =>
                call[t].row.instance \in {rows[c.sid].instance, NoInstance}
           /\ Over(rows[c.sid]) /\ ~Over(call[t].row) =>
                call[t].pc = "check" /\ call[t].op = "check"
           /\ call[t].pc \in {"record", "destroy", "destroyed"} => rows[c.sid].state # "ready"
           /\ call[t].row.state = "ready" => call[t].row.instance \in vms \union doubtful
<1>1. c.sid \in Knows(c) /\ c.sid \in Sids /\ c.sid \notin overtaken[t]
  <2>1. overtaken'[t] = overtaken[t] \intersect Knows(c)
    BY MovesOn
  <2>2. QED
    BY <2>1 DEF Held, Knows
<1>2. c.sid \in Knows(call[t])
  BY <1>1 DEF Knows
<1>3. Held(call[t], overtaken[t])
  BY <1>1, <1>2 DEF Held
<1>4. CopyHolds(call[t], overtaken[t], rows, vms \union doubtful)
  BY MovesOn DEF Holds
<1>5. QED
  BY <1>1, <1>3, <1>4 DEF CopyHolds

LEMMA CopyOn ==
    ASSUME Inv, NEW t \in Calls, Remember(t), NEW c, Moves(t, c),
           rows' = rows, c.sid = call[t].sid,
           call[t].pc \notin {"handoff", "queued", "check", "claimed", "cloned"},
           c.row.completed <=> call[t].row.completed,
           Over(call[t].row) => Over(c.row),
           \/ c.pc \in {"claimed", "cloned"}
           \/ c.row.instance \in {call[t].row.instance, NoInstance},
           c.pc \in {"record", "destroy", "destroyed"} => call[t].pc \in {"record", "destroy"},
           c.row.state = "ready" => c.row.instance \in vms'
    PROVE  CopyHolds(c, overtaken'[t], rows', vms' \union doubtful')
<1> SUFFICES ASSUME Held(c, overtaken'[t])
             PROVE  CopyHolds(c, overtaken'[t], rows', vms' \union doubtful')
  BY DEF CopyHolds
<1>1. PICK s : s = c.sid
  OBVIOUS
<1>2. /\ (call[t].row.completed <=> rows[s].completed)
      /\ call[t].row.instance \in {rows[s].instance, NoInstance}
      /\ (Over(rows[s]) => Over(call[t].row))
      /\ call[t].pc \in {"record", "destroy"} => rows[s].state # "ready"
  BY <1>1, HeldBefore
<1>3. /\ (c.row.completed <=> rows[s].completed)
      /\ c.pc \notin {"claimed", "cloned"} => c.row.instance \in {rows[s].instance, NoInstance}
      /\ (Over(rows[s]) => Over(c.row))
      /\ c.pc \in {"record", "destroy", "destroyed"} => rows[s].state # "ready"
  BY <1>2
<1>4. QED
  BY <1>1, <1>3 DEF CopyHolds

\* A call that goes on with the session it has in hand, or with none.
LEMMA CarriesOn ==
    ASSUME Inv, NEW t \in Calls, Remember(t), NEW c, Moves(t, c),
           rows' = rows, c.sid = call[t].sid, c.op = call[t].op, c.snap = call[t].snap,
           c.pc \notin {"idle", "listed", "claimed", "drainlist", "draining"},
           c.op = "reap" /\ SecondHalf(c) => SecondHalf(call[t]),
           CopyHolds(c, overtaken'[t], rows', vms' \union doubtful')
    PROVE  Lists(c) /\ Holds(c, overtaken'[t], rows', vms' \union doubtful')
<1>1. Lists(c)
  BY MovesOn, ListsOn
<1>2. ListHolds(c, overtaken'[t], rows')
  BY ListOn
<1>3. ClaimsHold(c, overtaken'[t], rows')
  BY DEF ClaimsHold
<1>4. QED
  BY <1>1, <1>2, <1>3 DEF Holds

\* What a call has not got in hand it holds whatever becomes of it.
LEMMA NotInHand ==
    ASSUME NEW c, NEW gone, NEW table, NEW kept, Lists(c),
           c.sid = 0 \/ c.pc \in {"handoff", "queued"},
           c.pc \notin {"listed", "claimed", "drainlist", "draining"},
           \A i \in Sids : c.snap[i] = NoRow \/ c.snap[i].state # "absent"
    PROVE  CopyHolds(c, gone, table, kept)
<1>1. c.sid \in Sids => c.sid # 0
  BY DEF Sids
<1>2. c.sid \in Sids => c.snap[c.sid] = NoRow
  BY DEF Lists
<1>3. NoRow.state = "absent"
  BY DEF NoRow
<1>4. c.sid \notin Knows(c)
  BY <1>1, <1>2, <1>3 DEF Knows
<1>5. QED
  BY <1>4 DEF CopyHolds, Held

\* A ready row is on a machine.
LEMMA ReadyIsSomewhere ==
    ASSUME Inv, NEW s \in Sids, rows[s].state = "ready"
    PROVE  rows[s].instance \in vms \union doubtful /\ rows[s].instance # NoInstance
<1>1. rows[s].instance \in vms \union doubtful
  BY DEF Inv, ReadInv, MachinesApart
<1>2. rows[s].instance \in Names
  BY <1>1 DEF Inv, StateInv, HistoryFits
<1>3. QED
  BY <1>1, <1>2, NamesAreNames

-----------------------------------------------------------------------------
(***************************************************************************)
(* The calls that begin.                                                   *)
(***************************************************************************)
LEMMA BeginsReading ==
    ASSUME Inv, NEW t \in Calls, Remember(t), NEW s \in Sids, NEW c,
           Moves(t, c),
           c.sid = s, \A i \in Sids : c.snap[i] = NoRow,
           c.pc \in {"touch", "claimforuse", "save", "check", "verdict", "recycle"},
           c.row.instance = rows[s].instance, c.row.completed <=> rows[s].completed,
           Over(c.row) => c.pc = "save",
           Over(rows[s]) => Over(c.row) \/ (c.pc = "check" /\ c.op = "check"),
           c.pc = "recycle" => c.row.state = "recycling",
           c.pc = "check" => c.row.state # "ready",
           c.op = "complete" => ~c.row.completed, c.pc = "verdict" => c.op = "complete",
           c.row.state = "ready" => rows[s].state = "ready",
           UNCHANGED <<rows, vms, results>>
    PROVE  ReadInv' /\ StaysOver
<1>1. /\ c.row.state = "ready" => c.row.instance \in vms \union doubtful
      /\ c.row.state = "ready" => c.row.instance # NoInstance
      /\ doubtful \subseteq doubtful'
  BY ReadyIsSomewhere DEF Remember
<1>2. Shape(c)
  BY <1>1 DEF Shape, BuildPcs, ProvisionPcs
<1>3. Lists(c) /\ ListHolds(c, overtaken'[t], rows')
  BY DEF Lists, ListHolds
<1>4. CopyHolds(c, overtaken'[t], rows', vms' \union doubtful')
  BY <1>1 DEF CopyHolds
<1>5. ClaimsHold(c, overtaken'[t], rows')
  BY DEF ClaimsHold
<1>6. TakesOwn(t) /\ c.pc # "record"
  BY DEF TakesOwn
<1>7. Holds(c, overtaken'[t], rows', vms' \union doubtful')
  BY <1>3, <1>4, <1>5 DEF Holds
<1>8. QED
  BY <1>2, <1>3, <1>6, <1>7, GoesOn

\* A call that begins with no session in hand.
LEMMA BeginsFree ==
    ASSUME Inv, NEW t \in Calls, Remember(t), NEW c, Moves(t, c),
           c.sid = 0, \A i \in Sids : c.snap[i] = NoRow,
           c.pc \in {"insert", "drain", "refill"},
           c.pc = "insert" =>
               /\ c.op = "start"
               /\ c.row.state = "requested" /\ c.row.instance = NoInstance /\ ~c.row.completed,
           UNCHANGED <<rows, vms, results>>
    PROVE  ReadInv' /\ StaysOver
<1>1. Shape(c)
  BY DEF Shape
<1>2. Lists(c) /\ ListHolds(c, overtaken'[t], rows') /\ ClaimsHold(c, overtaken'[t], rows')
  BY DEF Lists, ListHolds, ClaimsHold
<1>3. c.pc \notin {"listed", "claimed", "drainlist", "draining", "record"}
  OBVIOUS
<1>4. CopyHolds(c, overtaken'[t], rows', vms' \union doubtful')
  BY <1>2, <1>3, NotInHand
<1>5. Holds(c, overtaken'[t], rows', vms' \union doubtful')
  BY <1>2, <1>4 DEF Holds
<1>6. TakesOwn(t)
  BY DEF TakesOwn
<1>7. QED
  BY <1>1, <1>2, <1>3, <1>5, <1>6, GoesOn

LEMMA StartReadReads ==
    ASSUME Inv, NEW t \in Calls, Remember(t), NEW u \in Students,
           NEW sc \in Scenarios, StartRead(t, u, sc)
    PROVE  ReadInv' /\ StaysOver
<1>1. UNCHANGED <<rows, vms, results>>
  BY DEF StartRead
<1>2. ASSUME NEW s \in LiveSessionsFor(u), Begin(t, On("start", "touch", s, rows[s]))
      PROVE  ReadInv' /\ StaysOver
  <2>1. s \in Sids /\ rows[s].state \in LiveStates
    BY <1>2 DEF LiveSessionsFor
  <2>2. PICK c : c = On("start", "touch", s, rows[s])
    OBVIOUS
  <2>3. /\ c.op = "start" /\ c.pc = "touch" /\ c.sid = s /\ c.row = rows[s]
        /\ \A i \in Sids : c.snap[i] = NoRow
    BY <2>2, OnIs
  <2>4. Moves(t, c)
    BY <1>2, <2>2 DEF Moves, Begin
  <2>5. ~Over(c.row) /\ ~Over(rows[s])
    BY <2>1, <2>3 DEF Over, LiveStates, TerminalStates
  <2>6. (c.row.completed <=> rows[s].completed) /\ c.row.instance = rows[s].instance
    BY <2>3
  <2>7. QED
    BY <1>1, <2>1, <2>3, <2>4, <2>5, <2>6, BeginsReading
<1>3. ASSUME Begin(t, On("start", "insert", 0,
                 [NoRow EXCEPT !.state = "requested", !.student = u, !.scenario = sc]))
      PROVE  ReadInv' /\ StaysOver
  <2> DEFINE row == [NoRow EXCEPT !.state = "requested", !.student = u, !.scenario = sc]
  <2>1. row.state = "requested" /\ row.instance = NoInstance /\ ~row.completed
    BY DEF NoRow
  <2>2. PICK c : c = On("start", "insert", 0, row)
    OBVIOUS
  <2>3. Moves(t, c)
    BY <1>3, <2>2 DEF Moves, Begin
  <2> HIDE DEF row
  <2>4. /\ c.op = "start" /\ c.pc = "insert" /\ c.sid = 0 /\ c.row = row
        /\ \A i \in Sids : c.snap[i] = NoRow
    BY <2>2, OnIs
  <2>5. QED
    BY <1>1, <2>1, <2>3, <2>4, BeginsFree
<1>4. QED
  BY <1>2, <1>3 DEF StartRead

\* The calls that begin with a row of the table, as it is or in another state.
LEMMA ReadsRead ==
    ASSUME Inv, NEW t \in Calls, Remember(t), NEW s \in Sids,
           \/ OpenRead(t, s) \/ EditRead(t, s) \/ CheckRead(t, s)
           \/ CompleteRead(t, s) \/ EndRead(t, s) \/ ResetRead(t, s)
    PROVE  ReadInv' /\ StaysOver
<1>1. UNCHANGED <<rows, vms, results>>
  BY DEF OpenRead, EditRead, CheckRead, CompleteRead, EndRead, ResetRead
<1>2. Fit(s, rows[s])
  BY RowFits DEF OpenRead, EditRead, CheckRead, CompleteRead, EndRead, ResetRead,
     UsableStates, Inv, StateInv
<1>3. \A st : /\ [rows[s] EXCEPT !.state = st].state = st
              /\ [rows[s] EXCEPT !.state = st].instance = rows[s].instance
              /\ [rows[s] EXCEPT !.state = st].completed = rows[s].completed
  BY <1>2 DEF Fit, Row
<1>4. CASE OpenRead(t, s)
  <2> DEFINE row == [rows[s] EXCEPT !.state = IF @ = "ready" THEN "in_use" ELSE @]
             pc  == IF rows[s].state = "ready" THEN "claimforuse" ELSE "save"
  <2>1. PICK c : c = On("open", pc, s, row)
    OBVIOUS
  <2>2. Moves(t, c)
    BY <1>4, <2>1 DEF Moves, OpenRead, Begin
  <2>3. ~Over(rows[s]) /\ ~Over(row) /\ row.state # "ready" /\ pc \in {"claimforuse", "save"}
    BY <1>3, <1>4 DEF OpenRead, UsableStates, TerminalStates, Over
  <2>4. row.instance = rows[s].instance /\ (row.completed <=> rows[s].completed)
    BY <1>3
  <2> HIDE DEF row, pc
  <2>5. /\ c.op = "open" /\ c.pc = pc /\ c.sid = s /\ c.row = row
        /\ \A i \in Sids : c.snap[i] = NoRow
    BY <2>1, OnIs
  <2>6. QED
    BY <1>1, <2>2, <2>3, <2>4, <2>5, BeginsReading
<1>5. CASE EditRead(t, s)
  <2>1. PICK deadline \in Deadlines(rows[s]) :
          Begin(t, On("edit", "save", s, [rows[s] EXCEPT !.expires = deadline]))
    BY <1>5 DEF EditRead
  <2> DEFINE row == [rows[s] EXCEPT !.expires = deadline]
  <2>2. PICK c : c = On("edit", "save", s, row)
    OBVIOUS
  <2>3. Moves(t, c)
    BY <2>1, <2>2 DEF Moves, Begin
  <2>4. /\ row.state = rows[s].state /\ row.instance = rows[s].instance
        /\ (row.completed <=> rows[s].completed)
    BY <1>2 DEF Fit, Row
  <2> HIDE DEF row
  <2>5. /\ c.op = "edit" /\ c.pc = "save" /\ c.sid = s /\ c.row = row
        /\ \A i \in Sids : c.snap[i] = NoRow
    BY <2>2, OnIs
  <2>6. Over(row) <=> Over(rows[s])
    BY <2>4 DEF Over
  <2>7. QED
    BY <1>1, <2>3, <2>4, <2>5, <2>6, BeginsReading
<1>6. CASE CheckRead(t, s)
  <2> DEFINE row == [rows[s] EXCEPT !.state = "checking"]
  <2>1. PICK c : c = On("check", "check", s, row)
    OBVIOUS
  <2>2. Moves(t, c)
    BY <1>6, <2>1 DEF Moves, CheckRead, Begin
  <2>3. /\ row.state = "checking" /\ row.instance = rows[s].instance
        /\ (row.completed <=> rows[s].completed)
    BY <1>3
  <2> HIDE DEF row
  <2>4. /\ c.op = "check" /\ c.pc = "check" /\ c.sid = s /\ c.row = row
        /\ \A i \in Sids : c.snap[i] = NoRow
    BY <2>1, OnIs
  <2>5. ~Over(row)
    BY <2>3 DEF Over, TerminalStates
  <2>6. QED
    BY <1>1, <2>2, <2>3, <2>4, <2>5, BeginsReading
<1>7. CASE CompleteRead(t, s) /\ rows[s].instance # NoInstance
  <2> DEFINE row == [rows[s] EXCEPT !.state = "checking"]
  <2>1. PICK c : c = On("complete", "check", s, row)
    OBVIOUS
  <2>2. Moves(t, c)
    BY <1>7, <2>1 DEF Moves, CompleteRead, Begin
  <2>3. /\ row.state = "checking" /\ row.instance = rows[s].instance
        /\ (row.completed <=> rows[s].completed)
    BY <1>3
  <2> HIDE DEF row
  <2>4. /\ c.op = "complete" /\ c.pc = "check" /\ c.sid = s /\ c.row = row
        /\ \A i \in Sids : c.snap[i] = NoRow
    BY <2>1, OnIs
  <2>5. ~Over(rows[s]) /\ ~rows[s].completed /\ ~Over(row)
    BY <1>7, <2>3 DEF CompleteRead, Over, TerminalStates
  <2>6. QED
    BY <1>1, <2>2, <2>3, <2>4, <2>5, BeginsReading
<1>8. CASE CompleteRead(t, s) /\ rows[s].instance = NoInstance
  <2> DEFINE on == On("complete", "verdict", s, rows[s])
  <2>1. PICK c : c = [on EXCEPT !.report = "error"]
    OBVIOUS
  <2>2. Moves(t, c)
    BY <1>8, <2>1 DEF Moves, CompleteRead, Begin
  <2>3. c.op = on.op /\ c.pc = on.pc /\ c.sid = on.sid /\ c.row = on.row /\ c.snap = on.snap
    BY <2>1 DEF On, NoCall
  <2> HIDE DEF on
  <2>4. /\ c.op = "complete" /\ c.pc = "verdict" /\ c.sid = s /\ c.row = rows[s]
        /\ \A i \in Sids : c.snap[i] = NoRow
    BY <2>3, OnIs DEF on
  <2>5. ~Over(rows[s]) /\ ~rows[s].completed /\ ~Over(c.row)
    BY <1>8, <2>4 DEF CompleteRead, Over
  <2>6. (c.row.completed <=> rows[s].completed) /\ c.row.instance = rows[s].instance
    BY <2>4
  <2>7. QED
    BY <1>1, <2>2, <2>4, <2>5, <2>6, BeginsReading
<1>9. CASE EndRead(t, s) \/ ResetRead(t, s)
  <2> DEFINE row == [rows[s] EXCEPT !.state = "recycling"]
  <2>1. PICK op \in {"end", "reset"} : Begin(t, On(op, "recycle", s, row))
    BY <1>9 DEF EndRead, ResetRead
  <2>2. PICK c : c = On(op, "recycle", s, row)
    OBVIOUS
  <2>3. Moves(t, c)
    BY <2>1, <2>2 DEF Moves, Begin
  <2>4. /\ row.state = "recycling" /\ row.instance = rows[s].instance
        /\ (row.completed <=> rows[s].completed)
    BY <1>3
  <2> HIDE DEF row
  <2>5. /\ c.op = op /\ c.pc = "recycle" /\ c.sid = s /\ c.row = row
        /\ \A i \in Sids : c.snap[i] = NoRow
    BY <2>2, OnIs
  <2>6. ~Over(rows[s]) /\ ~Over(row)
    BY <1>9, <2>4 DEF EndRead, ResetRead, Over, TerminalStates
  <2>7. QED
    BY <1>1, <2>3, <2>4, <2>5, <2>6, BeginsReading
<1>10. QED
  BY <1>4, <1>5, <1>6, <1>7, <1>8, <1>9

LEMMA FreeStartsRead ==
    ASSUME Inv, NEW t \in Calls, Remember(t), NEW sc \in Scenarios,
           DrainCall(t, sc) \/ \E n \in 1..MaxIndex : PrewarmCall(t, sc, n)
    PROVE  ReadInv' /\ StaysOver
<1>1. UNCHANGED <<rows, vms, results>>
  BY DEF DrainCall, PrewarmCall
<1>2. CASE DrainCall(t, sc)
  <2>1. PICK c : c = [NoCall EXCEPT !.op = "drain", !.pc = "drain", !.pool = sc]
    OBVIOUS
  <2>2. c.pc = "drain" /\ c.sid = 0 /\ \A i \in Sids : c.snap[i] = NoRow
    BY <2>1 DEF NoCall
  <2>3. Moves(t, c)
    BY <1>2, <2>1 DEF Moves, DrainCall, Begin
  <2>4. QED
    BY <1>1, <2>2, <2>3, BeginsFree
<1>3. CASE \E n \in 1..MaxIndex : PrewarmCall(t, sc, n)
  <2>1. PICK n \in 1..MaxIndex : PrewarmCall(t, sc, n)
    BY <1>3
  <2>2. PICK c : c = [NoCall EXCEPT !.op = "prewarm", !.pc = "refill", !.want[sc] = n]
    OBVIOUS
  <2>3. c.pc = "refill" /\ c.sid = 0 /\ \A i \in Sids : c.snap[i] = NoRow
    BY <2>2 DEF NoCall
  <2>4. Moves(t, c)
    BY <2>1, <2>2 DEF Moves, PrewarmCall, Begin
  <2>5. QED
    BY <1>1, <2>3, <2>4, BeginsFree
<1>4. QED
  BY <1>2, <1>3

LEMMA StartsRead ==
    ASSUME Inv, NEW t \in Calls, Remember(t), Starts(t)
    PROVE  ReadInv' /\ StaysOver
<1>1. ASSUME NEW u \in Students, NEW sc \in Scenarios, StartRead(t, u, sc)
      PROVE  ReadInv' /\ StaysOver
  BY <1>1, StartReadReads
<1>2. ASSUME NEW s \in Sids,
             \/ OpenRead(t, s) \/ EditRead(t, s) \/ CheckRead(t, s)
             \/ CompleteRead(t, s) \/ EndRead(t, s) \/ ResetRead(t, s)
      PROVE  ReadInv' /\ StaysOver
  BY <1>2, ReadsRead
<1>3. ASSUME NEW sc \in Scenarios,
             DrainCall(t, sc) \/ \E n \in 1..MaxIndex : PrewarmCall(t, sc, n)
      PROVE  ReadInv' /\ StaysOver
  BY <1>3, FreeStartsRead
<1>4. QED
  BY <1>1, <1>2, <1>3 DEF Starts

-----------------------------------------------------------------------------
(***************************************************************************)
(* The saves.  A careless one goes into the history; of any other, the     *)
(* session in hand is still as the call read it.                           *)
(***************************************************************************)
LEMMA CarefulSave ==
    ASSUME Inv, NEW t \in Calls, Remember(t), NEW s \in Sids, s = call[t].sid,
           call[t].pc \in SavePcs, ~Careless(t)
    PROVE  /\ (call[t].row.completed <=> rows[s].completed)
           /\ call[t].pc \notin {"claimed", "cloned"} =>
                call[t].row.instance \in {rows[s].instance, NoInstance}
           /\ Over(rows[s]) => Over(call[t].row)
           /\ call[t].row.state = "ready" => call[t].row.instance \in vms \union doubtful
<1>1. Holds(call[t], overtaken[t], rows, vms \union doubtful)
  BY DEF Inv, ReadInv
<1>2. call[t].pc \notin {"handoff", "queued"} /\ s \notin overtaken[t]
  BY DEF Careless, SavePcs
<1>3. s \in Knows(call[t])
  BY <1>2 DEF Knows
<1>4. Held(call[t], overtaken[t])
  BY <1>2, <1>3 DEF Held
<1>5. CopyHolds(call[t], overtaken[t], rows, vms \union doubtful)
  BY <1>1 DEF Holds
<1>6. ~(call[t].pc = "check" /\ call[t].op = "check" /\ Over(rows[s]))
  BY DEF Careless, At, Over
<1>7. QED
  BY <1>4, <1>5, <1>6 DEF CopyHolds

\* What a careless save leaves behind.
LEMMA CarelessSave ==
    ASSUME Inv, NEW t \in Calls, Remember(t), Careless(t)
    PROVE  /\ call[t].sid \in crossed'
           /\ call[t].row.instance \in doubtful' \union {NoInstance}
  BY DEF Remember, Misjudged

\* A machine that a call saves, and is sure of, is on no other session.
LEMMA SavesOwn ==
    ASSUME Inv, NEW t \in Calls, Remember(t), NEW s \in Sids, s = call[t].sid,
           call[t].pc \in SavePcs, ~Over(call[t].row),
           call[t].row.instance \notin doubtful' \union {NoInstance},
           NEW i \in Sids, i # s, ~Over(rows[i])
    PROVE  rows[i].instance # call[t].row.instance
<1>1. PICK m : m = call[t].row.instance
  OBVIOUS
<1>2. ~Careless(t)
  BY CarelessSave
<1>3. doubtful \subseteq doubtful'
  BY DEF Remember
<1>4. CASE call[t].pc = "claimed"
  <2>1. m \notin Elsewhere(t)
    BY <1>1, <1>4 DEF Remember, Misjudged, At
  <2>2. CASE i \in overtaken[t]
    BY <1>1, <2>1, <2>2 DEF Elsewhere, Over
  <2>3. CASE i \notin overtaken[t]
    <3>1. ClaimsHold(call[t], overtaken[t], rows)
      BY DEF Inv, ReadInv, Holds
    <3>2. QED
      BY <1>4, <2>3, <3>1 DEF ClaimsHold
  <2>4. QED
    BY <2>2, <2>3
<1>5. CASE call[t].pc = "cloned"
  <2>1. Fit(s, call[t].row) /\ Shape(call[t])
    BY <1>5, InHand DEF RowPcs, ProvisionPcs, Inv, StateInv, ReadInv
  <2>2. m.kind = "session" /\ m.n = s
    BY <1>1, <1>5, <2>1 DEF Fit, OwnMachine, Shape, Sids
  <2>3. rows[i] = NoRow \/ Fit(i, rows[i])
    BY DEF Inv, StateInv, RowsFit
  <2>4. CASE rows[i] = NoRow
    BY <2>4 DEF NoRow
  <2>5. CASE Fit(i, rows[i])
    BY <1>1, <2>2, <2>5 DEF Fit, OwnMachine
  <2>6. QED
    BY <2>3, <2>4, <2>5
<1>6. CASE call[t].pc \notin {"claimed", "cloned"}
  <2>1. rows[s].instance = m /\ ~Over(rows[s])
    BY <1>1, <1>2, <1>6, CarefulSave
  <2>2. m \notin doubtful \union {NoInstance}
    BY <1>1, <1>3
  <2>3. QED
    BY <1>1, <2>1, <2>2 DEF Inv, ReadInv, MachinesApart, ExclusiveMachine, Over
<1>7. QED
  BY <1>4, <1>5, <1>6

LEMMA SaveStands ==
    ASSUME Inv, NEW t \in Calls, Remember(t), NEW s \in Sids, s = call[t].sid,
           call[t].pc \in SavePcs, NEW row, rows' = [rows EXCEPT ![s] = row],
           vms' = vms, row.instance = call[t].row.instance,
           Over(row) <=> Over(call[t].row),
           row.state = "ready" => call[t].row.state = "ready"
    PROVE  MachinesApart' /\ StaysOver /\ TakesOwn(t)
<1>1. rows'[s] = row /\ \A i \in Sids \ {s} : rows'[i] = rows[i]
  BY DEF Inv, StateInv, RowsFit
<1>2. doubtful \subseteq doubtful'
  BY DEF Remember
<1>3. ASSUME NEW i \in Sids, i # s, ~Over(rows'[i]), ~Over(row),
             row.instance \notin doubtful' \union {NoInstance}
      PROVE  rows'[i].instance # row.instance
  BY <1>1, <1>3, SavesOwn
<1>4. ASSUME NEW i \in Sids, NEW j \in Sids, i # j, ~Over(rows'[i]), ~Over(rows'[j]),
             rows'[i].instance \notin doubtful' \union {NoInstance}
      PROVE  rows'[i].instance # rows'[j].instance
  <2>1. CASE i = s
    BY <1>1, <1>3, <1>4, <2>1
  <2>2. CASE j = s
    BY <1>1, <1>3, <1>4, <2>2
  <2>3. CASE i # s /\ j # s
    BY <1>1, <1>2, <1>4, <2>3 DEF Inv, ReadInv, MachinesApart, ExclusiveMachine, Over
  <2>4. QED
    BY <2>1, <2>2, <2>3
<1>5. ASSUME NEW i \in Sids, rows'[i].state = "ready"
      PROVE  rows'[i].instance \in vms' \union doubtful'
  <2>1. CASE i # s
    BY <1>1, <1>2, <1>5, <2>1 DEF Inv, ReadInv, MachinesApart
  <2>2. CASE i = s /\ ~Careless(t)
    BY <1>1, <1>2, <1>5, <2>2, CarefulSave
  <2>3. CASE i = s /\ Careless(t)
    <3>1. Shape(call[t])
      BY DEF Inv, ReadInv
    <3>2. row.instance # NoInstance
      BY <1>1, <1>5, <2>3, <3>1 DEF Shape, Sids
    <3>3. QED
      BY <1>1, <2>3, <3>2, CarelessSave
  <2>4. QED
    BY <2>1, <2>2, <2>3
<1>6. MachinesApart'
  BY <1>4, <1>5 DEF MachinesApart, ExclusiveMachine, Over
<1>7. ASSUME NEW i \in Sids \ crossed', Over(rows[i])
      PROVE  Over(rows'[i])
  BY <1>1, <1>7, CarelessSave, CarefulSave
<1>8. TakesOwn(t)
  BY DEF TakesOwn
<1>9. QED
  BY <1>6, <1>7, <1>8 DEF StaysOver

\* A save that leaves completedAt as the call read it.
LEMMA SaveCounts ==
    ASSUME Inv, NEW t \in Calls, Remember(t), NEW s \in Sids, s = call[t].sid,
           call[t].pc \in SavePcs, Save(t, call[t].row), results' = results,
           NEW c, Moves(t, c), c.pc # "record"
    PROVE  Counted'
<1>1. /\ rows'[s] = call[t].row /\ \A i \in Sids \ {s} : rows'[i] = rows[i]
  BY DEF Save, Inv, StateInv, RowsFit
<1>2. crossed \subseteq crossed' /\ call'[t] = c /\ \A d \in Calls \ {t} : call'[d] = call[d]
  BY MovesOn
<1>3. \A i \in Sids \ crossed' : rows'[i].completed <=> rows[i].completed
  <2>1. s \notin crossed' => (call[t].row.completed <=> rows[s].completed)
    BY CarelessSave, CarefulSave
  <2>2. QED
    BY <1>1, <2>1
<1>4. \A d \in Calls, i \in Sids : Recording(call'[d], i) => Recording(call[d], i)
  BY <1>2 DEF Recording
<1>5. ASSUME NEW i \in Sids \ crossed'
      PROVE  /\ results'[i] <= 1 /\ (results'[i] = 1 => rows'[i].completed)
             /\ \A d \in Calls : Recording(call'[d], i) =>
                    /\ results'[i] = 0 /\ rows'[i].completed
                    /\ \A e \in Calls \ {d} : ~Recording(call'[e], i)
  <2>1. i \notin crossed /\ (rows'[i].completed <=> rows[i].completed)
    BY <1>2, <1>3
  <2>2. /\ results[i] <= 1 /\ (results[i] = 1 => rows[i].completed)
        /\ \A d \in Calls : Recording(call[d], i) =>
                /\ results[i] = 0 /\ rows[i].completed
                /\ \A e \in Calls \ {d} : ~Recording(call[e], i)
    BY <2>1 DEF Inv, ReadInv, Counted
  <2>3. QED
    BY <1>4, <2>1, <2>2
<1>6. QED
  BY <1>5 DEF Counted, Recording

\* A copy that is the row.
LEMMA CopyIsRow ==
    ASSUME MachinesApart', NEW c, Shape(c), NEW gone, c.sid \in Sids, rows'[c.sid] = c.row
    PROVE  CopyHolds(c, gone, rows', vms' \union doubtful')
<1>1. c.sid # 0
  BY DEF Sids
<1>2. c.pc \in {"record", "destroy", "destroyed"} => c.row.state # "ready"
  BY <1>1 DEF Shape
<1>3. c.row.state = "ready" => c.row.instance \in vms' \union doubtful'
  BY DEF MachinesApart
<1>4. QED
  BY <1>2, <1>3 DEF CopyHolds

\* The listing outlives a save of the session in hand.
LEMMA ListSaved ==
    ASSUME Inv, NEW t \in Calls, Remember(t), NEW s \in Sids, s = call[t].sid,
           NEW row, rows' = [rows EXCEPT ![s] = row], NEW c, Moves(t, c),
           c.snap = call[t].snap
    PROVE  ListHolds(c, overtaken'[t], rows')
<1>1. \A i \in Sids \ {s} : rows'[i] = rows[i]
  BY DEF Inv, StateInv, RowsFit
<1>2. Lists(call[t])
  BY DEF Inv, ReadInv
<1>3. \A i \in Sids : c.snap[i] # NoRow => c.snap[i] = call[t].snap[i] /\ rows'[i] = rows[i]
  BY <1>1, <1>2 DEF Lists
<1>4. QED
  BY <1>3, ListOn

\* What follows upon which save.
SavedThen(d, pc) ==
    \/ d.pc = "touch" /\ pc = "handoff"
    \/ d.pc = "allocate" /\ pc = "claim"
    \/ d.pc \in {"claimed", "cloned"} /\ pc = "await"
    \/ d.pc = "claimforuse" /\ pc = "save"
    \/ d.pc = "check" /\ pc = "grade"
    \/ d.pc = "graded" /\ pc = "verdict" /\ d.op = "complete"
    \/ d.pc = "recycle" /\ pc = "destroy"
    \/ d.pc = "destroyed" /\ pc = "claim" /\ d.op = "reset"

LEMMA SavesGoingOn ==
    ASSUME Inv, NEW t \in Calls, Remember(t), Save(t, call[t].row), NEW pc, Go(t, pc),
           SavedThen(call[t], pc), UNCHANGED <<vms, results>>
    PROVE  ReadInv' /\ StaysOver
<1>1. PICK s : s = call[t].sid
  OBVIOUS
<1>2. PICK c : c = [call[t] EXCEPT !.pc = pc]
  OBVIOUS
<1>3. call[t].pc \in SavePcs /\ call[t].pc \in RowPcs
  BY DEF SavedThen, SavePcs, RowPcs, ProvisionPcs
<1>4. call[t] \in Call /\ s \in Sids /\ s # 0
  BY <1>1, <1>3, InHand DEF Inv, StateInv, Sids
<1>5. /\ c.pc = pc /\ c.sid = s /\ c.op = call[t].op /\ c.row = call[t].row
      /\ c.snap = call[t].snap
  BY <1>1, <1>2, <1>4 DEF Call
<1>6. Moves(t, c)
  BY <1>2 DEF Go, Moves
<1>7. Shape(call[t]) /\ Lists(call[t])
  BY DEF Inv, ReadInv
<1>8. Shape(c)
  BY <1>1, <1>4, <1>5, <1>7 DEF Shape, SavedThen, BuildPcs, ProvisionPcs
<1>9. ~SecondHalf(c) \/ c.op # "reap"
  BY <1>1, <1>4, <1>5, <1>7 DEF SecondHalf, Shape, SavedThen
<1>10. Lists(c) /\ c.pc \notin {"record", "listed", "claimed", "drainlist", "draining"}
  <2>1. c.pc \notin {"idle", "record", "listed", "claimed", "drainlist", "draining"}
    BY <1>5 DEF SavedThen
  <2>2. QED
    BY <1>1, <1>5, <1>7, <1>9, <2>1, ListsOn
<1>11. rows' = [rows EXCEPT ![s] = call[t].row]
  BY <1>1 DEF Save
<1>12. MachinesApart' /\ StaysOver /\ TakesOwn(t)
  BY <1>1, <1>3, <1>4, <1>11, SaveStands
<1>13. Counted'
  BY <1>1, <1>3, <1>4, <1>6, <1>10, SaveCounts
<1>14. rows'[s] = c.row
  BY <1>4, <1>5, <1>11 DEF Inv, StateInv, RowsFit
<1>15. CopyHolds(c, overtaken'[t], rows', vms' \union doubtful')
  BY <1>4, <1>5, <1>8, <1>12, <1>14, CopyIsRow
<1>16. ListHolds(c, overtaken'[t], rows')
  BY <1>1, <1>4, <1>5, <1>6, <1>11, ListSaved
<1>17. ClaimsHold(c, overtaken'[t], rows')
  BY <1>10 DEF ClaimsHold
<1>18. Holds(c, overtaken'[t], rows', vms' \union doubtful')
  BY <1>15, <1>16, <1>17 DEF Holds
<1>19. QED
  BY <1>6, <1>8, <1>10, <1>12, <1>13, <1>18, OneReads

LEMMA SavesAndReturns ==
    ASSUME Inv, NEW t \in Calls, Remember(t), Save(t, call[t].row), Return(t),
           call[t].pc \in SavePcs, UNCHANGED <<vms, results>>
    PROVE  ReadInv' /\ StaysOver
<1>1. PICK s : s = call[t].sid
  OBVIOUS
<1>2. s \in Sids
  BY <1>1, InHand DEF Inv, StateInv, SavePcs, RowPcs, ProvisionPcs
<1>3. PICK c : c = NoCall
  OBVIOUS
<1>4. Moves(t, c)
  BY <1>3 DEF Return, Moves
<1>5. /\ c.pc # "record" /\ Shape(c) /\ Lists(c)
      /\ Holds(c, overtaken'[t], rows', vms' \union doubtful')
  BY <1>3, RestIsFine
<1>6. rows' = [rows EXCEPT ![s] = call[t].row]
  BY <1>1 DEF Save
<1>7. MachinesApart' /\ StaysOver /\ TakesOwn(t)
  BY <1>1, <1>2, <1>6, SaveStands
<1>8. Counted'
  BY <1>1, <1>2, <1>4, <1>5, SaveCounts
<1>9. QED
  BY <1>4, <1>5, <1>7, <1>8, OneReads

LEMMA SavingStepsRead ==
    ASSUME Inv, NEW t \in Calls, Remember(t),
           \/ TouchExisting(t) \/ Allocate(t) \/ KeepMachine(t) \/ Finish(t)
           \/ TouchBeforeClaim(t) \/ SaveRow(t) \/ CheckSave(t) \/ GradedSave(t)
           \/ RecycleSave(t)
    PROVE  ReadInv' /\ StaysOver
<1>1. UNCHANGED <<vms, results>> /\ Save(t, call[t].row) /\ call[t].pc \in SavePcs
  BY DEF TouchExisting, Allocate, KeepMachine, Finish, TouchBeforeClaim, SaveRow,
     CheckSave, GradedSave, RecycleSave, At, SavePcs
<1>2. Return(t) \/ \E pc \in Pcs : Go(t, pc) /\ SavedThen(call[t], pc)
  BY DEF TouchExisting, Allocate, KeepMachine, Finish, TouchBeforeClaim, SaveRow,
     CheckSave, GradedSave, RecycleSave, At, SavedThen, Pcs
<1>3. CASE Return(t)
  BY <1>1, <1>3, SavesAndReturns
<1>4. CASE \E pc \in Pcs : Go(t, pc) /\ SavedThen(call[t], pc)
  BY <1>1, <1>4, SavesGoingOn
<1>5. QED
  BY <1>2, <1>3, <1>4

-----------------------------------------------------------------------------
(***************************************************************************)
(* The steps between two saves.                                            *)
(***************************************************************************)

\* A call that goes on with the session it has in hand, or with none, and leaves the
\* table as it is.
LEMMA KeepsOn ==
    ASSUME Inv, NEW t \in Calls, Remember(t), NEW c, Moves(t, c),
           UNCHANGED <<rows, results>>, TakesOwn(t),
           c.sid = call[t].sid, c.op = call[t].op, c.snap = call[t].snap,
           c.pc \notin {"idle", "record", "listed", "claimed", "drainlist", "draining"},
           c.op = "reap" /\ SecondHalf(c) => SecondHalf(call[t]),
           Shape(c), CopyHolds(c, overtaken'[t], rows', vms' \union doubtful')
    PROVE  ReadInv' /\ StaysOver
<1>1. Lists(c) /\ Holds(c, overtaken'[t], rows', vms' \union doubtful')
  BY CarriesOn
<1>2. QED
  BY <1>1, GoesOn

\* The same of a call that has no session in hand.
LEMMA KeepsFree ==
    ASSUME Inv, NEW t \in Calls, Remember(t), NEW c, Moves(t, c),
           UNCHANGED <<rows, results>>, vms \subseteq vms',
           c.sid = call[t].sid, c.op = call[t].op, c.snap = call[t].snap,
           c.pc \in {"queued", "refill", "prewarm", "boot"}, c.sid = 0 \/ c.pc = "queued",
           Shape(c)
    PROVE  ReadInv' /\ StaysOver
<1>1. TakesOwn(t) /\ ~SecondHalf(c)
  BY DEF TakesOwn, SecondHalf
<1>2. Lists(call[t]) /\ Fine(call[t])
  BY MovesOn
<1>3. Lists(c)
  BY <1>1, <1>2, ListsOn
<1>4. \A i \in Sids : c.snap[i] = NoRow \/ c.snap[i].state # "absent"
  BY <1>2 DEF Fine, CarriesListing, Fit
<1>5. CopyHolds(c, overtaken'[t], rows', vms' \union doubtful')
  BY <1>3, <1>4, NotInHand
<1>6. QED
  BY <1>1, <1>5, KeepsOn

\* A new session: the row was nobody's.
LEMMA InsertRowReads ==
    ASSUME Inv, NEW t \in Calls, Remember(t), InsertRow(t)
    PROVE  ReadInv' /\ StaysOver
<1>1. /\ call[t] \in Call /\ Shape(call[t]) /\ Lists(call[t]) /\ call[t].pc = "insert"
      /\ Fine(call[t])
  BY DEF InsertRow, At, Inv, StateInv, ReadInv, CallsFine, Fine
<1>2. UNCHANGED <<vms, results>>
  BY DEF InsertRow
<1>3. TakesOwn(t)
  BY <1>2 DEF TakesOwn
<1>4. CASE Unused = {}
  <2>1. Return(t) /\ UNCHANGED rows
    BY <1>4 DEF InsertRow
  <2>2. QED
    BY <1>2, <1>3, <2>1, Returns
<1>5. CASE Unused # {}
  <2> DEFINE s == CHOOSE i \in Unused : \A j \in Unused : i <= j
             fresh == [call[t].row EXCEPT !.created = clock, !.expires = Later(clock)]
  <2>1. s \in Unused
    <3>1. Unused \subseteq Nat
      BY DEF Unused, Sids
    <3>2. \E i \in Unused : \A j \in Unused : i <= j
      BY <1>5, <3>1, LowestExists
    <3>3. QED
      BY <3>2
  <2> HIDE DEF s
  <2>2. s \in Sids /\ s # 0 /\ rows[s].state = "absent"
    BY <2>1 DEF Unused, Sids
  <2>3. rows[s] = NoRow
    BY <2>2 DEF Inv, StateInv, RowsFit, Fit
  <2>4. PICK c : c = [call[t] EXCEPT !.pc = "handoff", !.sid = s, !.row = fresh]
    OBVIOUS
  <2>5. rows' = [rows EXCEPT ![s] = fresh] /\ Moves(t, c)
    BY <1>5, <2>4 DEF InsertRow, s, Moves
  <2>6. fresh.state = "requested" /\ fresh.instance = NoInstance /\ ~fresh.completed
    BY <1>1 DEF Shape, Call, Row
  <2> HIDE DEF fresh
  <2>7. /\ c.pc = "handoff" /\ c.sid = s /\ c.row = fresh /\ c.snap = call[t].snap
        /\ c.op = "start"
    BY <1>1, <2>4 DEF Call, Shape
  <2>8. rows'[s] = fresh /\ \A i \in Sids \ {s} : rows'[i] = rows[i]
    BY <2>2, <2>5 DEF Inv, StateInv, RowsFit
  <2>9. ~Over(fresh) /\ ~Over(rows[s]) /\ ~rows[s].completed
    BY <2>3, <2>6 DEF Over, TerminalStates, NoRow
  <2>10. Shape(c)
    BY <2>2, <2>6, <2>7, <2>9 DEF Shape, BuildPcs, ProvisionPcs
  <2>11. \A i \in Sids : c.snap[i] = NoRow
    BY <1>1, <2>7 DEF Lists, Shape
  <2>12. Lists(c)
    BY <2>11 DEF Lists
  <2>13. /\ ListHolds(c, overtaken'[t], rows') /\ ClaimsHold(c, overtaken'[t], rows')
         /\ CopyHolds(c, overtaken'[t], rows', vms' \union doubtful')
    <3>1. c.pc \notin {"listed", "claimed", "drainlist", "draining"}
      BY <2>7
    <3>2. CopyHolds(c, overtaken'[t], rows', vms' \union doubtful')
      BY <2>7, <2>11, <2>12, <3>1, NotInHand
    <3>3. QED
      BY <2>11, <3>1, <3>2 DEF ListHolds, ClaimsHold
  <2>14. Holds(c, overtaken'[t], rows', vms' \union doubtful')
    BY <2>13 DEF Holds
  <2>15. /\ doubtful \subseteq doubtful' /\ crossed \subseteq crossed'
         /\ call'[t] = c /\ \A d \in Calls \ {t} : call'[d] = call[d]
    BY <2>5, MovesOn
  <2>16. MachinesApart'
    <3>1. ASSUME NEW i \in Sids, NEW j \in Sids, i # j, ~Over(rows'[i]), ~Over(rows'[j]),
                 rows'[i].instance \notin doubtful' \union {NoInstance}
          PROVE  rows'[i].instance # rows'[j].instance
      <4>1. i # s
        BY <2>6, <2>8, <3>1
      <4>2. CASE j = s
        BY <2>6, <2>8, <3>1, <4>1, <4>2
      <4>3. CASE j # s
        BY <2>8, <2>15, <3>1, <4>1, <4>3 DEF Inv, ReadInv, MachinesApart, ExclusiveMachine, Over
      <4>4. QED
        BY <4>2, <4>3
    <3>2. ASSUME NEW i \in Sids, rows'[i].state = "ready"
          PROVE  rows'[i].instance \in vms' \union doubtful'
      BY <1>2, <2>6, <2>8, <2>15, <3>2 DEF Inv, ReadInv, MachinesApart
    <3>3. QED
      BY <3>1, <3>2 DEF MachinesApart, ExclusiveMachine, Over
  <2>17. Counted'
    <3>1. \A i \in Sids : rows'[i].completed <=> rows[i].completed
      BY <2>6, <2>8, <2>9
    <3>2. \A d \in Calls, i \in Sids : Recording(call'[d], i) => Recording(call[d], i)
      BY <2>7, <2>15 DEF Recording
    <3>3. ASSUME NEW i \in Sids \ crossed'
          PROVE  /\ results'[i] <= 1 /\ (results'[i] = 1 => rows'[i].completed)
                 /\ \A d \in Calls : Recording(call'[d], i) =>
                        /\ results'[i] = 0 /\ rows'[i].completed
                        /\ \A e \in Calls \ {d} : ~Recording(call'[e], i)
      BY <1>2, <2>15, <3>1, <3>2 DEF Inv, ReadInv, Counted
    <3>4. QED
      BY <3>3 DEF Counted, Recording
  <2>18. ReadInv'
    BY <1>3, <2>5, <2>10, <2>12, <2>14, <2>16, <2>17, OneReads
  <2>19. StaysOver
    BY <2>8, <2>9 DEF StaysOver
  <2>20. QED
    BY <2>18, <2>19
<1>6. QED
  BY <1>4, <1>5

LEMMA LockStepsRead ==
    ASSUME Inv, NEW t \in Calls, Remember(t), Enqueue(t) \/ Provision(t) \/ Release(t)
    PROVE  ReadInv' /\ StaysOver
<1>1. /\ UNCHANGED <<rows, vms, results>> /\ call[t].pc \in {"handoff", "queued", "release"}
      /\ vms \subseteq vms' /\ TakesOwn(t)
  BY DEF Enqueue, Provision, Release, At, TakesOwn
<1>2. PICK s : s = call[t].sid
  OBVIOUS
<1>3. /\ call[t] \in Call /\ Shape(call[t])
      /\ call[t].pc # "release" => s \in Sids /\ s # 0
  BY <1>1, <1>2, InHand DEF Inv, StateInv, ReadInv, CallsFine, RowPcs, Sids
<1>4. CASE Enqueue(t)
  <2>1. PICK c : c = [call[t] EXCEPT !.pc = "queued"]
    OBVIOUS
  <2>2. /\ Moves(t, c) /\ c.pc = "queued"
        /\ c.sid = call[t].sid /\ c.op = call[t].op /\ c.snap = call[t].snap
        /\ c.row = call[t].row
    BY <1>3, <1>4, <2>1 DEF Enqueue, Go, Call, Moves
  <2>3. Shape(c)
    BY <1>2, <1>3, <1>4, <2>2 DEF Shape, Enqueue, At, BuildPcs, ProvisionPcs
  <2>4. QED
    BY <1>1, <2>2, <2>3, KeepsFree
<1>5. CASE Provision(t)
  <2>1. PICK row \in {Fresh(t), [Fresh(t) EXCEPT !.state = "allocating"]},
             pc \in {"allocate", "release"} :
          /\ Become(t, pc, row)
          /\ pc = "allocate" =>
                /\ row = [Fresh(t) EXCEPT !.state = "allocating"]
                /\ Fresh(t).state \in {"requested", "allocating"}
          /\ pc = "release" => row = Fresh(t)
    BY <1>5 DEF Provision
  <2>2. PICK c : c = [call[t] EXCEPT !.pc = pc, !.row = row]
    OBVIOUS
  <2>3. /\ Moves(t, c) /\ c.pc = pc
        /\ c.sid = s /\ c.op = call[t].op /\ c.snap = call[t].snap /\ c.row = row
    BY <1>2, <1>3, <2>1, <2>2 DEF Become, Call, Moves
  <2>4. s \in Sids /\ s # 0 /\ rows[s] \in Row /\ Fresh(t) = rows[s]
    BY <1>2, <1>3, <1>5 DEF Inv, StateInv, RowsFit, Fresh, Provision, At
  <2>5. /\ row.instance = rows[s].instance /\ row.completed = rows[s].completed
        /\ pc = "allocate" => row.state = "allocating" /\ ~Over(rows[s])
        /\ pc = "release" => row = rows[s]
    BY <2>1, <2>4 DEF Row, Over, TerminalStates
  <2>6. (Over(row) <=> Over(rows[s])) /\ (Over(row) => pc = "release")
    BY <2>1, <2>5 DEF Over, TerminalStates
  <2>7. row.state = "ready" =>
            /\ pc = "release" /\ row.instance \in vms \union doubtful
            /\ row.instance # NoInstance
    BY <2>1, <2>4, <2>5, ReadyIsSomewhere
  <2>8. doubtful \subseteq doubtful'
    BY DEF Remember
  <2>9. Shape(c)
    BY <2>1, <2>3, <2>6, <2>7 DEF Shape, BuildPcs, ProvisionPcs
  <2>10. CopyHolds(c, overtaken'[t], rows', vms' \union doubtful')
    BY <1>1, <2>1, <2>3, <2>5, <2>6, <2>7, <2>8 DEF CopyHolds
  <2>11. ~SecondHalf(c) /\ c.pc \in {"allocate", "release"}
    BY <2>1, <2>3 DEF SecondHalf
  <2>12. QED
    BY <1>1, <1>2, <2>3, <2>9, <2>10, <2>11, KeepsOn
<1>6. CASE Release(t)
  BY <1>1, <1>6, Returns DEF Release
<1>7. QED
  BY <1>4, <1>5, <1>6

\* The claims in hand are the claims.
LEMMA ListClaimedReads ==
    ASSUME Inv, NEW t \in Calls, Remember(t), ListClaimed(t)
    PROVE  ReadInv' /\ StaysOver
<1>1. /\ UNCHANGED <<rows, vms, results>> /\ call[t].pc = "claim" /\ TakesOwn(t)
  BY DEF ListClaimed, At, TakesOwn
<1>2. /\ call[t] \in Call /\ Shape(call[t]) /\ Lists(call[t]) /\ call[t].sid # 0
  BY <1>1, InHand DEF Inv, StateInv, ReadInv, RowPcs, ProvisionPcs, Sids
<1>3. PICK c : c = [call[t] EXCEPT !.pc = "listed", !.names = ClaimedInstances]
  OBVIOUS
<1>4. /\ Moves(t, c) /\ c.pc = "listed" /\ c.names = ClaimedInstances
      /\ c.sid = call[t].sid /\ c.op = call[t].op /\ c.snap = call[t].snap
      /\ c.row = call[t].row
  BY <1>2, <1>3 DEF ListClaimed, Call, Moves
<1>5. c.row.state # "ready" /\ ~Over(c.row)
  BY <1>1, <1>2, <1>4 DEF Shape, BuildPcs, ProvisionPcs
<1>6. Shape(c)
  BY <1>4, <1>5 DEF Shape
<1>7. ~SecondHalf(c) /\ c.pc # "idle" /\ c.pc # "record"
  BY <1>4 DEF SecondHalf
<1>8. Lists(c)
  BY <1>2, <1>4, <1>7, ListsOn
<1>9. CopyHolds(c, overtaken'[t], rows', vms' \union doubtful')
  BY <1>1, <1>4, <1>5, CopyOn
<1>10. ListHolds(c, overtaken'[t], rows')
  BY <1>1, <1>4, ListOn
<1>11. ClaimsHold(c, overtaken'[t], rows')
  BY <1>1, <1>4 DEF ClaimsHold, ClaimedInstances, Over
<1>12. Holds(c, overtaken'[t], rows', vms' \union doubtful')
  BY <1>9, <1>10, <1>11 DEF Holds
<1>13. QED
  BY <1>1, <1>4, <1>6, <1>7, <1>8, <1>12, GoesOn

LEMMA GuestReads ==
    ASSUME Inv, NEW t \in Calls, Remember(t), GuestAnswers(t) \/ GuestSilent(t)
    PROVE  ReadInv' /\ StaysOver
<1>1. UNCHANGED <<rows, vms, results>> /\ call[t].pc = "await" /\ TakesOwn(t)
  BY DEF GuestAnswers, GuestSilent, At, TakesOwn
<1>2. PICK old : old = call[t].row
  OBVIOUS
<1>3. /\ call[t] \in Call /\ Shape(call[t]) /\ call[t].sid # 0 /\ old \in Row /\ ~Over(old)
  BY <1>1, <1>2, InHand DEF Inv, StateInv, ReadInv, RowPcs, ProvisionPcs, Sids, Shape, Fit
<1>4. PICK st \in {"ready", "error"} :
        /\ Become(t, "finish", [call[t].row EXCEPT !.state = st])
        /\ st = "ready" => call[t].row.instance \in vms
  BY DEF GuestAnswers, GuestSilent
<1>5. PICK row : row = [old EXCEPT !.state = st]
  OBVIOUS
<1>6. PICK c : c = [call[t] EXCEPT !.pc = "finish", !.row = row]
  OBVIOUS
<1>7. /\ Moves(t, c) /\ c.pc = "finish"
      /\ c.sid = call[t].sid /\ c.op = call[t].op /\ c.snap = call[t].snap /\ c.row = row
  BY <1>2, <1>3, <1>4, <1>5, <1>6 DEF Become, Call, Moves
<1>8. row.state = st /\ row.instance = old.instance /\ row.completed = old.completed
  BY <1>3, <1>5 DEF Row
<1>9. st = "ready" => old.instance \in vms' /\ old.instance # NoInstance
  BY <1>1, <1>2, <1>4, NamesAreNames DEF Inv, StateInv
<1>10. Shape(c) /\ ~SecondHalf(c)
  BY <1>7, <1>8, <1>9 DEF Shape, SecondHalf, BuildPcs, ProvisionPcs
<1>11. CopyHolds(c, overtaken'[t], rows', vms' \union doubtful')
  BY <1>1, <1>2, <1>3, <1>7, <1>8, <1>9, CopyOn
<1>12. QED
  BY <1>1, <1>7, <1>10, <1>11, KeepsOn

\* A claim that was read before the machines is good unless it was overtaken.
LEMMA PickPoolReads ==
    ASSUME Inv, NEW t \in Calls, Remember(t), PickPool(t)
    PROVE  ReadInv' /\ StaysOver
<1>1. UNCHANGED <<rows, vms, results>> /\ call[t].pc = "listed" /\ TakesOwn(t)
  BY DEF PickPool, At, TakesOwn
<1>2. PICK old : old = call[t].row
  OBVIOUS
<1>3. /\ call[t] \in Call /\ Shape(call[t]) /\ Lists(call[t]) /\ call[t].sid # 0
      /\ old \in Row /\ ~Over(old) /\ old.state # "ready" /\ old.scenario \in Scenarios
  BY <1>1, <1>2, InHand DEF Inv, StateInv, ReadInv, RowPcs, ProvisionPcs, BuildPcs, Sids,
     Shape, Fit
<1>4. PICK available \in SUBSET (PoolInstances(old.scenario) \ call[t].names) :
        call' = [call EXCEPT ![t].names = {},
                    ![t].pc = IF available = {} THEN "clone" ELSE "claimed",
                    ![t].row = IF available = {} THEN @
                               ELSE [@ EXCEPT !.instance = Lowest(available),
                                              !.state = "provisioning"]]
  BY <1>2 DEF PickPool
<1>5. PICK m : m = Lowest(available)
  OBVIOUS
<1>6. PICK pc : pc = IF available = {} THEN "clone" ELSE "claimed"
  OBVIOUS
<1>7. PICK row : row = IF available = {} THEN old
                       ELSE [old EXCEPT !.instance = m, !.state = "provisioning"]
  OBVIOUS
<1>8. PICK c : c = [call[t] EXCEPT !.names = {}, !.pc = pc, !.row = row]
  OBVIOUS
<1>9. /\ call' = [call EXCEPT ![t] = c] /\ c.pc = pc
      /\ c.sid = call[t].sid /\ c.op = call[t].op /\ c.snap = call[t].snap /\ c.row = row
  BY <1>2, <1>3, <1>4, <1>5, <1>6, <1>7, <1>8 DEF Call
<1>10. Moves(t, c)
  BY <1>9 DEF Moves
<1>11. row.completed = old.completed /\ ~Over(row) /\ row.state # "ready"
  BY <1>3, <1>7 DEF Row, Over, TerminalStates
<1>12. pc \in {"clone", "claimed"}
  BY <1>6
<1>13. Shape(c) /\ ~SecondHalf(c)
  BY <1>9, <1>11, <1>12 DEF Shape, SecondHalf
<1>14. CASE available = {}
  <2>1. row = old /\ pc = "clone"
    BY <1>6, <1>7, <1>14
  <2>2. CopyHolds(c, overtaken'[t], rows', vms' \union doubtful')
    <3>1. c.row = call[t].row /\ c.pc = "clone"
      BY <1>2, <1>9, <2>1
    <3>2. c.row.state # "ready"
      BY <1>9, <1>11
    <3>3. QED
      BY <1>1, <1>9, <1>10, <3>1, <3>2, CopyOn
  <2>3. QED
    BY <1>1, <1>9, <1>10, <1>13, <2>1, <2>2, KeepsOn
<1>15. CASE available # {}
  <2>1. row.instance = m /\ pc = "claimed"
    BY <1>3, <1>6, <1>7, <1>15 DEF Row
  <2>2. m \in available
    <3>1. available \subseteq PoolNames(old.scenario)
      BY DEF PoolInstances
    <3>2. QED
      BY <1>3, <1>5, <1>15, <3>1, LowestIsOne
  <2>3. CopyHolds(c, overtaken'[t], rows', vms' \union doubtful')
    <3>1. /\ c.pc = "claimed" /\ c.row.state # "ready" /\ ~Over(call[t].row)
          /\ (c.row.completed <=> call[t].row.completed)
      BY <1>2, <1>3, <1>9, <1>11, <2>1
    <3>2. QED
      BY <1>1, <1>9, <1>10, <3>1, CopyOn
  <2>4. ListHolds(c, overtaken'[t], rows')
    BY <1>1, <1>9, <1>10, ListOn
  <2>5. ClaimsHold(c, overtaken'[t], rows')
    <3>1. /\ overtaken'[t] = overtaken[t] \intersect Knows(c)
          /\ ClaimsHold(call[t], overtaken[t], rows)
      BY <1>10, MovesOn DEF Holds
    <3>2. \A i \in Sids : i \in Knows(c)
      BY <1>9, <2>1 DEF Knows
    <3>3. \A i \in Sids \ overtaken'[t] : i \notin overtaken[t]
      BY <3>1, <3>2
    <3>4. \A i \in Sids \ overtaken'[t] :
              ~Over(rows[i]) /\ rows[i].instance # NoInstance => rows[i].instance # m
      BY <1>1, <2>2, <3>1, <3>3 DEF ClaimsHold
    <3>5. QED
      BY <1>1, <1>9, <2>1, <3>4 DEF ClaimsHold
  <2>6. Lists(c)
    BY <1>3, <1>9, <1>13, <2>1, ListsOn
  <2>7. Holds(c, overtaken'[t], rows', vms' \union doubtful')
    BY <2>3, <2>4, <2>5 DEF Holds
  <2>8. QED
    BY <1>1, <1>9, <1>10, <1>13, <2>1, <2>6, <2>7, GoesOn
<1>16. QED
  BY <1>14, <1>15

LEMMA CloneReads ==
    ASSUME Inv, NEW t \in Calls, Remember(t), Clone(t) \/ MachineFails(t)
    PROVE  ReadInv' /\ StaysOver
<1>1. /\ UNCHANGED <<rows, results>> /\ call[t].pc \in {"listed", "clone"}
      /\ vms \subseteq vms'
  BY DEF Clone, MachineFails, At
<1>2. TakesOwn(t)
  BY <1>1 DEF TakesOwn
<1>3. PICK old : old = call[t].row
  OBVIOUS
<1>4. /\ call[t] \in Call /\ Shape(call[t]) /\ call[t].sid # 0
      /\ old \in Row /\ ~Over(old) /\ old.state # "ready"
  BY <1>1, <1>3, InHand DEF Inv, StateInv, ReadInv, RowPcs, ProvisionPcs, BuildPcs, Sids,
     Shape, Fit
<1>5. CASE Clone(t)
  <2>1. PICK m : m = OwnName(t)
    OBVIOUS
  <2>2. PICK row : row = [old EXCEPT !.instance = m]
    OBVIOUS
  <2>3. PICK c : c = [call[t] EXCEPT !.pc = "cloned", !.row = row]
    OBVIOUS
  <2>4. /\ Moves(t, c) /\ c.pc = "cloned"
        /\ c.sid = call[t].sid /\ c.op = call[t].op /\ c.snap = call[t].snap /\ c.row = row
    BY <1>3, <1>4, <1>5, <2>1, <2>2, <2>3 DEF Clone, Become, Call, Moves
  <2>5. row.state = old.state /\ row.instance = m /\ row.completed = old.completed
    BY <1>4, <2>2 DEF Row
  <2>6. m.kind = "session"
    BY <2>1 DEF OwnName, SessionName
  <2>7. ~Over(row) /\ row.state # "ready"
    BY <1>4, <2>5 DEF Over
  <2>8. Shape(c) /\ ~SecondHalf(c)
    BY <2>4, <2>5, <2>6, <2>7 DEF Shape, SecondHalf
  <2>9. CopyHolds(c, overtaken'[t], rows', vms' \union doubtful')
    BY <1>1, <1>3, <1>4, <2>4, <2>5, <2>7, CopyOn
  <2>10. QED
    BY <1>1, <1>2, <2>4, <2>8, <2>9, KeepsOn
<1>6. CASE MachineFails(t)
  <2>1. PICK row : row = [old EXCEPT !.state = "error"]
    OBVIOUS
  <2>2. PICK c : c = [call[t] EXCEPT !.pc = "finish", !.names = {}, !.row = row]
    OBVIOUS
  <2>3. /\ Moves(t, c) /\ c.pc = "finish"
        /\ c.sid = call[t].sid /\ c.op = call[t].op /\ c.snap = call[t].snap /\ c.row = row
    BY <1>3, <1>4, <1>6, <2>1, <2>2 DEF MachineFails, Call, Moves
  <2>4. row.state = "error" /\ row.instance = old.instance /\ row.completed = old.completed
    BY <1>4, <2>1 DEF Row
  <2>5. Over(row)
    BY <2>4 DEF Over, TerminalStates
  <2>6. Shape(c) /\ ~SecondHalf(c)
    BY <2>3, <2>4 DEF Shape, SecondHalf, BuildPcs, ProvisionPcs
  <2>7. CopyHolds(c, overtaken'[t], rows', vms' \union doubtful')
    BY <1>1, <1>3, <2>3, <2>4, <2>5, CopyOn
  <2>8. QED
    BY <1>1, <1>2, <2>3, <2>6, <2>7, KeepsOn
<1>7. QED
  BY <1>5, <1>6

LEMMA GradeReads ==
    ASSUME Inv, NEW t \in Calls, Remember(t), Grade(t)
    PROVE  ReadInv' /\ StaysOver
<1>1. UNCHANGED <<rows, vms, results>> /\ call[t].pc = "grade" /\ TakesOwn(t)
  BY DEF Grade, At, TakesOwn
<1>2. PICK old : old = call[t].row
  OBVIOUS
<1>3. /\ call[t] \in Call /\ Shape(call[t]) /\ call[t].sid # 0 /\ old \in Row /\ ~Over(old)
  BY <1>1, <1>2, InHand DEF Inv, StateInv, ReadInv, RowPcs, Sids, Shape, Fit
<1>4. PICK report \in {"error", "unresolved", "resolved"} :
        LET resolved == call[t].row.resolved \/ report = "resolved"
        IN  call' = [call EXCEPT ![t].pc = "graded", ![t].report = report,
                         ![t].row.resolved = resolved,
                         ![t].row.state = IF resolved THEN "passed" ELSE "in_use"]
  BY DEF Grade
<1> DEFINE resolved == old.resolved \/ report = "resolved"
           st == IF resolved THEN "passed" ELSE "in_use"
<1>5. PICK row : row = [old EXCEPT !.resolved = resolved, !.state = st]
  OBVIOUS
<1>6. PICK c : c = [call[t] EXCEPT !.pc = "graded", !.report = report, !.row = row]
  OBVIOUS
<1>7. call' = [call EXCEPT ![t] = c]
  BY <1>2, <1>4, <1>5, <1>6
<1>8. st \in {"passed", "in_use"}
  OBVIOUS
<1> HIDE DEF resolved, st
<1>9. row.state = st /\ row.instance = old.instance /\ row.completed = old.completed
  BY <1>3, <1>5 DEF Row
<1>10. /\ c.pc = "graded" /\ c.sid = call[t].sid /\ c.op = call[t].op
       /\ c.snap = call[t].snap /\ c.row = row /\ Moves(t, c)
  BY <1>3, <1>6, <1>7 DEF Call, Moves
<1>11. ~Over(row) /\ row.state # "ready"
  BY <1>8, <1>9 DEF Over, TerminalStates
<1>12. Shape(c) /\ ~SecondHalf(c)
  BY <1>1, <1>2, <1>3, <1>9, <1>10, <1>11 DEF Shape, SecondHalf, BuildPcs, ProvisionPcs
<1>13. CopyHolds(c, overtaken'[t], rows', vms' \union doubtful')
  BY <1>1, <1>2, <1>3, <1>9, <1>10, <1>11, CopyOn
<1>14. QED
  BY <1>1, <1>10, <1>12, <1>13, KeepsOn

\* The mark on the row: unless the save is careless, nobody has set it before, and so
\* nobody is about to store a result.
LEMMA VerdictReads ==
    ASSUME Inv, NEW t \in Calls, Remember(t), Verdict(t)
    PROVE  ReadInv' /\ StaysOver
<1>1. UNCHANGED <<vms, results>> /\ call[t].pc = "verdict" /\ call[t].pc \in SavePcs
  BY DEF Verdict, At, SavePcs
<1>2. PICK s : s = call[t].sid
  OBVIOUS
<1>3. PICK old : old = call[t].row
  OBVIOUS
<1>4. /\ s \in Sids /\ s # 0 /\ call[t] \in Call /\ old \in Row /\ Lists(call[t])
      /\ ~Over(old) /\ call[t].op = "complete" /\ ~old.completed
  BY <1>1, <1>2, <1>3, InHand DEF Inv, StateInv, ReadInv, RowPcs, Sids, Shape, Fit
<1>5. PICK writeUpClears \in BOOLEAN :
        LET resolved == call[t].report = "resolved" /\ writeUpClears
            row == [call[t].row EXCEPT !.state = IF resolved THEN "passed" ELSE "failed",
                                       !.resolved = resolved, !.completed = TRUE]
        IN  Save(t, row) /\ Become(t, "record", row)
  BY DEF Verdict
<1> DEFINE resolved == call[t].report = "resolved" /\ writeUpClears
           st == IF resolved THEN "passed" ELSE "failed"
<1>6. PICK row : row = [old EXCEPT !.state = st, !.resolved = resolved, !.completed = TRUE]
  OBVIOUS
<1>7. Save(t, row) /\ Become(t, "record", row)
  BY <1>3, <1>5, <1>6
<1>8. st \in {"passed", "failed"}
  OBVIOUS
<1> HIDE DEF resolved, st
<1>9. row.state = st /\ row.instance = old.instance /\ row.completed = TRUE
  BY <1>4, <1>6 DEF Row
<1>10. PICK c : c = [call[t] EXCEPT !.pc = "record", !.row = row]
  OBVIOUS
<1>11. Moves(t, c) /\ rows' = [rows EXCEPT ![s] = row]
  BY <1>2, <1>7, <1>10 DEF Save, Become, Moves
<1>12. /\ c.pc = "record" /\ c.sid = s /\ c.op = call[t].op /\ c.snap = call[t].snap
       /\ c.row = row
  BY <1>2, <1>4, <1>10 DEF Call
<1>13. row.completed /\ ~Over(row) /\ row.state # "ready"
  BY <1>8, <1>9 DEF Over, TerminalStates
<1>14. Shape(c) /\ ~SecondHalf(c)
  BY <1>4, <1>12, <1>13 DEF Shape, SecondHalf, BuildPcs, ProvisionPcs
<1>15. Lists(c)
  BY <1>2, <1>4, <1>12, <1>14, ListsOn
<1>16. MachinesApart' /\ StaysOver /\ TakesOwn(t)
  BY <1>1, <1>2, <1>3, <1>4, <1>9, <1>11, <1>13, SaveStands
<1>17. rows'[s] = row /\ \A i \in Sids \ {s} : rows'[i] = rows[i]
  BY <1>4, <1>11 DEF Inv, StateInv, RowsFit
<1>18. CopyHolds(c, overtaken'[t], rows', vms' \union doubtful')
  BY <1>4, <1>12, <1>14, <1>16, <1>17, CopyIsRow
<1>19. ListHolds(c, overtaken'[t], rows')
  BY <1>2, <1>4, <1>11, <1>12, ListSaved
<1>20. ClaimsHold(c, overtaken'[t], rows')
  BY <1>12 DEF ClaimsHold
<1>21. Holds(c, overtaken'[t], rows', vms' \union doubtful')
  BY <1>18, <1>19, <1>20 DEF Holds
<1>22. /\ crossed \subseteq crossed' /\ call'[t] = c
       /\ \A d \in Calls \ {t} : call'[d] = call[d]
  BY <1>11, MovesOn
<1>23. s \notin crossed' => ~rows[s].completed
  BY <1>1, <1>2, <1>3, <1>4, CarelessSave, CarefulSave
<1>24. ASSUME NEW i \in Sids \ crossed'
       PROVE  /\ results'[i] <= 1 /\ (results'[i] = 1 => rows'[i].completed)
              /\ \A d \in Calls : Recording(call'[d], i) =>
                    /\ results'[i] = 0 /\ rows'[i].completed
                    /\ \A e \in Calls \ {d} : ~Recording(call'[e], i)
  <2>1. /\ results[i] <= 1 /\ (results[i] = 1 => rows[i].completed) /\ results[i] \in Nat
        /\ \A d \in Calls : Recording(call[d], i) =>
                /\ results[i] = 0 /\ rows[i].completed
                /\ \A e \in Calls \ {d} : ~Recording(call[e], i)
    BY <1>22 DEF Inv, StateInv, ReadInv, Counted
  <2>2. CASE i = s
    <3>1. results'[i] = 0 /\ \A d \in Calls : ~Recording(call[d], i)
      BY <1>1, <1>23, <2>1, <2>2
    <3>2. \A d \in Calls \ {t} : ~Recording(call'[d], i)
      BY <1>22, <3>1
    <3>3. QED
      BY <1>13, <1>17, <2>2, <3>1, <3>2
  <2>3. CASE i # s
    <3>1. ~Recording(call'[t], i)
      BY <1>12, <1>22, <2>3 DEF Recording
    <3>2. \A d \in Calls : Recording(call'[d], i) => Recording(call[d], i)
      BY <1>22, <3>1
    <3>3. QED
      BY <1>1, <1>17, <2>1, <2>3, <3>2
  <2>4. QED
    BY <2>2, <2>3
<1>25. Counted'
  BY <1>24 DEF Counted, Recording
<1>26. QED
  BY <1>11, <1>14, <1>15, <1>16, <1>21, <1>25, OneReads

\* The one step that counts: it was not counted, and the row says it is now.
LEMMA RecordResultReads ==
    ASSUME Inv, NEW t \in Calls, Remember(t), RecordResult(t)
    PROVE  ReadInv' /\ StaysOver
<1>1. UNCHANGED <<rows, vms>> /\ call[t].pc = "record" /\ TakesOwn(t)
  BY DEF RecordResult, At, TakesOwn
<1>2. PICK s : s = call[t].sid
  OBVIOUS
<1>3. /\ s \in Sids /\ s # 0 /\ call[t] \in Call /\ Shape(call[t])
  BY <1>1, <1>2, InHand DEF Inv, StateInv, ReadInv, RowPcs, Sids
<1>4. PICK c : c = [call[t] EXCEPT !.pc = "destroy"]
  OBVIOUS
<1>5. Moves(t, c) /\ results' = [results EXCEPT ![s] = @ + 1]
  BY <1>2, <1>4 DEF RecordResult, Go, Moves
<1>6. /\ c.pc = "destroy" /\ c.sid = s /\ c.op = call[t].op /\ c.snap = call[t].snap
      /\ c.row = call[t].row /\ c.op = "complete"
  BY <1>1, <1>2, <1>3, <1>4 DEF Call, Shape
<1>7. Shape(c)
  BY <1>1, <1>2, <1>3, <1>6 DEF Shape, BuildPcs, ProvisionPcs
<1>8. c.row.state # "ready"
  BY <1>3, <1>6, <1>7 DEF Shape
<1>9. CopyHolds(c, overtaken'[t], rows', vms' \union doubtful')
  BY <1>1, <1>2, <1>5, <1>6, <1>8, CopyOn
<1>10. Lists(c) /\ Holds(c, overtaken'[t], rows', vms' \union doubtful')
  BY <1>1, <1>2, <1>5, <1>6, <1>9, CarriesOn
<1>11. /\ crossed \subseteq crossed' /\ call'[t] = c
       /\ \A d \in Calls \ {t} : call'[d] = call[d]
  BY <1>5, MovesOn
<1>12. Recording(call[t], s)
  BY <1>1, <1>2 DEF Recording
<1>13. ASSUME NEW i \in Sids \ crossed'
       PROVE  /\ results'[i] <= 1 /\ (results'[i] = 1 => rows'[i].completed)
              /\ \A d \in Calls : Recording(call'[d], i) =>
                    /\ results'[i] = 0 /\ rows'[i].completed
                    /\ \A e \in Calls \ {d} : ~Recording(call'[e], i)
  <2>1. /\ results[i] <= 1 /\ (results[i] = 1 => rows[i].completed) /\ results[i] \in Nat
        /\ \A d \in Calls : Recording(call[d], i) =>
                /\ results[i] = 0 /\ rows[i].completed
                /\ \A e \in Calls \ {d} : ~Recording(call[e], i)
    BY <1>11 DEF Inv, StateInv, ReadInv, Counted
  <2>2. ~Recording(call'[t], i)
    BY <1>6, <1>11 DEF Recording
  <2>3. \A d \in Calls : Recording(call'[d], i) => Recording(call[d], i) /\ d # t
    BY <1>11, <2>2
  <2>4. CASE i = s
    <3>1. results[i] = 0 /\ rows[i].completed /\ \A d \in Calls \ {t} : ~Recording(call[d], i)
      BY <1>12, <2>1, <2>4
    <3>2. results'[i] = 1
      BY <1>3, <1>5, <2>4, <3>1 DEF Inv, StateInv
    <3>3. \A d \in Calls : ~Recording(call'[d], i)
      BY <2>3, <3>1
    <3>4. QED
      BY <1>1, <3>1, <3>2, <3>3
  <2>5. CASE i # s
    <3>1. results'[i] = results[i]
      BY <1>3, <1>5, <2>5 DEF Inv, StateInv
    <3>2. QED
      BY <1>1, <2>1, <2>3, <3>1
  <2>6. QED
    BY <2>4, <2>5
<1>14. Counted'
  BY <1>13 DEF Counted, Recording
<1>15. MachinesApart'
  BY <1>1, MachinesStand
<1>16. ReadInv'
  BY <1>1, <1>5, <1>7, <1>10, <1>14, <1>15, OneReads
<1>17. QED
  BY <1>1, <1>16 DEF StaysOver

-----------------------------------------------------------------------------
(***************************************************************************)
(* Machines thrown away, and the sweep.                                    *)
(***************************************************************************)

\* What becomes of a row whose machine is destroyed, by case.
LEMMA AfterwardsIs ==
    ASSUME NEW op, NEW row
    PROVE  /\ op \in {"reset", "complete"} =>
                AfterDestroy(op, row) = [row EXCEPT !.instance = NoInstance]
           /\ op \notin {"reset", "complete"} /\ row.state = "recycling" =>
                AfterDestroy(op, row) = [row EXCEPT !.state = "destroyed"]
           /\ op \notin {"reset", "complete"} /\ row.state # "recycling" =>
                AfterDestroy(op, row) = [row EXCEPT !.state = "error", !.instance = NoInstance]
<1>1. ASSUME op \in {"reset", "complete"}
      PROVE  AfterDestroy(op, row) = [row EXCEPT !.instance = NoInstance]
  BY <1>1 DEF AfterDestroy
<1>2. ASSUME op \notin {"reset", "complete"}, row.state = "recycling"
      PROVE  AfterDestroy(op, row) = [row EXCEPT !.state = "destroyed"]
  BY <1>2 DEF AfterDestroy
<1>3. ASSUME op \notin {"reset", "complete"}, row.state # "recycling"
      PROVE  AfterDestroy(op, row) = [row EXCEPT !.state = "error", !.instance = NoInstance]
  BY <1>3 DEF AfterDestroy
<1>4. QED
  BY <1>1, <1>2, <1>3, Zenon

LEMMA AfterwardsHas ==
    ASSUME NEW op, NEW old \in Row
    PROVE  /\ AfterDestroy(op, old).completed = old.completed
           /\ AfterDestroy(op, old).instance \in {old.instance, NoInstance}
           /\ op \in {"reset", "complete"} => AfterDestroy(op, old).state = old.state
           /\ op \notin {"reset", "complete"} =>
                AfterDestroy(op, old).state =
                    IF old.state = "recycling" THEN "destroyed" ELSE "error"
<1>1. CASE op \in {"reset", "complete"}
  <2>1. AfterDestroy(op, old) = [old EXCEPT !.instance = NoInstance]
    BY <1>1, AfterwardsIs
  <2>2. QED
    BY <1>1, <2>1 DEF Row
<1>2. CASE op \notin {"reset", "complete"} /\ old.state = "recycling"
  <2>1. AfterDestroy(op, old) = [old EXCEPT !.state = "destroyed"]
    BY <1>2, AfterwardsIs
  <2>2. QED
    BY <1>2, <2>1 DEF Row
<1>3. CASE op \notin {"reset", "complete"} /\ old.state # "recycling"
  <2>1. AfterDestroy(op, old) = [old EXCEPT !.state = "error", !.instance = NoInstance]
    BY <1>3, AfterwardsIs
  <2>2. QED
    BY <1>3, <2>1 DEF Row
<1>4. QED
  BY <1>1, <1>2, <1>3

\* destroyInstance takes the machine of the row in hand.  Unless that row was
\* overtaken, the machine is that session's and nobody else's.
LEMMA DestroysOwn ==
    ASSUME Inv, NEW t \in Calls, Remember(t), DestroyInstance(t)
    PROVE  TakesOwn(t)
<1>1. /\ call[t].pc = "destroy" /\ rows' = rows
      /\ vms' \in {vms, vms \ {call[t].row.instance}}
  BY DEF DestroyInstance, At
<1>2. PICK s : s = call[t].sid
  OBVIOUS
<1>3. /\ s \in Sids /\ s # 0 /\ Shape(call[t])
      /\ Holds(call[t], overtaken[t], rows, vms \union doubtful)
  <2>1. s \in Sids /\ s # 0
    BY <1>1, <1>2, InHand DEF Inv, StateInv, RowPcs, Sids
  <2>2. QED
    BY <2>1 DEF Inv, ReadInv
<1>4. ASSUME NEW m \in vms \ vms', NEW i \in Sids,
             m \notin doubtful', ~Over(rows[i]), rows[i].instance = m
      PROVE  i = s /\ rows[s].state # "ready"
  <2>1. m = call[t].row.instance /\ m # NoInstance
    BY <1>1, <1>4, NamesAreNames DEF Inv, StateInv
  <2>2. s \notin overtaken[t]
    <3>1. ASSUME s \in overtaken[t]
          PROVE  m \in Misjudged(t)
      BY <1>1, <1>2, <1>4, <3>1 DEF Misjudged, At
    <3>2. m \notin Misjudged(t)
      BY <1>4, <2>1 DEF Remember
    <3>3. QED
      BY <3>1, <3>2
  <2>3. s \in Knows(call[t])
    BY <1>1, <1>2, <1>3 DEF Knows
  <2>4. Held(call[t], overtaken[t])
    BY <1>2, <2>2, <2>3 DEF Held
  <2>5. /\ call[t].row.instance \in {rows[s].instance, NoInstance}
        /\ Over(rows[s]) => Over(call[t].row)
        /\ rows[s].state # "ready"
    BY <1>1, <1>2, <1>3, <2>4 DEF Holds, CopyHolds
  <2>6. ~Over(call[t].row)
    BY <1>1, <1>2, <1>3 DEF Shape
  <2>7. rows[s].instance = m /\ ~Over(rows[s])
    BY <2>1, <2>5, <2>6
  <2>8. m \notin doubtful
    BY <1>4 DEF Remember
  <2>9. i = s
    BY <1>3, <1>4, <2>1, <2>7, <2>8 DEF Inv, ReadInv, MachinesApart, ExclusiveMachine, Over
  <2>10. QED
    BY <2>5, <2>9
<1>5. QED
  BY <1>1, <1>2, <1>4 DEF TakesOwn, At

LEMMA DestroyInstanceReads ==
    ASSUME Inv, NEW t \in Calls, Remember(t), DestroyInstance(t)
    PROVE  ReadInv' /\ StaysOver
<1>1. call[t].pc = "destroy" /\ UNCHANGED <<rows, results>>
  BY DEF DestroyInstance, At
<1>2. PICK old : old = call[t].row
  OBVIOUS
<1>3. /\ call[t].sid # 0 /\ call[t] \in Call /\ Shape(call[t]) /\ old \in Row
      /\ ~Over(old) /\ old.state # "ready"
  BY <1>1, <1>2, InHand DEF Inv, StateInv, ReadInv, RowPcs, Sids, Shape, Fit
<1>4. PICK row : row = AfterDestroy(call[t].op, old)
  OBVIOUS
<1>5. PICK c : c = [call[t] EXCEPT !.pc = "destroyed", !.row = row]
  OBVIOUS
<1>6. Moves(t, c)
  BY <1>2, <1>4, <1>5 DEF DestroyInstance, Become, Moves
<1>7. /\ c.pc = "destroyed" /\ c.sid = call[t].sid /\ c.op = call[t].op
      /\ c.snap = call[t].snap /\ c.row = row
  BY <1>3, <1>5 DEF Call
<1>8. /\ row.completed = old.completed
      /\ row.instance \in {old.instance, NoInstance}
      /\ call[t].op \in {"reset", "complete"} => row.state = old.state
      /\ call[t].op \notin {"reset", "complete"} =>
            row.state = IF old.state = "recycling" THEN "destroyed" ELSE "error"
  BY <1>3, <1>4, AfterwardsHas
<1>9. row.state # "ready" /\ (call[t].op = "reset" => ~Over(row))
  BY <1>3, <1>8 DEF Over
<1>10. Shape(c)
  BY <1>3, <1>7, <1>9 DEF Shape, BuildPcs, ProvisionPcs
<1>11. c.op = "reap" /\ SecondHalf(c) => SecondHalf(call[t])
  BY <1>1, <1>2, <1>7, <1>8 DEF SecondHalf
<1>12. CopyHolds(c, overtaken'[t], rows', vms' \union doubtful')
  <2>1. /\ (c.row.completed <=> call[t].row.completed) /\ ~Over(call[t].row)
        /\ c.row.instance \in {call[t].row.instance, NoInstance} /\ c.row.state # "ready"
    BY <1>2, <1>3, <1>7, <1>8, <1>9
  <2>2. QED
    BY <1>1, <1>6, <1>7, <2>1, CopyOn
<1>13. TakesOwn(t)
  BY DestroysOwn
<1>14. c.pc \notin {"idle", "record", "listed", "claimed", "drainlist", "draining"}
  BY <1>7
<1>15. QED
  BY <1>1, <1>6, <1>7, <1>10, <1>11, <1>12, <1>13, <1>14, KeepsOn

LEMMA DestroyedSaveReads ==
    ASSUME Inv, NEW t \in Calls, Remember(t), DestroyedSave(t)
    PROVE  ReadInv' /\ StaysOver
<1>1. /\ call[t].pc = "destroyed" /\ call[t].pc \in SavePcs /\ Save(t, call[t].row)
      /\ UNCHANGED <<vms, results>>
  BY DEF DestroyedSave, At, SavePcs
<1>2. CASE call[t].op = "reset"
  <2>1. Go(t, "claim")
    BY <1>2 DEF DestroyedSave
  <2>2. SavedThen(call[t], "claim")
    BY <1>1, <1>2 DEF SavedThen
  <2>3. QED
    BY <1>1, <2>1, <2>2, SavesGoingOn
<1>3. CASE call[t].op = "reap"
  <2>1. PICK s : s = call[t].sid
    OBVIOUS
  <2>2. PICK pc : pc = IF call[t].row.state = "error" THEN "stuck" ELSE "sweep"
    OBVIOUS
  <2>3. PICK c : c = [call[t] EXCEPT !.row = NoRow, !.sid = 0, !.pc = pc]
    OBVIOUS
  <2>4. Moves(t, c)
    BY <1>3, <2>2, <2>3 DEF DestroyedSave, Moves
  <2>5. s \in Sids /\ call[t] \in Call /\ Lists(call[t]) /\ Fine(call[t])
    BY <1>1, <2>1, InHand DEF Inv, StateInv, ReadInv, CallsFine, RowPcs
  <2>6. c.pc = pc /\ c.sid = 0 /\ c.op = "reap" /\ c.snap = call[t].snap
    BY <1>3, <2>3, <2>5 DEF Call
  <2>7. c.pc \in {"sweep", "stuck"} /\ (c.pc = "stuck" => SecondHalf(call[t]))
    BY <1>1, <2>2, <2>6 DEF SecondHalf
  <2>8. Shape(c)
    BY <2>6, <2>7 DEF Shape
  <2>9. Lists(c)
    <3>1. SecondHalf(c) => SecondHalf(call[t])
      BY <2>7 DEF SecondHalf
    <3>2. \A i \in Sids : i # 0
      BY DEF Sids
    <3>3. QED
      BY <1>1, <1>3, <2>5, <2>6, <2>7, <3>1, <3>2 DEF Lists
  <2>10. rows' = [rows EXCEPT ![s] = call[t].row]
    BY <1>1, <2>1 DEF Save
  <2>11. MachinesApart' /\ StaysOver /\ TakesOwn(t)
    BY <1>1, <2>1, <2>5, <2>10, SaveStands
  <2>12. c.pc \notin {"record", "listed", "claimed", "drainlist", "draining"}
    BY <2>7
  <2>13. Counted'
    BY <1>1, <2>1, <2>4, <2>5, <2>12, SaveCounts
  <2>14. CopyHolds(c, overtaken'[t], rows', vms' \union doubtful')
    <3>1. \A i \in Sids : c.snap[i] = NoRow \/ c.snap[i].state # "absent"
      BY <2>5, <2>6 DEF Fine, CarriesListing, Fit
    <3>2. QED
      BY <2>6, <2>9, <2>12, <3>1, NotInHand
  <2>15. ListHolds(c, overtaken'[t], rows') /\ ClaimsHold(c, overtaken'[t], rows')
    <3>1. ListHolds(c, overtaken'[t], rows')
      BY <2>1, <2>4, <2>5, <2>6, <2>10, ListSaved
    <3>2. QED
      BY <2>12, <3>1 DEF ClaimsHold
  <2>16. Holds(c, overtaken'[t], rows', vms' \union doubtful')
    BY <2>14, <2>15 DEF Holds
  <2>17. QED
    BY <2>4, <2>8, <2>9, <2>11, <2>13, <2>16, OneReads
<1>4. CASE call[t].op \notin {"reset", "reap"}
  <2>1. Return(t)
    BY <1>4 DEF DestroyedSave
  <2>2. QED
    BY <1>1, <2>1, SavesAndReturns
<1>5. QED
  BY <1>2, <1>3, <1>4

\* A listing that is the table's.
LEMMA FreshListing ==
    ASSUME Inv, NEW t \in Calls, Remember(t), NEW c, Moves(t, c), NEW states,
           states \subseteq Watched \union Building, c.snap = Snapshot(states),
           c.op = "reap", c.sid = 0, c.pc \in {"sweep", "stuck"},
           c.pc = "stuck" => states \subseteq Building, UNCHANGED <<rows, vms, results>>
    PROVE  ReadInv' /\ StaysOver
<1>1. \A i \in Sids : c.snap[i] # NoRow => rows[i].state \in states /\ c.snap[i] = rows[i]
  BY DEF Snapshot
<1>2. SecondHalf(c) => c.pc = "stuck"
  BY DEF SecondHalf
<1>3. \A i \in Sids : i # 0
  BY DEF Sids
<1>4. Lists(c)
  BY <1>1, <1>2, <1>3 DEF Lists
<1>5. Shape(c)
  BY DEF Shape
<1>6. ListHolds(c, overtaken'[t], rows') /\ ClaimsHold(c, overtaken'[t], rows')
  BY <1>1 DEF ListHolds, ClaimsHold
<1>7. \A i \in Sids : c.snap[i] = NoRow \/ c.snap[i].state # "absent"
  BY <1>1 DEF Watched, Building
<1>8. c.pc \notin {"record", "listed", "claimed", "drainlist", "draining"}
  OBVIOUS
<1>9. CopyHolds(c, overtaken'[t], rows', vms' \union doubtful')
  BY <1>4, <1>7, <1>8, NotInHand
<1>10. Holds(c, overtaken'[t], rows', vms' \union doubtful')
  BY <1>6, <1>9 DEF Holds
<1>11. TakesOwn(t)
  BY DEF TakesOwn
<1>12. QED
  BY <1>4, <1>5, <1>8, <1>10, <1>11, GoesOn

LEMMA ListingsRead ==
    ASSUME Inv, NEW t \in Calls, Remember(t), ReapList(t) \/ StuckList(t)
    PROVE  ReadInv' /\ StaysOver
<1>1. UNCHANGED <<rows, vms, results>>
  BY DEF ReapList, StuckList
<1>2. CASE ReapList(t)
  <2>1. PICK c : c = [NoCall EXCEPT !.op = "reap", !.pc = "sweep",
                                    !.snap = Snapshot(Watched), !.now = clock]
    OBVIOUS
  <2>2. Moves(t, c)
    BY <1>2, <2>1 DEF ReapList, Moves
  <2>3. c.op = "reap" /\ c.sid = 0 /\ c.pc = "sweep" /\ c.snap = Snapshot(Watched)
    BY <2>1 DEF NoCall
  <2>4. c.pc \in {"sweep", "stuck"} /\ c.pc # "stuck"
    BY <2>3
  <2>5. QED
    BY <1>1, <2>2, <2>3, <2>4, FreshListing
<1>3. CASE StuckList(t)
  <2>1. /\ call[t] \in Call /\ call[t].pc = "sweep" /\ call[t].sid = 0 /\ call[t].op = "reap"
    BY <1>3 DEF StuckList, At, Inv, StateInv, ReadInv, CallsFine, Fine, CarriesRow, RowPcs,
       ProvisionPcs, Shape
  <2>2. PICK c : c = [call[t] EXCEPT !.pc = "stuck", !.snap = Snapshot(Building)]
    OBVIOUS
  <2>3. Moves(t, c)
    BY <1>3, <2>2 DEF StuckList, Moves
  <2>4. c.op = "reap" /\ c.sid = 0 /\ c.pc = "stuck" /\ c.snap = Snapshot(Building)
    BY <2>1, <2>2 DEF Call
  <2>5. c.pc \in {"sweep", "stuck"} /\ Building \subseteq Watched \union Building
    BY <2>4
  <2>6. QED
    BY <1>1, <2>3, <2>4, <2>5, FreshListing
<1>4. QED
  BY <1>2, <1>3

\* A listed session is taken in hand with the row the listing has of it, which is the
\* table's unless it was overtaken ...
LEMMA TakesReads ==
    ASSUME Inv, NEW t \in Calls, Remember(t), NEW s \in Listed(t),
           call[t].pc \in {"sweep", "stuck"}, NEW pc \in {"recycle", "destroy"}, NEW row,
           call' = [call EXCEPT ![t].pc = pc, ![t].sid = s, ![t].row = row,
                                ![t].snap[s] = NoRow],
           row.instance = call[t].snap[s].instance,
           row.completed <=> call[t].snap[s].completed,
           pc = "recycle" => row.state = "recycling",
           pc = "destroy" => call[t].pc = "stuck" /\ row.state = call[t].snap[s].state,
           UNCHANGED <<rows, vms, results>>
    PROVE  ReadInv' /\ StaysOver
<1>1. call[t] \in Call /\ s \in Sids /\ s # 0 /\ call[t].snap[s] # NoRow
  BY DEF Listed, NoRow, Sids, Inv, StateInv, CallsFine
<1>2. Lists(call[t]) /\ ListHolds(call[t], overtaken[t], rows)
  BY DEF Inv, ReadInv, Holds
<1>3. /\ call[t].op = "reap" /\ call[t].snap[s].state \in Watched \union Building
      /\ SecondHalf(call[t]) <=> call[t].pc = "stuck"
  BY <1>1, <1>2 DEF Lists, SecondHalf
<1>4. pc = "destroy" => call[t].snap[s].state \in Building
  BY <1>1, <1>2, <1>3 DEF Lists
<1>5. PICK listing : listing = [call[t].snap EXCEPT ![s] = NoRow]
  OBVIOUS
<1>6. PICK c : c = [call[t] EXCEPT !.pc = pc, !.sid = s, !.row = row, !.snap = listing]
  OBVIOUS
<1>7. Moves(t, c)
  BY <1>1, <1>5, <1>6 DEF Call, Moves
<1>8. c.pc = pc /\ c.sid = s /\ c.row = row /\ c.snap = listing /\ c.op = "reap"
  BY <1>1, <1>3, <1>6 DEF Call
<1>9. /\ listing[s] = NoRow
      /\ \A i \in Sids : listing[i] # NoRow => i # s /\ listing[i] = call[t].snap[i]
  BY <1>1, <1>5 DEF Call
<1>10. ~Over(row) /\ row.state # "ready" /\ ~Over(call[t].snap[s])
  BY <1>3, <1>4 DEF Over, TerminalStates, Watched, Building
<1>11. Shape(c)
  BY <1>8, <1>10 DEF Shape, BuildPcs, ProvisionPcs
<1>12. Lists(c)
  <2>1. SecondHalf(c) => SecondHalf(call[t])
    BY <1>3, <1>8 DEF SecondHalf
  <2>2. ASSUME NEW i \in Sids, c.snap[i] # NoRow
        PROVE  /\ i # s /\ c.snap[i].state \in Watched \union Building
               /\ SecondHalf(c) => c.snap[i].state \in Building
    BY <1>2, <1>8, <1>9, <2>1, <2>2 DEF Lists
  <2>3. QED
    BY <1>8, <2>2 DEF Lists
<1>13. CopyHolds(c, overtaken'[t], rows', vms' \union doubtful')
  <2> SUFFICES ASSUME Held(c, overtaken'[t])
               PROVE  CopyHolds(c, overtaken'[t], rows', vms' \union doubtful')
    BY DEF CopyHolds
  <2>1. overtaken'[t] = overtaken[t] \intersect Knows(c)
    BY <1>7, MovesOn
  <2>2. s \notin overtaken[t]
    BY <1>8, <2>1 DEF Held
  <2>3. call[t].snap[s] = rows[s]
    BY <1>1, <1>2, <2>2 DEF ListHolds
  <2>4. pc = "destroy" => rows[s].state # "ready"
    BY <1>4, <2>3 DEF Building
  <2>5. QED
    BY <1>8, <1>10, <2>3, <2>4 DEF CopyHolds
<1>14. ListHolds(c, overtaken'[t], rows')
  BY <1>7, <1>8, <1>9, ListOn
<1>15. ClaimsHold(c, overtaken'[t], rows')
  BY <1>8 DEF ClaimsHold
<1>16. Holds(c, overtaken'[t], rows', vms' \union doubtful')
  BY <1>13, <1>14, <1>15 DEF Holds
<1>17. TakesOwn(t) /\ c.pc # "record"
  BY <1>8 DEF TakesOwn
<1>18. QED
  BY <1>7, <1>11, <1>12, <1>16, <1>17, GoesOn

\* ... or crossed off.
LEMMA CrossesOffReads ==
    ASSUME Inv, NEW t \in Calls, Remember(t), NEW s \in Listed(t),
           call[t].pc \in {"sweep", "stuck"}, call' = [call EXCEPT ![t].snap[s] = NoRow],
           UNCHANGED <<rows, vms, results>>
    PROVE  ReadInv' /\ StaysOver
<1>1. /\ call[t] \in Call /\ call[t].sid = 0 /\ Fine(call[t])
      /\ s \in Sids /\ call[t].snap[s] # NoRow
  BY DEF Listed, NoRow, Inv, StateInv, CallsFine, Fine, CarriesRow, RowPcs, ProvisionPcs
<1>2. Lists(call[t]) /\ Shape(call[t])
  BY DEF Inv, ReadInv
<1>3. call[t].op = "reap"
  BY <1>1, <1>2 DEF Lists
<1>4. PICK listing : listing = [call[t].snap EXCEPT ![s] = NoRow]
  OBVIOUS
<1>5. PICK c : c = [call[t] EXCEPT !.snap = listing]
  OBVIOUS
<1>6. Moves(t, c)
  BY <1>1, <1>4, <1>5 DEF Call, Moves
<1>7. c.pc = call[t].pc /\ c.sid = 0 /\ c.snap = listing /\ c.op = "reap" /\ c.row = call[t].row
  BY <1>1, <1>3, <1>5 DEF Call
<1>8. /\ \A i \in Sids : listing[i] # NoRow => listing[i] = call[t].snap[i]
  BY <1>1, <1>4 DEF Call
<1>9. c.pc \notin {"idle", "record", "insert", "listed", "claimed", "drainlist", "draining"}
  BY <1>7
<1>10. Shape(c)
  BY <1>7, <1>9 DEF Shape
<1>11. Lists(c)
  <2>1. SecondHalf(c) => SecondHalf(call[t])
    BY <1>7 DEF SecondHalf
  <2>2. \A i \in Sids : i # 0
    BY DEF Sids
  <2>3. QED
    BY <1>2, <1>7, <1>8, <1>9, <2>1, <2>2 DEF Lists
<1>12. CopyHolds(c, overtaken'[t], rows', vms' \union doubtful')
  <2>1. \A i \in Sids : c.snap[i] = NoRow \/ c.snap[i].state # "absent"
    BY <1>1, <1>7, <1>8 DEF Fine, CarriesListing, Fit
  <2>2. QED
    BY <1>7, <1>9, <1>11, <2>1, NotInHand
<1>13. ListHolds(c, overtaken'[t], rows')
  BY <1>6, <1>7, <1>8, ListOn
<1>14. ClaimsHold(c, overtaken'[t], rows')
  BY <1>9 DEF ClaimsHold
<1>15. Holds(c, overtaken'[t], rows', vms' \union doubtful')
  BY <1>12, <1>13, <1>14 DEF Holds
<1>16. TakesOwn(t)
  BY DEF TakesOwn
<1>17. QED
  BY <1>6, <1>9, <1>10, <1>11, <1>15, <1>16, GoesOn

LEMMA SweepsRead ==
    ASSUME Inv, NEW t \in Calls, Remember(t), NEW s \in Sids,
           SweepNext(t, s) \/ StuckNext(t, s)
    PROVE  ReadInv' /\ StaysOver
<1>1. /\ s \in Listed(t) /\ call[t].pc \in {"sweep", "stuck"}
      /\ UNCHANGED <<rows, vms, results>>
  BY DEF SweepNext, StuckNext, At
<1>2. PICK old : old = call[t].snap[s]
  OBVIOUS
<1>3. old \in Row
  BY <1>2 DEF Inv, StateInv, CallsFine, Call
<1>4. CASE call' = [call EXCEPT ![t].snap[s] = NoRow]
  BY <1>1, <1>4, CrossesOffReads
<1>5. CASE SweepNext(t, s) /\ call' # [call EXCEPT ![t].snap[s] = NoRow]
  <2>1. PICK row : row = [old EXCEPT !.state = "recycling"]
    OBVIOUS
  <2>2. call' = [call EXCEPT ![t].pc = "recycle", ![t].sid = s, ![t].row = row,
                             ![t].snap[s] = NoRow]
    BY <1>2, <1>5, <2>1 DEF SweepNext
  <2>3. /\ row.state = "recycling" /\ row.instance = old.instance
        /\ (row.completed <=> old.completed)
    BY <1>3, <2>1 DEF Row
  <2>4. PICK pc \in {"recycle", "destroy"} : pc = "recycle"
    OBVIOUS
  <2>5. call' = [call EXCEPT ![t].pc = pc, ![t].sid = s, ![t].row = row,
                             ![t].snap[s] = NoRow]
    BY <2>2, <2>4
  <2>6. QED
    BY <1>1, <1>2, <2>3, <2>4, <2>5, TakesReads
<1>6. CASE StuckNext(t, s) /\ call' # [call EXCEPT ![t].snap[s] = NoRow]
  <2>1. call[t].pc = "stuck"
    BY <1>6 DEF StuckNext, At
  <2>2. PICK pc \in {"recycle", "destroy"} : pc = "destroy"
    OBVIOUS
  <2>3. call' = [call EXCEPT ![t].pc = pc, ![t].sid = s, ![t].row = old,
                             ![t].snap[s] = NoRow]
    BY <1>2, <1>6, <2>2 DEF StuckNext
  <2>4. QED
    BY <1>1, <1>2, <2>1, <2>2, <2>3, TakesReads
<1>7. QED
  BY <1>4, <1>5, <1>6

LEMMA PrewarmsRead ==
    ASSUME Inv, NEW t \in Calls, Remember(t),
           \/ RefillStatus(t) \/ \E sc \in Scenarios : PrewarmList(t, sc)
           \/ PrewarmClone(t) \/ PrewarmBooted(t) \/ PrewarmFails(t)
    PROVE  ReadInv' /\ StaysOver
<1>1. /\ call[t].pc \in {"stuck", "refill", "prewarm", "boot"}
      /\ UNCHANGED <<rows, results>> /\ vms \subseteq vms'
  BY DEF RefillStatus, PrewarmList, PrewarmClone, PrewarmBooted, PrewarmFails, At
<1>2. call[t] \in Call /\ call[t].sid = 0
  BY <1>1 DEF Inv, StateInv, CallsFine, Fine, CarriesRow, RowPcs, ProvisionPcs
<1>3. ASSUME NEW c, Moves(t, c),
             c.sid = call[t].sid, c.op = call[t].op, c.snap = call[t].snap,
             c.pc \in {"refill", "prewarm", "boot"}
      PROVE  ReadInv' /\ StaysOver
  <2>1. Shape(c)
    BY <1>2, <1>3 DEF Shape
  <2>2. c.pc \in {"queued", "refill", "prewarm", "boot"}
    BY <1>3
  <2>3. QED
    BY <1>1, <1>2, <1>3, <2>1, <2>2, KeepsFree
<1>4. CASE RefillStatus(t)
  <2>1. PICK c : c = [call[t] EXCEPT !.pc = "refill",
                                     !.want = [sc \in Scenarios |-> Deficit(sc)]]
    OBVIOUS
  <2>2. Moves(t, c)
    BY <1>4, <2>1 DEF RefillStatus, Moves
  <2>3. /\ c.sid = call[t].sid /\ c.op = call[t].op /\ c.snap = call[t].snap
        /\ c.pc \in {"refill", "prewarm", "boot"}
    BY <1>2, <2>1 DEF Call
  <2>4. QED
    BY <1>3, <2>2, <2>3
<1>5. ASSUME NEW sc \in Scenarios, PrewarmList(t, sc)
      PROVE  ReadInv' /\ StaysOver
  <2> DEFINE count == IF call[t].want[sc] < Budget THEN call[t].want[sc] ELSE Budget
             want == [call[t].want EXCEPT ![sc] = count]
             pc == IF count = 0 THEN "refill" ELSE "prewarm"
             pool == IF count = 0 THEN call[t].pool ELSE sc
  <2>1. PICK c : c = [call[t] EXCEPT !.pc = pc, !.pool = pool, !.want = want,
                                     !.index = NextPoolIndex(sc)]
    OBVIOUS
  <2>2. Moves(t, c)
    BY <1>2, <1>5, <2>1 DEF PrewarmList, Call, Moves
  <2>3. pc \in {"refill", "prewarm", "boot"}
    OBVIOUS
  <2> HIDE DEF count, want, pc, pool
  <2>4. c.sid = call[t].sid /\ c.op = call[t].op /\ c.snap = call[t].snap /\ c.pc = pc
    BY <1>2, <2>1 DEF Call
  <2>5. QED
    BY <1>3, <2>2, <2>3, <2>4
<1>6. CASE PrewarmClone(t)
  <2>1. PICK c : c = [call[t] EXCEPT !.pc = "boot"]
    OBVIOUS
  <2>2. Moves(t, c)
    BY <1>6, <2>1 DEF PrewarmClone, Go, Moves
  <2>3. /\ c.sid = call[t].sid /\ c.op = call[t].op /\ c.snap = call[t].snap
        /\ c.pc \in {"refill", "prewarm", "boot"}
    BY <1>2, <2>1 DEF Call
  <2>4. QED
    BY <1>3, <2>2, <2>3
<1>7. CASE PrewarmBooted(t)
  <2> DEFINE left == call[t].want[call[t].pool] - 1
             want == [call[t].want EXCEPT ![call[t].pool] = left]
             pc == IF left = 0 THEN "refill" ELSE "prewarm"
             pool == IF left = 0 THEN Nobody ELSE call[t].pool
             index == IF left = 0 THEN 0 ELSE call[t].index + 1
  <2>1. PICK c : c = [call[t] EXCEPT !.want = want, !.pc = pc, !.pool = pool, !.index = index]
    OBVIOUS
  <2>2. Moves(t, c)
    BY <1>2, <1>7, <2>1 DEF PrewarmBooted, Call, Moves
  <2>3. pc \in {"refill", "prewarm", "boot"}
    OBVIOUS
  <2> HIDE DEF left, want, pc, pool, index
  <2>4. c.sid = call[t].sid /\ c.op = call[t].op /\ c.snap = call[t].snap /\ c.pc = pc
    BY <1>2, <2>1 DEF Call
  <2>5. QED
    BY <1>3, <2>2, <2>3, <2>4
<1>8. CASE PrewarmFails(t)
  <2> DEFINE want == [call[t].want EXCEPT ![call[t].pool] = 0]
  <2>1. PICK c : c = [call[t] EXCEPT !.want = want, !.pc = "refill", !.pool = Nobody,
                                     !.index = 0]
    OBVIOUS
  <2>2. Moves(t, c)
    BY <1>2, <1>8, <2>1 DEF PrewarmFails, Call, Moves
  <2> HIDE DEF want
  <2>3. /\ c.sid = call[t].sid /\ c.op = call[t].op /\ c.snap = call[t].snap
        /\ c.pc \in {"refill", "prewarm", "boot"}
    BY <1>2, <2>1 DEF Call
  <2>4. QED
    BY <1>3, <2>2, <2>3
<1>9. QED
  BY <1>4, <1>5, <1>6, <1>7, <1>8

\* A drain takes machines nobody had claimed, and nobody it has not been overtaken by
\* has claimed since.
LEMMA DrainsOwn ==
    ASSUME Inv, NEW t \in Calls, Remember(t), DrainNext(t)
    PROVE  TakesOwn(t)
<1>1. call[t].pc = "draining" /\ rows' = rows
  BY DEF DrainNext, At
<1>2. ASSUME NEW m \in vms \ vms', NEW i \in Sids,
             m \notin doubtful', ~Over(rows[i]), rows[i].instance = m
      PROVE  FALSE
  <2>1. m \in call[t].names
    BY <1>2 DEF DrainNext
  <2>2. m # NoInstance
    BY <1>2, NamesAreNames DEF Inv, StateInv
  <2>3. CASE i \in overtaken[t]
    <3>1. m \in Elsewhere(t)
      BY <1>2, <2>3 DEF Elsewhere, Over
    <3>2. m \in Misjudged(t)
      BY <1>2, <3>1 DEF Misjudged
    <3>3. QED
      BY <1>2, <2>2, <3>2 DEF Remember
  <2>4. CASE i \notin overtaken[t]
    <3>1. ClaimsHold(call[t], overtaken[t], rows)
      BY DEF Inv, ReadInv, Holds
    <3>2. QED
      BY <1>1, <1>2, <2>1, <2>2, <2>4, <3>1 DEF ClaimsHold
  <2>5. QED
    BY <2>3, <2>4
<1>3. QED
  BY <1>2 DEF TakesOwn

LEMMA DrainsOn ==
    ASSUME Inv, NEW t \in Calls, Remember(t), NEW c, Moves(t, c),
           call[t].sid = 0, c.sid = 0, c.op = call[t].op, c.snap = call[t].snap,
           c.pc \in {"drainlist", "draining"},
           UNCHANGED <<rows, results>>, TakesOwn(t), ClaimsHold(c, overtaken'[t], rows')
    PROVE  ReadInv' /\ StaysOver
<1>1. Shape(c) /\ ~SecondHalf(c) /\ c.pc # "idle" /\ c.pc # "record"
  BY DEF Shape, SecondHalf
<1>2. Lists(call[t]) /\ Fine(call[t])
  BY MovesOn
<1>3. Lists(c)
  BY <1>1, <1>2, ListsOn
<1>4. ListHolds(c, overtaken'[t], rows')
  BY ListOn
<1>5. CopyHolds(c, overtaken'[t], rows', vms' \union doubtful')
  <2>1. \A i \in Sids : i # 0
    BY DEF Sids
  <2>2. c.sid \notin Sids
    BY <2>1
  <2>3. QED
    BY <2>2 DEF CopyHolds, Held, Knows
<1>6. Holds(c, overtaken'[t], rows', vms' \union doubtful')
  BY <1>4, <1>5 DEF Holds
<1>7. QED
  BY <1>1, <1>3, <1>6, GoesOn

LEMMA DrainsRead ==
    ASSUME Inv, NEW t \in Calls, Remember(t), DrainClaims(t) \/ DrainList(t) \/ DrainNext(t)
    PROVE  ReadInv' /\ StaysOver
<1>1. /\ call[t].pc \in {"drain", "drainlist", "draining"} /\ UNCHANGED <<rows, results>>
      /\ ~DrainNext(t) => vms' = vms
  BY DEF DrainClaims, DrainList, DrainNext, At
<1>2. call[t] \in Call /\ call[t].sid = 0
  BY <1>1 DEF Inv, StateInv, CallsFine, Fine, CarriesRow, RowPcs, ProvisionPcs
<1>3. TakesOwn(t)
  <2>1. CASE DrainNext(t)
    BY <2>1, DrainsOwn
  <2>2. CASE ~DrainNext(t)
    BY <1>1, <2>2 DEF TakesOwn
  <2>3. QED
    BY <2>1, <2>2
<1>4. ClaimsHold(call[t], overtaken[t], rows)
  BY DEF Inv, ReadInv, Holds
<1>5. ASSUME NEW c, Moves(t, c), c.pc = "draining", call[t].pc \in {"drainlist", "draining"}
      PROVE  \A i \in Sids \ overtaken'[t] : i \notin overtaken[t]
  <2>1. overtaken'[t] = overtaken[t] \intersect Knows(c)
    BY <1>5, MovesOn
  <2>2. \A i \in Sids : i \in Knows(c)
    BY <1>5 DEF Knows
  <2>3. QED
    BY <2>1, <2>2
<1>6. CASE DrainClaims(t)
  <2>1. PICK c : c = [call[t] EXCEPT !.pc = "drainlist", !.names = ClaimedInstances]
    OBVIOUS
  <2>2. /\ Moves(t, c) /\ c.pc = "drainlist" /\ c.names = ClaimedInstances
        /\ c.sid = 0 /\ c.op = call[t].op /\ c.snap = call[t].snap
    BY <1>2, <1>6, <2>1 DEF DrainClaims, Call, Moves
  <2>3. ClaimsHold(c, overtaken'[t], rows')
    BY <1>1, <2>2 DEF ClaimsHold, ClaimedInstances, Over
  <2>4. QED
    BY <1>1, <1>2, <1>3, <2>2, <2>3, DrainsOn
<1>7. CASE DrainList(t)
  <2>1. PICK available \in SUBSET (PoolInstances(call[t].pool) \ call[t].names) :
          call' = [call EXCEPT ![t].pc = "draining", ![t].names = available]
    BY <1>7 DEF DrainList
  <2>2. PICK c : c = [call[t] EXCEPT !.pc = "draining", !.names = available]
    OBVIOUS
  <2>3. /\ Moves(t, c) /\ c.pc = "draining" /\ c.names = available
        /\ c.sid = 0 /\ c.op = call[t].op /\ c.snap = call[t].snap
    BY <1>2, <2>1, <2>2 DEF Call, Moves
  <2>4. call[t].pc = "drainlist"
    BY <1>7 DEF DrainList, At
  <2>5. \A i \in Sids \ overtaken'[t] : i \notin overtaken[t]
    BY <1>5, <2>3, <2>4
  <2>6. ClaimsHold(c, overtaken'[t], rows')
    BY <1>1, <1>4, <2>1, <2>3, <2>4, <2>5 DEF ClaimsHold
  <2>7. QED
    BY <1>1, <1>2, <1>3, <2>3, <2>6, DrainsOn
<1>8. CASE DrainNext(t) /\ call[t].names = {}
  <2>1. Return(t)
    BY <1>8 DEF DrainNext
  <2>2. QED
    BY <1>1, <1>3, <2>1, Returns
<1>9. CASE DrainNext(t) /\ call[t].names # {}
  <2>1. PICK m \in call[t].names : call' = [call EXCEPT ![t].names = @ \ {m}]
    BY <1>9 DEF DrainNext
  <2>2. PICK c : c = [call[t] EXCEPT !.names = @ \ {m}]
    OBVIOUS
  <2>3. call[t].pc = "draining"
    BY <1>9 DEF DrainNext, At
  <2>4. /\ Moves(t, c) /\ c.pc = "draining" /\ c.names = call[t].names \ {m}
        /\ c.sid = 0 /\ c.op = call[t].op /\ c.snap = call[t].snap
    BY <1>2, <2>1, <2>2, <2>3 DEF Call, Moves
  <2>5. \A i \in Sids \ overtaken'[t] : i \notin overtaken[t]
    BY <1>5, <2>3, <2>4
  <2>6. ClaimsHold(c, overtaken'[t], rows')
    BY <1>1, <1>4, <2>3, <2>4, <2>5 DEF ClaimsHold
  <2>7. QED
    BY <1>1, <1>2, <1>3, <2>4, <2>6, DrainsOn
<1>10. QED
  BY <1>6, <1>7, <1>8, <1>9

\* A call that is gone holds nothing, and the others what they held.
LEMMA CrashesRead ==
    ASSUME Inv, WebCrash \/ \E t \in Calls : CliCrash(t), Forget
    PROVE  ReadInv' /\ StaysOver
<1>1. UNCHANGED <<rows, vms, results, crossed, doubtful>>
  BY DEF WebCrash, CliCrash, Forget
<1>2. \A d \in Calls : call'[d] = call[d] \/ call'[d] = NoCall
  <2>1. CASE WebCrash
    BY <2>1 DEF WebCrash
  <2>2. CASE \E t \in Calls : CliCrash(t)
    BY <2>2 DEF CliCrash, Return, Inv, StateInv, CallsFine
  <2>3. QED
    BY <2>1, <2>2
<1>3. ASSUME NEW d \in Calls
      PROVE  /\ Shape(call'[d]) /\ Lists(call'[d])
             /\ Holds(call'[d], overtaken'[d], rows', vms' \union doubtful')
  <2>1. CASE call'[d] = NoCall
    BY <2>1, RestIsFine
  <2>2. CASE call'[d] = call[d]
    <3>1. PICK c, gone, old : c = call[d] /\ gone = overtaken'[d] /\ old = overtaken[d]
      OBVIOUS
    <3>2. /\ gone = old \intersect Knows(c) /\ Fine(c) /\ Shape(c) /\ Lists(c)
          /\ Holds(c, old, rows, vms \union doubtful)
      BY <2>2, <3>1 DEF Forget, Inv, ReadInv, StateInv, CallsFine
    <3>3. Held(c, gone) => Held(c, old)
      BY <3>2 DEF Held
    <3>4. CopyHolds(c, gone, rows, vms \union doubtful)
      BY <3>2, <3>3 DEF Holds, CopyHolds
    <3>5. ListHolds(c, gone, rows)
      BY <3>2, KnowsOf DEF Holds, ListHolds
    <3>6. ClaimsHold(c, gone, rows)
      BY <3>2, KnowsOf DEF Holds, ClaimsHold
    <3>7. QED
      BY <1>1, <2>2, <3>1, <3>2, <3>4, <3>5, <3>6 DEF Holds
  <2>3. QED
    BY <1>2, <2>1, <2>2
<1>4. \A d \in Calls, s \in Sids : Recording(call'[d], s) => Recording(call[d], s)
  BY <1>2, RestIsFine DEF Recording
<1>5. Counted'
  <2>1. ASSUME NEW i \in Sids \ crossed'
        PROVE  /\ results'[i] <= 1 /\ (results'[i] = 1 => rows'[i].completed)
               /\ \A d \in Calls : Recording(call'[d], i) =>
                      /\ results'[i] = 0 /\ rows'[i].completed
                      /\ \A e \in Calls \ {d} : ~Recording(call'[e], i)
    BY <1>1, <1>4 DEF Inv, ReadInv, Counted
  <2>2. QED
    BY <2>1 DEF Counted, Recording
<1>6. MachinesApart'
  BY <1>1 DEF Inv, ReadInv, MachinesApart, ExclusiveMachine
<1>7. ReadInv'
  BY <1>3, <1>5, <1>6, ReadsAfter
<1>8. QED
  BY <1>1, <1>7 DEF StaysOver

LEMMA NothingMoves ==
    ASSUME Inv, UNCHANGED <<rows, vms, results, call, history>>
    PROVE  ReadInv' /\ StaysOver
<1>1. \A d \in Calls :
        /\ Shape(call'[d]) /\ Lists(call'[d])
        /\ Holds(call'[d], overtaken'[d], rows', vms' \union doubtful')
  BY DEF history, Inv, ReadInv
<1>2. Counted' /\ MachinesApart'
  BY DEF history, Inv, ReadInv, Counted, Recording, MachinesApart, ExclusiveMachine
<1>3. ReadInv'
  BY <1>1, <1>2, ReadsAfter
<1>4. QED
  BY <1>3 DEF StaysOver

LEMMA StepsRead ==
    ASSUME Inv, [Next]_vars
    PROVE  ReadInv' /\ StaysOver
<1>1. ASSUME NEW t \in Calls, Starts(t), Remember(t)
      PROVE  ReadInv' /\ StaysOver
  BY <1>1, StartsRead
<1>2. ASSUME NEW t \in Calls, Steps(t), Remember(t)
      PROVE  ReadInv' /\ StaysOver
  <2>1. CASE \/ TouchExisting(t) \/ Allocate(t) \/ KeepMachine(t) \/ Finish(t)
             \/ TouchBeforeClaim(t) \/ SaveRow(t) \/ CheckSave(t) \/ GradedSave(t)
             \/ RecycleSave(t)
    BY <1>2, <2>1, SavingStepsRead
  <2>2. CASE \/ InsertRow(t) \/ Enqueue(t) \/ Provision(t) \/ Release(t) \/ ListClaimed(t)
             \/ PickPool(t) \/ Clone(t) \/ MachineFails(t)
             \/ GuestAnswers(t) \/ GuestSilent(t)
    BY <1>2, <2>2, InsertRowReads, LockStepsRead, ListClaimedReads, PickPoolReads,
       CloneReads, GuestReads
  <2>3. CASE \/ Grade(t) \/ Verdict(t) \/ RecordResult(t) \/ DestroyInstance(t)
             \/ DestroyedSave(t)
    BY <1>2, <2>3, GradeReads, VerdictReads, RecordResultReads, DestroyInstanceReads,
       DestroyedSaveReads
  <2>4. CASE \/ ReapList(t) \/ StuckList(t)
             \/ \E s \in Sids : SweepNext(t, s) \/ StuckNext(t, s)
    BY <1>2, <2>4, ListingsRead, SweepsRead
  <2>5. CASE \/ RefillStatus(t) \/ \E sc \in Scenarios : PrewarmList(t, sc)
             \/ PrewarmClone(t) \/ PrewarmBooted(t) \/ PrewarmFails(t)
    BY <1>2, <2>5, PrewarmsRead
  <2>6. CASE RefillDone(t)
    <3>1. Return(t) /\ UNCHANGED <<rows, results>> /\ TakesOwn(t)
      BY <2>6 DEF RefillDone, TakesOwn
    <3>2. QED
      BY <1>2, <3>1, Returns
  <2>7. CASE DrainClaims(t) \/ DrainList(t) \/ DrainNext(t)
    BY <1>2, <2>7, DrainsRead
  <2>8. QED
    BY <1>2, <2>1, <2>2, <2>3, <2>4, <2>5, <2>6, <2>7 DEF Steps
<1>3. CASE (WebCrash \/ \E t \in Calls : CliCrash(t)) /\ Forget
  BY <1>3, CrashesRead
<1>4. CASE (Tick /\ UNCHANGED history) \/ UNCHANGED vars
  <2>1. UNCHANGED <<rows, vms, results, call, history>>
    BY <1>4 DEF Tick, vars, history
  <2>2. QED
    BY <2>1, NothingMoves
<1>5. QED
  BY <1>1, <1>2, <1>3, <1>4 DEF Next

LEMMA InitReads == Init => ReadInv
<1> SUFFICES ASSUME Init
             PROVE  ReadInv
  OBVIOUS
<1>1. \A t \in Calls : call[t] = NoCall
  BY DEF Init
<1>2. \A s \in Sids : rows[s] = NoRow /\ results[s] = 0
  BY DEF Init
<1>3. NoRow.instance = NoInstance /\ NoRow.state = "absent"
  BY DEF NoRow
<1>4. Counted
  BY <1>1, <1>2, RestIsFine DEF Counted, Recording
<1>5. MachinesApart
  BY <1>2, <1>3 DEF MachinesApart, ExclusiveMachine
<1>6. QED
  BY <1>1, <1>4, <1>5, RestIsFine DEF ReadInv

LEMMA ReadInvariant == Spec => []ReadInv
<1>1. StateInv /\ HistoryFits /\ ReadInv /\ [Next]_vars => ReadInv'
  BY StepsRead DEF Inv
<1>2. QED
  BY <1>1, InitReads, StateInvariant, HistoryInvariant, PTL DEF Spec

(***************************************************************************)
(* One submission, one result, however submissions, checks, edits, sweeps  *)
(* and crashes overlap: complete turns away a session that was handed in,  *)
(* and unless its row is written from a reading that was overtaken the     *)
(* mark on it is still what the call saw when it stores the result.        *)
(***************************************************************************)
THEOREM OneResultIsKept == Spec => []OneResult
<1>1. ReadInv => OneResult
  BY DEF ReadInv, Counted, OneResult
<1>2. QED
  BY <1>1, ReadInvariant, PTL

(***************************************************************************)
(* However builds, claims, ends, drains and edits overlap, no machine      *)
(* belongs to two sessions that are not over, but one that was taken on a  *)
(* reading that was overtaken: a claim takes what nobody has, a clone has  *)
(* its session's name, and a row written back has the machine it had.      *)
(***************************************************************************)
THEOREM MachinesAreExclusive == Spec => []ExclusiveMachine
<1>1. ReadInv => ExclusiveMachine
  BY DEF ReadInv, MachinesApart
<1>2. QED
  BY <1>1, ReadInvariant, PTL

(***************************************************************************)
(* A ready session has its machine, with the same exception: no drain, no  *)
(* sweep and no call of another session destroys it, and its own calls     *)
(* mark the row before they do.                                            *)
(***************************************************************************)
THEOREM ReadySessionsHaveMachines == Spec => []ReadyHasMachine
<1>1. ReadInv => ReadyHasMachine
  BY DEF ReadInv, MachinesApart, ReadyHasMachine
<1>2. QED
  BY <1>1, ReadInvariant, PTL

(***************************************************************************)
(* A session that is destroyed or in error stays so, whatever calls save   *)
(* from copies of its row that were not overtaken, a check apart.          *)
(***************************************************************************)
THEOREM OverIsOver == Spec => TerminalIsFinal
<1> DEFINE Final == \A s \in Sids \ crossed' :
                        rows[s].state \in TerminalStates => rows'[s].state \in TerminalStates
<1>1. StateInv /\ HistoryFits /\ ReadInv /\ [Next]_vars => [Final]_rows
  BY StepsRead DEF Inv, StaysOver, Over
<1>2. QED
  BY <1>1, StateInvariant, HistoryInvariant, ReadInvariant, PTL DEF Spec, TerminalIsFinal

-----------------------------------------------------------------------------
(***************************************************************************)
(* The pools, with one process to fill them.                               *)
(*                                                                         *)
(* The refill counts the machines, then creates what is missing one by     *)
(* one.  What it still wants is added to what there is: that sum is within *)
(* the bounds when the refill counts, creating a machine moves one from    *)
(* the first number to the second, and everybody else only takes away.     *)
(***************************************************************************)
Makes(t, op) == op \in (IF t \in WebCalls THEN WebOps ELSE CliOps)

\* Call r is the only one to sweep, and nobody prewarms on demand.
FillsAlone(r) ==
    /\ r \in Calls
    /\ \A t \in Calls : ~Makes(t, "prewarm") /\ (Makes(t, "reap") => t = r)

SweepPcs == {"sweep", "stuck", "refill", "prewarm", "boot"}

Size(sc) == Cardinality(PoolInstances(sc))

\* What call c still wants of pool sc; in boot one machine of it is there already.
Missing(c, sc) == IF c.pc = "boot" /\ sc = c.pool THEN c.want[sc] - 1 ELSE c.want[sc]

WantsWithin(c) ==
    /\ c.pc \in {"refill", "prewarm", "boot"} =>
            \A sc \in Scenarios : Size(sc) + Missing(c, sc) <= PoolTarget
    /\ c.pc \in {"prewarm", "boot"} => PoolTotal + Missing(c, c.pool) <= PoolCeiling

PoolsInv(r) ==
    /\ PoolsWithinBounds
    /\ \A t \in Calls \ {r} : call[t].op # "reap" /\ call[t].pc \notin SweepPcs
    /\ WantsWithin(call[r])

LEMMA SizesAreNat ==
    /\ \A sc \in Scenarios : Size(sc) \in Nat
    /\ PoolTotal \in Nat
  BY PoolIsFinite, PoolsAreFinite DEF Size

\* Clones and destructions take nothing into a pool.
LEMMA PoolsShrink ==
    ASSUME NEW clones, vms' \subseteq vms \union clones, \A m \in clones : m.kind = "session"
    PROVE  /\ \A sc \in Scenarios : Size(sc)' \in Nat /\ Size(sc)' <= Size(sc)
           /\ PoolTotal' \in Nat /\ PoolTotal' <= PoolTotal
<1> DEFINE all == UNION {PoolInstances(sc) : sc \in Scenarios}
<1>1. \A sc \in Scenarios : PoolInstances(sc)' \subseteq PoolInstances(sc)
  BY DEF PoolInstances, PoolNames, PoolName
<1>2. ASSUME NEW sc \in Scenarios
      PROVE  Size(sc)' \in Nat /\ Size(sc)' <= Size(sc)
  BY <1>1, PoolIsFinite, FS_Subset, FS_CardinalityType DEF Size
<1>3. all' \subseteq all
  BY <1>1
<1>4. PoolTotal = Cardinality(all) /\ PoolTotal' = Cardinality(all')
  BY DEF PoolTotal
<1>5. IsFiniteSet(all)
  BY PoolsAreFinite
<1> HIDE DEF all
<1>6. PoolTotal' \in Nat /\ PoolTotal' <= PoolTotal
  BY <1>3, <1>4, <1>5, FS_Subset, FS_CardinalityType
<1>7. QED
  BY <1>2, <1>6

\* An element more in a set is at most one more.
LEMMA OneMore ==
    ASSUME NEW S, IsFiniteSet(S), NEW x
    PROVE  Cardinality(S \union {x}) \in Nat /\ Cardinality(S \union {x}) <= Cardinality(S) + 1
<1>1. Cardinality(S) \in Nat
  BY FS_CardinalityType
<1>2. Cardinality(S \union {x}) = IF x \in S THEN Cardinality(S) ELSE Cardinality(S) + 1
  BY FS_AddElement
<1>3. QED
  BY <1>1, <1>2

\* One machine more is one more in its pool, and in all pools together.
LEMMA PoolsGrow ==
    ASSUME NEW sc \in Scenarios, NEW i \in 1..MaxIndex, vms' = vms \union {PoolName(sc, i)}
    PROVE  /\ Size(sc)' \in Nat /\ Size(sc)' <= Size(sc) + 1
           /\ \A o \in Scenarios \ {sc} : Size(o)' = Size(o)
           /\ PoolTotal' \in Nat /\ PoolTotal' <= PoolTotal + 1
<1> DEFINE all == UNION {PoolInstances(o) : o \in Scenarios}
<1>1. PICK m : m = PoolName(sc, i)
  OBVIOUS
<1>2. m \in PoolNames(sc) /\ \A o \in Scenarios \ {sc} : m \notin PoolNames(o)
  BY <1>1 DEF PoolNames, PoolName
<1>3. PoolInstances(sc)' = PoolInstances(sc) \union {m}
  BY <1>1, <1>2 DEF PoolInstances, PoolNames
<1>4. \A o \in Scenarios \ {sc} : PoolInstances(o)' = PoolInstances(o)
  BY <1>1, <1>2 DEF PoolInstances, PoolNames
<1>5. Size(sc)' \in Nat /\ Size(sc)' <= Size(sc) + 1
  BY <1>3, PoolIsFinite, OneMore DEF Size
<1>6. all' = all \union {m}
  BY <1>3, <1>4
<1>7. PoolTotal = Cardinality(all) /\ PoolTotal' = Cardinality(all')
  BY DEF PoolTotal
<1>8. IsFiniteSet(all)
  BY PoolsAreFinite
<1> HIDE DEF all
<1>9. PoolTotal' \in Nat /\ PoolTotal' <= PoolTotal + 1
  BY <1>6, <1>7, <1>8, OneMore
<1>10. QED
  BY <1>4, <1>5, <1>9 DEF Size

\* A call that fills no pool.
LEMMA PoolsStay ==
    ASSUME StateInv, NEW r, FillsAlone(r), PoolsInv(r), NEW t \in Calls,
           \A d \in Calls \ {t} : call'[d] = call[d],
           t # r => call'[t].op # "reap" /\ call'[t].pc \notin SweepPcs,
           call'[t].pc \notin {"refill", "prewarm", "boot"},
           NEW clones, vms' \subseteq vms \union clones, \A m \in clones : m.kind = "session"
    PROVE  PoolsInv(r)'
<1>1. /\ \A sc \in Scenarios : Size(sc) \in Nat /\ Size(sc)' \in Nat /\ Size(sc)' <= Size(sc)
      /\ PoolTotal \in Nat /\ PoolTotal' \in Nat /\ PoolTotal' <= PoolTotal
  BY PoolsShrink, SizesAreNat
<1>2. PoolsWithinBounds'
  BY <1>1, Bounds DEF PoolsInv, PoolsWithinBounds, Size
<1>3. \A d \in Calls \ {r} : call'[d].op # "reap" /\ call'[d].pc \notin SweepPcs
  BY DEF PoolsInv
<1>4. WantsWithin(call[r])'
  <2>1. CASE t = r
    BY <2>1 DEF WantsWithin
  <2>2. CASE t # r
    <3>1. call'[r] = call[r] /\ r \in Calls
      BY <2>2 DEF FillsAlone
    <3>2. /\ call[r].want \in [Scenarios -> Nat]
          /\ call[r].pc \in {"prewarm", "boot"} => call[r].pool \in Scenarios
      BY <3>1 DEF StateInv, CallsFine, Fine, Call, CarriesPool
    <3>3. \A sc \in Scenarios : Missing(call[r], sc) \in Int
      BY <3>2 DEF Missing
    <3>4. \A sc \in Scenarios : Missing(call[r], sc)' = Missing(call[r], sc)
      BY <3>1 DEF Missing
    <3>5. Missing(call[r], call[r].pool)' = Missing(call[r], call[r].pool)
      BY <3>1 DEF Missing
    <3>6. call[r].pc \in {"refill", "prewarm", "boot"} =>
             \A sc \in Scenarios : Size(sc)' + Missing(call[r], sc) <= PoolTarget
      BY <1>1, <3>3, Bounds DEF PoolsInv, WantsWithin
    <3>7. call[r].pc \in {"prewarm", "boot"} =>
             PoolTotal' + Missing(call[r], call[r].pool) <= PoolCeiling
      BY <1>1, <3>2, <3>3, Bounds DEF PoolsInv, WantsWithin
    <3>8. QED
      BY <3>1, <3>4, <3>5, <3>6, <3>7 DEF WantsWithin
  <2>3. QED
    BY <2>1, <2>2
<1>5. QED
  BY <1>2, <1>3, <1>4 DEF PoolsInv

\* A call that goes on outside the sweep and the refill.
QuietPcs == Pcs \ SweepPcs

LEMMA GoesQuietly ==
    ASSUME StateInv, NEW t \in Calls,
           \/ Return(t)
           \/ \E pc \in QuietPcs : Go(t, pc) \/ \E row : Become(t, pc, row)
    PROVE  /\ \A d \in Calls \ {t} : call'[d] = call[d]
           /\ call'[t].op \in {call[t].op, "none"} /\ call'[t].pc \notin SweepPcs
<1>1. call \in [Calls -> Call] /\ call[t] \in Call
  BY DEF StateInv, CallsFine
<1>2. CASE Return(t)
  <2>1. NoCall.op = "none" /\ NoCall.pc \notin SweepPcs
    BY DEF NoCall, SweepPcs
  <2>2. QED
    BY <1>1, <1>2, <2>1 DEF Return
<1>3. ASSUME NEW pc \in QuietPcs, Go(t, pc) \/ \E row : Become(t, pc, row)
      PROVE  /\ \A d \in Calls \ {t} : call'[d] = call[d]
             /\ call'[t].op = call[t].op /\ call'[t].pc = pc
  BY <1>1, <1>3 DEF Go, Become, Call
<1>4. QED
  BY <1>2, <1>3 DEF QuietPcs

QuietStep(t) ==
    \/ TouchExisting(t) \/ InsertRow(t) \/ Enqueue(t) \/ Provision(t) \/ Release(t)
    \/ Allocate(t) \/ ListClaimed(t) \/ PickPool(t) \/ KeepMachine(t)
    \/ Clone(t) \/ MachineFails(t) \/ GuestAnswers(t) \/ GuestSilent(t) \/ Finish(t)
    \/ TouchBeforeClaim(t) \/ SaveRow(t) \/ CheckSave(t) \/ Grade(t) \/ GradedSave(t)
    \/ Verdict(t) \/ RecordResult(t)
    \/ RecycleSave(t) \/ DestroyInstance(t)
    \/ DrainClaims(t) \/ DrainList(t) \/ DrainNext(t)

LEMMA QuietStepsAre ==
    ASSUME StateInv, NEW t \in Calls, QuietStep(t)
    PROVE  /\ \A d \in Calls \ {t} : call'[d] = call[d]
           /\ call'[t].op \in {call[t].op, "none"} /\ call'[t].pc \notin SweepPcs
<1> DEFINE Quiet == /\ \A d \in Calls \ {t} : call'[d] = call[d]
                    /\ call'[t].op \in {call[t].op, "none"} /\ call'[t].pc \notin SweepPcs
<1>1. call \in [Calls -> Call] /\ call[t] \in Call
  BY DEF StateInv, CallsFine
<1>2. {"handoff", "queued", "allocate", "release", "claim", "await", "cloned", "finish",
       "save", "grade", "verdict", "record", "destroy", "destroyed"} \subseteq QuietPcs
  BY DEF QuietPcs, Pcs, SweepPcs
<1>3. CASE \/ TouchExisting(t) \/ Enqueue(t) \/ Release(t) \/ Allocate(t) \/ KeepMachine(t)
           \/ Finish(t) \/ TouchBeforeClaim(t) \/ SaveRow(t) \/ CheckSave(t)
           \/ GradedSave(t) \/ RecordResult(t) \/ RecycleSave(t)
  <2>1. Return(t) \/ \E pc \in QuietPcs : Go(t, pc)
    BY <1>2, <1>3 DEF TouchExisting, Enqueue, Release, Allocate, KeepMachine, Finish,
       TouchBeforeClaim, SaveRow, CheckSave, GradedSave, RecordResult, RecycleSave
  <2>2. QED
    BY <2>1, GoesQuietly
<1>4. CASE \/ Provision(t) \/ Clone(t) \/ GuestAnswers(t) \/ GuestSilent(t) \/ Verdict(t)
           \/ DestroyInstance(t)
  <2>1. \E pc \in QuietPcs : \E row : Become(t, pc, row)
    <3>1. CASE Provision(t)
      BY <1>2, <3>1 DEF Provision
    <3>2. CASE Clone(t) \/ GuestAnswers(t) \/ GuestSilent(t)
      BY <1>2, <3>2 DEF Clone, GuestAnswers, GuestSilent
    <3>3. CASE Verdict(t)
      BY <1>2, <3>3 DEF Verdict
    <3>4. CASE DestroyInstance(t)
      BY <1>2, <3>4 DEF DestroyInstance
    <3>5. QED
      BY <1>4, <3>1, <3>2, <3>3, <3>4
  <2>2. QED
    BY <2>1, GoesQuietly
<1>5. CASE InsertRow(t)
  <2> DEFINE s == CHOOSE i \in Unused : \A j \in Unused : i <= j
             row == [call[t].row EXCEPT !.created = clock, !.expires = Later(clock)]
  <2>1. \/ Return(t)
        \/ call' = [call EXCEPT ![t].pc = "handoff", ![t].sid = s, ![t].row = row]
    BY <1>5 DEF InsertRow
  <2> HIDE DEF s, row
  <2>2. CASE call' = [call EXCEPT ![t].pc = "handoff", ![t].sid = s, ![t].row = row]
    BY <1>1, <2>2 DEF Call, SweepPcs
  <2>3. QED
    BY <2>1, <2>2, GoesQuietly
<1>6. CASE ListClaimed(t) \/ DrainClaims(t)
  BY <1>1, <1>6 DEF ListClaimed, DrainClaims, Call, SweepPcs
<1>7. CASE DrainList(t)
  BY <1>1, <1>7 DEF DrainList, Call, SweepPcs
<1>8. CASE PickPool(t)
  <2>1. PICK available :
          call' = [call EXCEPT ![t].names = {},
                    ![t].pc = IF available = {} THEN "clone" ELSE "claimed",
                    ![t].row = IF available = {} THEN @
                               ELSE [@ EXCEPT !.instance = Lowest(available),
                                              !.state = "provisioning"]]
    BY <1>8 DEF PickPool
  <2>2. /\ \A d \in Calls \ {t} : call'[d] = call[d]
        /\ call'[t].op = call[t].op /\ call'[t].pc \in {"clone", "claimed"}
    BY <1>1, <2>1 DEF Call
  <2>3. QED
    BY <2>2 DEF SweepPcs
<1>9. CASE MachineFails(t)
  BY <1>1, <1>9 DEF MachineFails, Call, SweepPcs
<1>10. CASE Grade(t)
  <2>1. PICK report \in {"error", "unresolved", "resolved"} :
          LET resolved == call[t].row.resolved \/ report = "resolved"
          IN  call' = [call EXCEPT ![t].pc = "graded", ![t].report = report,
                            ![t].row.resolved = resolved,
                            ![t].row.state = IF resolved THEN "passed" ELSE "in_use"]
    BY <1>10 DEF Grade
  <2>2. QED
    BY <1>1, <2>1 DEF Call, SweepPcs
<1>11. CASE DrainNext(t)
  <2>1. Return(t) \/ (call[t].pc = "draining" /\ \E m : call' = [call EXCEPT ![t].names = @ \ {m}])
    BY <1>11 DEF DrainNext, At
  <2>2. ASSUME NEW m, call[t].pc = "draining", call' = [call EXCEPT ![t].names = @ \ {m}]
        PROVE  Quiet
    BY <1>1, <2>2 DEF Call, SweepPcs
  <2>3. QED
    BY <2>1, <2>2, GoesQuietly
<1>12. QED
  BY <1>3, <1>4, <1>5, <1>6, <1>7, <1>8, <1>9, <1>10, <1>11 DEF QuietStep

LEMMA QuietStepsShrink ==
    ASSUME NEW t \in Calls, QuietStep(t)
    PROVE  vms' \subseteq vms \union {OwnName(t)}
<1>1. CASE Clone(t)
  BY <1>1 DEF Clone
<1>2. CASE MachineFails(t)
  BY <1>2 DEF MachineFails
<1>3. CASE DestroyInstance(t)
  BY <1>3 DEF DestroyInstance
<1>4. CASE DrainNext(t)
  BY <1>4 DEF DrainNext
<1>5. CASE \/ TouchExisting(t) \/ InsertRow(t) \/ Enqueue(t) \/ Provision(t) \/ Release(t)
           \/ Allocate(t) \/ ListClaimed(t) \/ PickPool(t) \/ KeepMachine(t)
           \/ GuestAnswers(t) \/ GuestSilent(t) \/ Finish(t)
           \/ TouchBeforeClaim(t) \/ SaveRow(t) \/ CheckSave(t) \/ Grade(t) \/ GradedSave(t)
           \/ Verdict(t) \/ RecordResult(t) \/ RecycleSave(t)
           \/ DrainClaims(t) \/ DrainList(t)
  <2>1. UNCHANGED vms
    BY <1>5 DEF TouchExisting, InsertRow, Enqueue, Provision, Release, Allocate, ListClaimed,
       PickPool, KeepMachine, GuestAnswers, GuestSilent, Finish, TouchBeforeClaim, SaveRow,
       CheckSave, Grade, GradedSave, Verdict, RecordResult, RecycleSave, DrainClaims, DrainList
  <2>2. QED
    BY <2>1
<1>6. QED
  BY <1>1, <1>2, <1>3, <1>4, <1>5 DEF QuietStep

LEMMA QuietStepsKeepPools ==
    ASSUME StateInv, NEW r, FillsAlone(r), PoolsInv(r), NEW t \in Calls, QuietStep(t)
    PROVE  PoolsInv(r)'
<1>1. /\ \A d \in Calls \ {t} : call'[d] = call[d]
      /\ call'[t].op \in {call[t].op, "none"} /\ call'[t].pc \notin SweepPcs
  BY QuietStepsAre
<1>2. t # r => call'[t].op # "reap" /\ call'[t].pc \notin SweepPcs
  BY <1>1 DEF PoolsInv
<1>3. call'[t].pc \notin {"refill", "prewarm", "boot"}
  BY <1>1 DEF SweepPcs
<1>4. vms' \subseteq vms \union {OwnName(t)} /\ \A m \in {OwnName(t)} : m.kind = "session"
  BY QuietStepsShrink DEF OwnName, SessionName
<1>5. QED
  BY <1>1, <1>2, <1>3, <1>4, PoolsStay

LEMMA StartsKeepPools ==
    ASSUME StateInv, NEW r, FillsAlone(r), PoolsInv(r), NEW t \in Calls, Starts(t)
    PROVE  PoolsInv(r)'
<1>1. call \in [Calls -> Call]
  BY DEF StateInv, CallsFine
<1>2. UNCHANGED vms
  BY DEF Starts, StartRead, OpenRead, EditRead, CheckRead, CompleteRead, EndRead, ResetRead,
     DrainCall, PrewarmCall
<1>3. ASSUME NEW c, Begin(t, c), c.op # "reap", c.pc \notin SweepPcs
      PROVE  PoolsInv(r)'
  <2>1. call'[t] = c /\ \A d \in Calls \ {t} : call'[d] = call[d]
    BY <1>1, <1>3 DEF Begin
  <2>2. PICK clones : clones = {}
    OBVIOUS
  <2>3. vms' \subseteq vms \union clones /\ \A m \in clones : m.kind = "session"
    BY <1>2, <2>2
  <2>4. c.pc \notin {"refill", "prewarm", "boot"}
    BY <1>3 DEF SweepPcs
  <2>5. QED
    BY <1>3, <2>1, <2>3, <2>4, PoolsStay
<1>4. ASSUME NEW op, NEW pc, NEW s, NEW row, Begin(t, On(op, pc, s, row)),
             op # "reap", pc \notin SweepPcs
      PROVE  PoolsInv(r)'
  BY <1>3, <1>4, OnIs
<1>5. ASSUME NEW s, NEW row,
             Begin(t, [On("complete", "verdict", s, row) EXCEPT !.report = "error"])
      PROVE  PoolsInv(r)'
  <2> DEFINE c == [On("complete", "verdict", s, row) EXCEPT !.report = "error"]
  <2>1. c.op = "complete" /\ c.pc = "verdict"
    BY DEF On, NoCall
  <2> HIDE DEF c
  <2>2. Begin(t, c)
    BY <1>5 DEF c
  <2>3. QED
    BY <1>3, <2>1, <2>2 DEF SweepPcs
<1>6. ASSUME NEW u \in Students, NEW sc \in Scenarios, StartRead(t, u, sc)
      PROVE  PoolsInv(r)'
  BY <1>4, <1>6 DEF StartRead, SweepPcs
<1>7. ASSUME NEW s \in Sids, OpenRead(t, s)
      PROVE  PoolsInv(r)'
  <2> DEFINE pc == IF rows[s].state = "ready" THEN "claimforuse" ELSE "save"
             row == [rows[s] EXCEPT !.state = IF @ = "ready" THEN "in_use" ELSE @]
  <2>1. Begin(t, On("open", pc, s, row))
    BY <1>7 DEF OpenRead
  <2>2. pc \notin SweepPcs
    BY DEF SweepPcs
  <2> HIDE DEF pc, row
  <2>3. QED
    BY <1>4, <2>1, <2>2
<1>8. ASSUME NEW s \in Sids,
             EditRead(t, s) \/ CheckRead(t, s) \/ EndRead(t, s) \/ ResetRead(t, s)
      PROVE  PoolsInv(r)'
  <2>1. \E row : \/ Begin(t, On("edit", "save", s, row))
                 \/ Begin(t, On("check", "check", s, row))
                 \/ Begin(t, On("end", "recycle", s, row))
                 \/ Begin(t, On("reset", "recycle", s, row))
    BY <1>8 DEF EditRead, CheckRead, EndRead, ResetRead
  <2>2. {"save", "check", "recycle"} \intersect SweepPcs = {}
    BY DEF SweepPcs
  <2>3. QED
    BY <1>4, <2>1, <2>2
<1>9. ASSUME NEW s \in Sids, CompleteRead(t, s)
      PROVE  PoolsInv(r)'
  BY <1>4, <1>5, <1>9 DEF CompleteRead, SweepPcs
<1>10. ASSUME NEW sc \in Scenarios, DrainCall(t, sc)
       PROVE  PoolsInv(r)'
  <2> DEFINE c == [NoCall EXCEPT !.op = "drain", !.pc = "drain", !.pool = sc]
  <2>1. c.op = "drain" /\ c.pc = "drain"
    BY DEF NoCall
  <2>2. Begin(t, c)
    BY <1>10 DEF DrainCall
  <2> HIDE DEF c
  <2>3. QED
    BY <1>3, <2>1, <2>2 DEF SweepPcs
<1>11. \A sc \in Scenarios, n \in 1..MaxIndex : ~PrewarmCall(t, sc, n)
  BY DEF PrewarmCall, MayCall, FillsAlone, Makes
<1>12. QED
  BY <1>6, <1>7, <1>8, <1>9, <1>10, <1>11 DEF Starts

\* The sweep, up to the refill.
LEMMA SweepsKeepPools ==
    ASSUME StateInv, NEW r, FillsAlone(r), PoolsInv(r), NEW t \in Calls,
           \/ ReapList(t) \/ StuckList(t) \/ RefillDone(t) \/ DestroyedSave(t)
           \/ \E s \in Sids : SweepNext(t, s) \/ StuckNext(t, s)
    PROVE  PoolsInv(r)'
<1>1. call \in [Calls -> Call] /\ call[t] \in Call
  BY DEF StateInv, CallsFine
<1>2. UNCHANGED vms
  BY DEF ReapList, StuckList, RefillDone, DestroyedSave, SweepNext, StuckNext
<1>3. ASSUME \A d \in Calls \ {t} : call'[d] = call[d],
             t # r => call'[t].op # "reap" /\ call'[t].pc \notin SweepPcs,
             call'[t].pc \notin {"refill", "prewarm", "boot"}
      PROVE  PoolsInv(r)'
  <2>1. PICK clones : clones = {}
    OBVIOUS
  <2>2. vms' \subseteq vms \union clones /\ \A m \in clones : m.kind = "session"
    BY <1>2, <2>1
  <2>3. QED
    BY <1>3, <2>2, PoolsStay
<1>4. call[t].op = "reap" \/ call[t].pc \in SweepPcs => t = r
  BY DEF PoolsInv
<1>5. CASE ReapList(t)
  <2>1. t = r
    BY <1>5 DEF ReapList, MayCall, FillsAlone, Makes
  <2> DEFINE c == [NoCall EXCEPT !.op = "reap", !.pc = "sweep",
                                 !.snap = Snapshot(Watched), !.now = clock]
  <2>2. call' = [call EXCEPT ![t] = c]
    BY <1>5 DEF ReapList
  <2>3. c.pc = "sweep"
    BY DEF NoCall
  <2> HIDE DEF c
  <2>4. QED
    BY <1>1, <1>3, <2>1, <2>2, <2>3
<1>6. CASE StuckList(t)
  <2>1. call[t].pc = "sweep"
    BY <1>6 DEF StuckList, At
  <2>2. call'[t].pc = "stuck" /\ \A d \in Calls \ {t} : call'[d] = call[d]
    BY <1>1, <1>6 DEF StuckList, Call
  <2>3. QED
    BY <1>3, <1>4, <2>1, <2>2 DEF SweepPcs
<1>7. ASSUME Return(t) \/ Go(t, "claim"), t = r \/ call[t].op # "reap"
      PROVE  PoolsInv(r)'
  <2>1. "claim" \in QuietPcs
    BY DEF QuietPcs, Pcs, SweepPcs
  <2>2. /\ \A d \in Calls \ {t} : call'[d] = call[d]
        /\ call'[t].op \in {call[t].op, "none"} /\ call'[t].pc \notin SweepPcs
    BY <1>7, <2>1, GoesQuietly
  <2>3. call'[t].pc \notin {"refill", "prewarm", "boot"}
    BY <2>2 DEF SweepPcs
  <2>4. QED
    BY <1>3, <1>7, <2>2, <2>3
<1>8. CASE RefillDone(t)
  <2>1. Return(t) /\ call[t].pc = "refill"
    BY <1>8 DEF RefillDone, At
  <2>2. QED
    BY <1>4, <1>7, <2>1 DEF SweepPcs
<1>9. CASE DestroyedSave(t) /\ call[t].op # "reap"
  <2>1. Return(t) \/ Go(t, "claim")
    BY <1>9 DEF DestroyedSave
  <2>2. QED
    BY <1>7, <1>9, <2>1
<1>10. CASE DestroyedSave(t) /\ call[t].op = "reap"
  <2>1. PICK pc : pc = IF call[t].row.state = "error" THEN "stuck" ELSE "sweep"
    OBVIOUS
  <2>2. call' = [call EXCEPT ![t].row = NoRow, ![t].sid = 0, ![t].pc = pc]
    BY <1>10, <2>1 DEF DestroyedSave
  <2>3. call'[t].pc = pc /\ \A d \in Calls \ {t} : call'[d] = call[d]
    BY <1>1, <2>2 DEF Call
  <2>4. QED
    BY <1>3, <1>4, <1>10, <2>1, <2>3
<1>11. ASSUME NEW s \in Sids, SweepNext(t, s) \/ StuckNext(t, s)
       PROVE  PoolsInv(r)'
  <2>1. call[t].pc \in {"sweep", "stuck"}
    BY <1>11 DEF SweepNext, StuckNext, At
  <2>2. PICK row :
          \/ call' = [call EXCEPT ![t].pc = "recycle", ![t].sid = s, ![t].row = row,
                                  ![t].snap[s] = NoRow]
          \/ call' = [call EXCEPT ![t].pc = "destroy", ![t].sid = s, ![t].row = row,
                                  ![t].snap[s] = NoRow]
          \/ call' = [call EXCEPT ![t].snap[s] = NoRow]
    BY <1>11 DEF SweepNext, StuckNext
  <2>3. /\ \A d \in Calls \ {t} : call'[d] = call[d]
        /\ call'[t].pc \in {"recycle", "destroy", "sweep", "stuck"}
    <3>1. CASE call' = [call EXCEPT ![t].pc = "recycle", ![t].sid = s, ![t].row = row,
                                    ![t].snap[s] = NoRow]
      BY <1>1, <3>1 DEF Call
    <3>2. CASE call' = [call EXCEPT ![t].pc = "destroy", ![t].sid = s, ![t].row = row,
                                    ![t].snap[s] = NoRow]
      BY <1>1, <3>2 DEF Call
    <3>3. CASE call' = [call EXCEPT ![t].snap[s] = NoRow]
      BY <1>1, <2>1, <3>3 DEF Call
    <3>4. QED
      BY <2>2, <3>1, <3>2, <3>3
  <2>4. QED
    BY <1>3, <1>4, <2>1, <2>3 DEF SweepPcs
<1>12. QED
  BY <1>5, <1>6, <1>8, <1>9, <1>10, <1>11

\* The refill itself: a call that wants no more than there is room for.
LEMMA RefillsOn ==
    ASSUME StateInv, NEW r, FillsAlone(r), PoolsInv(r), NEW c, call' = [call EXCEPT ![r] = c],
           PoolsWithinBounds', WantsWithin(c)'
    PROVE  PoolsInv(r)'
<1>1. call'[r] = c /\ \A d \in Calls \ {r} : call'[d] = call[d]
  BY DEF FillsAlone, StateInv, CallsFine
<1>2. WantsWithin(call[r])'
  BY <1>1 DEF WantsWithin, Missing
<1>3. \A d \in Calls \ {r} : call'[d].op # "reap" /\ call'[d].pc \notin SweepPcs
  BY <1>1 DEF PoolsInv
<1>4. QED
  BY <1>2, <1>3 DEF PoolsInv

LEMMA RefillIs ==
    ASSUME StateInv, NEW r, FillsAlone(r), PoolsInv(r), NEW t \in Calls,
           call[t].pc \in {"stuck", "refill", "prewarm", "boot"}
    PROVE  /\ t = r /\ call[t] \in Call /\ call[t].want \in [Scenarios -> Nat]
           /\ WantsWithin(call[t])
           /\ \A sc \in Scenarios : Size(sc) \in Nat /\ Size(sc) <= PoolTarget
           /\ PoolTotal \in Nat /\ PoolTotal <= PoolCeiling
<1>1. t = r
  BY DEF PoolsInv, SweepPcs
<1>2. call[t] \in Call /\ call[t].want \in [Scenarios -> Nat]
  BY DEF StateInv, CallsFine, Call
<1>3. QED
  BY <1>1, <1>2, SizesAreNat DEF PoolsInv, PoolsWithinBounds, Size

LEMMA RefillStatusKeepsPools ==
    ASSUME StateInv, NEW r, FillsAlone(r), PoolsInv(r), NEW t \in Calls, RefillStatus(t)
    PROVE  PoolsInv(r)'
<1>1. call[t].pc = "stuck" /\ UNCHANGED vms
  BY DEF RefillStatus, At
<1>2. /\ t = r /\ call[t] \in Call
      /\ \A sc \in Scenarios : Size(sc) \in Nat /\ Size(sc) <= PoolTarget
  BY <1>1, RefillIs
<1>3. PICK wants : wants = [sc \in Scenarios |-> Deficit(sc)]
  OBVIOUS
<1>4. PICK c : c = [call[t] EXCEPT !.pc = "refill", !.want = wants]
  OBVIOUS
<1>5. call' = [call EXCEPT ![t] = c]
  BY <1>3, <1>4 DEF RefillStatus
<1>6. c.pc = "refill" /\ c.want = wants
  BY <1>2, <1>4 DEF Call
<1>7. ASSUME NEW sc \in Scenarios
      PROVE  Size(sc)' + Missing(c, sc) <= PoolTarget
  <2>1. Size(sc)' = Size(sc)
    BY <1>1 DEF Size, PoolInstances
  <2>2. Deficit(sc) = IF Size(sc) < PoolTarget THEN PoolTarget - Size(sc) ELSE 0
    BY DEF Deficit, Size
  <2>3. Missing(c, sc) = Deficit(sc)
    BY <1>3, <1>6 DEF Missing
  <2>4. QED
    BY <1>2, <2>1, <2>2, <2>3, Bounds
<1>8. PoolsWithinBounds'
  BY <1>1 DEF PoolsInv, PoolsWithinBounds, PoolTotal, PoolInstances
<1>9. WantsWithin(c)'
  BY <1>6, <1>7 DEF WantsWithin, Missing
<1>10. QED
  BY <1>2, <1>5, <1>8, <1>9, RefillsOn

LEMMA PrewarmListKeepsPools ==
    ASSUME StateInv, NEW r, FillsAlone(r), PoolsInv(r), NEW t \in Calls,
           NEW sc \in Scenarios, PrewarmList(t, sc)
    PROVE  PoolsInv(r)'
<1>1. call[t].pc = "refill" /\ UNCHANGED vms
  BY DEF PrewarmList, At
<1>2. /\ t = r /\ call[t] \in Call /\ call[t].want \in [Scenarios -> Nat]
      /\ WantsWithin(call[t])
      /\ \A o \in Scenarios : Size(o) \in Nat
      /\ PoolTotal \in Nat /\ PoolTotal <= PoolCeiling
  BY <1>1, RefillIs
<1>3. PICK count : count = IF call[t].want[sc] < Budget THEN call[t].want[sc] ELSE Budget
  OBVIOUS
<1>4. count \in Nat /\ count <= call[t].want[sc] /\ PoolTotal + count <= PoolCeiling
  BY <1>2, <1>3, Bounds DEF Budget
<1>5. PICK next : next = NextPoolIndex(sc)
  OBVIOUS
<1>6. PICK pc : pc = IF count = 0 THEN "refill" ELSE "prewarm"
  OBVIOUS
<1>7. PICK pool : pool = IF count = 0 THEN call[t].pool ELSE sc
  OBVIOUS
<1>8. PICK wants : wants = [call[t].want EXCEPT ![sc] = count]
  OBVIOUS
<1>9. call' = [call EXCEPT ![t].pc = IF count = 0 THEN "refill" ELSE "prewarm",
                        ![t].pool = IF count = 0 THEN @ ELSE sc,
                        ![t].want[sc] = count, ![t].index = next]
  BY <1>3, <1>5 DEF PrewarmList
<1>10. PICK c : c = [call[t] EXCEPT !.pc = pc, !.pool = pool, !.want = wants, !.index = next]
  OBVIOUS
<1>11. call' = [call EXCEPT ![t] = c]
  BY <1>2, <1>6, <1>7, <1>8, <1>9, <1>10 DEF Call
<1>12. c.pc = pc /\ c.pool = pool /\ c.want = wants /\ pc \in {"refill", "prewarm"}
  BY <1>2, <1>6, <1>10 DEF Call
<1>13. /\ wants[sc] = count /\ \A o \in Scenarios \ {sc} : wants[o] = call[t].want[o]
  BY <1>2, <1>8
<1>14. ASSUME NEW o \in Scenarios
       PROVE  Size(o)' + Missing(c, o) <= PoolTarget
  <2>1. Size(o)' = Size(o)
    BY <1>1 DEF Size, PoolInstances
  <2>2. Size(o) + call[t].want[o] <= PoolTarget /\ call[t].want[o] \in Nat
    BY <1>1, <1>2 DEF WantsWithin, Missing
  <2>3. Missing(c, o) = wants[o] /\ wants[o] \in Nat /\ wants[o] <= call[t].want[o]
    BY <1>2, <1>4, <1>12, <1>13 DEF Missing
  <2>4. QED
    BY <1>2, <2>1, <2>2, <2>3, Bounds
<1>15. c.pc = "prewarm" => PoolTotal' + Missing(c, c.pool) <= PoolCeiling
  <2>1. PoolTotal' = PoolTotal
    BY <1>1 DEF PoolTotal, PoolInstances
  <2>2. c.pc = "prewarm" => Missing(c, c.pool) = count
    BY <1>6, <1>7, <1>12, <1>13 DEF Missing
  <2>3. QED
    BY <1>4, <2>1, <2>2
<1>16. PoolsWithinBounds'
  BY <1>1 DEF PoolsInv, PoolsWithinBounds, PoolTotal, PoolInstances
<1>17. WantsWithin(c)'
  BY <1>12, <1>14, <1>15 DEF WantsWithin, Missing
<1>18. QED
  BY <1>2, <1>11, <1>16, <1>17, RefillsOn

LEMMA PrewarmingIs ==
    ASSUME StateInv, NEW t \in Calls, call[t].pc \in {"prewarm", "boot"}
    PROVE  call[t].pool \in Scenarios /\ call[t].want[call[t].pool] \in Nat \ {0}
  BY Prewarming

LEMMA PrewarmCloneKeepsPools ==
    ASSUME StateInv, NEW r, FillsAlone(r), PoolsInv(r), NEW t \in Calls, PrewarmClone(t)
    PROVE  PoolsInv(r)'
<1>1. call[t].pc = "prewarm" /\ call[t].index <= MaxIndex
  BY DEF PrewarmClone, At
<1>2. /\ t = r /\ call[t] \in Call /\ call[t].want \in [Scenarios -> Nat]
      /\ WantsWithin(call[t])
      /\ \A o \in Scenarios : Size(o) \in Nat /\ Size(o) <= PoolTarget
      /\ PoolTotal \in Nat /\ PoolTotal <= PoolCeiling
  BY <1>1, RefillIs
<1>3. PICK pool : pool = call[t].pool
  OBVIOUS
<1>4. PICK want : want = call[t].want
  OBVIOUS
<1>5. pool \in Scenarios /\ want[pool] \in Nat \ {0} /\ call[t].index \in 1..MaxIndex
  BY <1>1, <1>3, <1>4, Prewarming, Bounds
<1>6. vms' = vms \union {PoolName(pool, call[t].index)}
  BY <1>3 DEF PrewarmClone, NextName
<1>7. /\ Size(pool)' \in Nat /\ Size(pool)' <= Size(pool) + 1
      /\ \A o \in Scenarios \ {pool} : Size(o)' = Size(o)
      /\ PoolTotal' \in Nat /\ PoolTotal' <= PoolTotal + 1
  <2>1. PICK i : i = call[t].index
    OBVIOUS
  <2>2. QED
    BY <1>5, <1>6, <2>1, PoolsGrow
<1>8. PICK c : c = [call[t] EXCEPT !.pc = "boot"]
  OBVIOUS
<1>9. call' = [call EXCEPT ![t] = c]
  BY <1>8 DEF PrewarmClone, Go
<1>10. c.pc = "boot" /\ c.pool = pool /\ c.want = want
  BY <1>2, <1>3, <1>4, <1>8 DEF Call
<1>11. /\ Missing(c, pool) = want[pool] - 1
       /\ \A o \in Scenarios \ {pool} : Missing(c, o) = want[o]
  BY <1>10 DEF Missing
<1>12. /\ \A o \in Scenarios : Size(o) + want[o] <= PoolTarget /\ want[o] \in Nat
       /\ PoolTotal + want[pool] <= PoolCeiling
  BY <1>1, <1>2, <1>3, <1>4, <1>5 DEF WantsWithin, Missing
<1>13. ASSUME NEW o \in Scenarios
       PROVE  Size(o)' + Missing(c, o) <= PoolTarget /\ Size(o)' <= PoolTarget
  <2>1. CASE o = pool
    BY <1>2, <1>5, <1>7, <1>11, <1>12, <2>1, Bounds
  <2>2. CASE o # pool
    BY <1>2, <1>7, <1>11, <1>12, <2>2, Bounds
  <2>3. QED
    BY <2>1, <2>2
<1>14. PoolTotal' + Missing(c, pool) <= PoolCeiling /\ PoolTotal' <= PoolCeiling
  BY <1>2, <1>5, <1>7, <1>11, <1>12, Bounds
<1>15. PoolsWithinBounds'
  BY <1>13, <1>14 DEF PoolsWithinBounds, Size
<1>16. WantsWithin(c)'
  BY <1>10, <1>13, <1>14 DEF WantsWithin, Missing
<1>17. QED
  BY <1>2, <1>9, <1>15, <1>16, RefillsOn

LEMMA PrewarmBootedKeepsPools ==
    ASSUME StateInv, NEW r, FillsAlone(r), PoolsInv(r), NEW t \in Calls, PrewarmBooted(t)
    PROVE  PoolsInv(r)'
<1>1. call[t].pc = "boot" /\ UNCHANGED vms
  BY DEF PrewarmBooted, At
<1>2. /\ t = r /\ call[t] \in Call /\ call[t].want \in [Scenarios -> Nat]
      /\ WantsWithin(call[t])
  BY <1>1, RefillIs
<1>3. call[t].pool \in Scenarios
  BY <1>1, PrewarmingIs
<1>4. PICK left : left = call[t].want[call[t].pool] - 1
  OBVIOUS
<1>5. PICK wants : wants = [call[t].want EXCEPT ![call[t].pool] = left]
  OBVIOUS
<1>6. PICK pc : pc = IF left = 0 THEN "refill" ELSE "prewarm"
  OBVIOUS
<1>7. PICK pool : pool = IF left = 0 THEN Nobody ELSE call[t].pool
  OBVIOUS
<1>8. PICK c : c = [call[t] EXCEPT !.want = wants, !.pc = pc, !.pool = pool,
                        !.index = IF left = 0 THEN 0 ELSE call[t].index + 1]
  OBVIOUS
<1>9. call' = [call EXCEPT ![t] = c]
  <2>1. call' = [call EXCEPT ![t].want[call[t].pool] = left,
                        ![t].pc = IF left = 0 THEN "refill" ELSE "prewarm",
                        ![t].pool = IF left = 0 THEN Nobody ELSE @,
                        ![t].index = IF left = 0 THEN 0 ELSE @ + 1]
    BY <1>4 DEF PrewarmBooted
  <2>2. QED
    BY <1>2, <1>5, <1>6, <1>7, <1>8, <2>1 DEF Call
<1>10. c.pc = pc /\ c.pool = pool /\ c.want = wants /\ pc \in {"refill", "prewarm"}
  BY <1>2, <1>6, <1>8 DEF Call
<1>11. \A o \in Scenarios : Missing(c, o) = Missing(call[t], o)
  <2>1. \A o \in Scenarios : Missing(c, o) = wants[o]
    BY <1>10 DEF Missing
  <2>2. \A o \in Scenarios : wants[o] = Missing(call[t], o)
    BY <1>1, <1>2, <1>4, <1>5 DEF Missing
  <2>3. QED
    BY <2>1, <2>2
<1>12. pc = "prewarm" => Missing(c, c.pool) = Missing(call[t], call[t].pool)
  BY <1>3, <1>6, <1>7, <1>10, <1>11
<1>13. PoolsWithinBounds'
  BY <1>1 DEF PoolsInv, PoolsWithinBounds, PoolTotal, PoolInstances
<1>14. PoolTotal' = PoolTotal /\ \A o \in Scenarios : Size(o)' = Size(o)
  BY <1>1 DEF PoolTotal, Size, PoolInstances
<1>15. \A o \in Scenarios : Size(o)' + Missing(c, o) <= PoolTarget
  BY <1>1, <1>2, <1>11, <1>14 DEF WantsWithin
<1>16. c.pc = "prewarm" => PoolTotal' + Missing(c, c.pool) <= PoolCeiling
  BY <1>1, <1>2, <1>10, <1>12, <1>14 DEF WantsWithin
<1>17. WantsWithin(c)'
  BY <1>10, <1>15, <1>16 DEF WantsWithin, Missing
<1>18. QED
  BY <1>2, <1>9, <1>13, <1>17, RefillsOn

LEMMA PrewarmFailsKeepsPools ==
    ASSUME StateInv, NEW r, FillsAlone(r), PoolsInv(r), NEW t \in Calls, PrewarmFails(t)
    PROVE  PoolsInv(r)'
<1>1. call[t].pc \in {"prewarm", "boot"}
  BY DEF PrewarmFails
<1>2. /\ t = r /\ call[t] \in Call /\ call[t].want \in [Scenarios -> Nat]
      /\ WantsWithin(call[t])
      /\ \A o \in Scenarios : Size(o) \in Nat /\ Size(o) <= PoolTarget
      /\ PoolTotal \in Nat /\ PoolTotal <= PoolCeiling
  BY <1>1, RefillIs
<1>3. PICK pool : pool = call[t].pool
  OBVIOUS
<1>4. PICK want : want = call[t].want
  OBVIOUS
<1>5. pool \in Scenarios /\ want[pool] \in Nat \ {0}
  BY <1>1, <1>3, <1>4, PrewarmingIs
<1>6. /\ \A o \in Scenarios : Size(o)' \in Nat
      /\ \A o \in Scenarios \ {pool} : Size(o)' <= Size(o)
      /\ PoolTotal' \in Nat
      /\ Size(pool)' <= PoolTarget /\ PoolTotal' <= PoolCeiling
  <2>1. CASE vms' = vms
    BY <1>2, <1>5, <2>1 DEF Size, PoolTotal, PoolInstances
  <2>2. CASE vms' # vms
    <3>1. PICK i : i = call[t].index
      OBVIOUS
    <3>2. call[t].pc = "prewarm" /\ i <= MaxIndex /\ vms' = vms \union {PoolName(pool, i)}
      BY <1>3, <2>2, <3>1 DEF PrewarmFails, At, NextName
    <3>3. i \in 1..MaxIndex
      BY <1>1, <3>1, <3>2, Prewarming, Bounds
    <3>4. /\ Size(pool)' \in Nat /\ Size(pool)' <= Size(pool) + 1
          /\ \A o \in Scenarios \ {pool} : Size(o)' = Size(o)
          /\ PoolTotal' \in Nat /\ PoolTotal' <= PoolTotal + 1
      BY <1>5, <3>2, <3>3, PoolsGrow
    <3>5. Size(pool) + want[pool] <= PoolTarget /\ PoolTotal + want[pool] <= PoolCeiling
      BY <1>2, <1>3, <1>4, <1>5, <3>2 DEF WantsWithin, Missing
    <3>6. Size(pool)' <= PoolTarget /\ PoolTotal' <= PoolCeiling
      BY <1>2, <1>5, <3>4, <3>5, Bounds
    <3>7. \A o \in Scenarios : Size(o)' \in Nat
      BY <1>2, <3>4
    <3>8. \A o \in Scenarios \ {pool} : Size(o)' <= Size(o)
      BY <1>2, <3>4
    <3>9. QED
      BY <3>4, <3>6, <3>7, <3>8
  <2>3. QED
    BY <2>1, <2>2
<1>7. PICK wants : wants = [want EXCEPT ![pool] = 0]
  OBVIOUS
<1>8. PICK c : c = [call[t] EXCEPT !.want = wants, !.pc = "refill", !.pool = Nobody, !.index = 0]
  OBVIOUS
<1>9. call' = [call EXCEPT ![t] = c]
  BY <1>2, <1>3, <1>4, <1>7, <1>8 DEF PrewarmFails, Call
<1>10. c.pc = "refill" /\ c.want = wants
  BY <1>2, <1>8 DEF Call
<1>11. ASSUME NEW o \in Scenarios
       PROVE  Size(o)' + Missing(c, o) <= PoolTarget /\ Size(o)' <= PoolTarget
  <2>1. Missing(c, o) = wants[o]
    BY <1>10 DEF Missing
  <2>2. CASE o = pool
    <3>1. wants[o] = 0
      BY <1>2, <1>4, <1>7, <2>2
    <3>2. QED
      BY <1>6, <2>1, <2>2, <3>1, Bounds
  <2>3. CASE o # pool
    <3>1. wants[o] = want[o] /\ want[o] \in Nat
      BY <1>2, <1>4, <1>7, <2>3
    <3>2. Size(o) + want[o] <= PoolTarget
      BY <1>1, <1>2, <1>3, <1>4, <2>3 DEF WantsWithin, Missing
    <3>3. Size(o)' \in Nat /\ Size(o)' <= Size(o) /\ Size(o) \in Nat
      BY <1>2, <1>6, <2>3
    <3>4. QED
      BY <2>1, <3>1, <3>2, <3>3, Bounds
  <2>4. QED
    BY <2>2, <2>3
<1>12. PoolsWithinBounds'
  BY <1>6, <1>11 DEF PoolsWithinBounds, Size
<1>13. WantsWithin(c)'
  BY <1>10, <1>11 DEF WantsWithin, Missing
<1>14. QED
  BY <1>2, <1>9, <1>12, <1>13, RefillsOn

LEMMA CrashesKeepPools ==
    ASSUME StateInv, NEW r, FillsAlone(r), PoolsInv(r),
           \/ WebCrash \/ Tick \/ UNCHANGED vars
           \/ \E t \in Calls : CliCrash(t)
    PROVE  PoolsInv(r)'
<1>1. UNCHANGED vms
  BY DEF WebCrash, Tick, vars, CliCrash
<1>2. \A t \in Calls : call'[t] = call[t] \/ call'[t] = NoCall
  <2>1. CASE WebCrash
    BY <2>1 DEF WebCrash
  <2>2. CASE \E t \in Calls : CliCrash(t)
    BY <2>2 DEF CliCrash, Return, StateInv, CallsFine
  <2>3. CASE Tick \/ UNCHANGED vars
    BY <2>3 DEF Tick, vars
  <2>4. QED
    BY <2>1, <2>2, <2>3
<1>3. NoCall.op = "none" /\ NoCall.pc = "idle"
  BY DEF NoCall
<1>4. PoolsWithinBounds'
  BY <1>1 DEF PoolsInv, PoolsWithinBounds, PoolTotal, PoolInstances
<1>5. \A t \in Calls \ {r} : call'[t].op # "reap" /\ call'[t].pc \notin SweepPcs
  BY <1>2, <1>3 DEF PoolsInv, SweepPcs
<1>6. WantsWithin(call[r])'
  <2>1. CASE call'[r] = NoCall
    BY <1>3, <2>1 DEF WantsWithin
  <2>2. CASE call'[r] = call[r]
    BY <1>1, <2>2 DEF PoolsInv, WantsWithin, Missing, Size, PoolTotal, PoolInstances
  <2>3. QED
    BY <1>2, <2>1, <2>2 DEF FillsAlone
<1>7. QED
  BY <1>4, <1>5, <1>6 DEF PoolsInv

LEMMA InitKeepsBounds ==
    ASSUME NEW r, FillsAlone(r), Init
    PROVE  PoolsInv(r)
<1>1. \A t \in Calls : call[t] = NoCall
  BY DEF Init
<1>2. NoCall.op = "none" /\ NoCall.pc = "idle"
  BY DEF NoCall
<1>3. \A sc \in Scenarios : Cardinality(PoolInstances(sc)) <= PoolTarget
  BY PoolsWereFilled DEF Init, PoolInstances
<1>4. PoolTotal <= PoolCeiling
  <2>1. UNION {PoolInstances(sc) : sc \in Scenarios} = InitialPool
    BY PoolsWereFilled DEF Init, PoolInstances
  <2>2. QED
    BY <2>1, PoolsWereFilled DEF PoolTotal
<1>5. PoolsWithinBounds
  BY <1>3, <1>4 DEF PoolsWithinBounds
<1>6. \A t \in Calls \ {r} : call[t].op # "reap" /\ call[t].pc \notin SweepPcs
  BY <1>1, <1>2 DEF SweepPcs
<1>7. WantsWithin(call[r])
  BY <1>1, <1>2 DEF FillsAlone, WantsWithin
<1>8. QED
  BY <1>5, <1>6, <1>7 DEF PoolsInv

LEMMA StepsKeepPools ==
    ASSUME StateInv, NEW r, FillsAlone(r), PoolsInv(r), [Next]_vars
    PROVE  PoolsInv(r)'
<1>1. ASSUME NEW t \in Calls, Steps(t)
      PROVE  PoolsInv(r)'
  <2>1. \/ QuietStep(t)
        \/ ReapList(t) \/ StuckList(t) \/ RefillDone(t) \/ DestroyedSave(t)
        \/ \E s \in Sids : SweepNext(t, s) \/ StuckNext(t, s)
        \/ RefillStatus(t) \/ \E sc \in Scenarios : PrewarmList(t, sc)
        \/ PrewarmClone(t) \/ PrewarmBooted(t) \/ PrewarmFails(t)
    BY <1>1 DEF Steps, QuietStep
  <2>2. QED
    BY <2>1, QuietStepsKeepPools, SweepsKeepPools, RefillStatusKeepsPools,
       PrewarmListKeepsPools, PrewarmCloneKeepsPools, PrewarmBootedKeepsPools,
       PrewarmFailsKeepsPools
<1>2. QED
  BY <1>1, StartsKeepPools, CrashesKeepPools DEF Next

(***************************************************************************)
(* With one process to sweep and nobody prewarming on demand, the refill   *)
(* brings no pool over pool.default_target and all of them together not    *)
(* over pool.max_total, whatever claims, drains, destructions and crashes  *)
(* fall between its count and its last machine.                            *)
(***************************************************************************)
THEOREM PoolsAreBounded ==
    ASSUME NEW r, FillsAlone(r)
    PROVE  Spec => []PoolsWithinBounds
<1>1. Init => PoolsInv(r)
  BY InitKeepsBounds
<1>2. StateInv /\ PoolsInv(r) /\ [Next]_vars => PoolsInv(r)'
  BY StepsKeepPools
<1>3. PoolsInv(r) => PoolsWithinBounds
  BY DEF PoolsInv
<1>4. QED
  BY <1>1, <1>2, <1>3, StateInvariant, PTL DEF Spec

=============================================================================
