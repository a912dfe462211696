---------------------------- MODULE Rollout_proofs ----------------------------
(***************************************************************************)
(* What holds of container rollouts for any containers and hosts, any      *)
(* limits and any passes, requests and losses: types, the hold on what     *)
(* ended badly, the record against the container, the decisions of people, *)
(* the cooldown and the limit of a host.                                   *)
(***************************************************************************)
EXTENDS Rollout, TLAPS, WellFoundedInduction, FiniteSetTheorems

RollRecords == [pc : RollPcs, c : Containers \union {None}, from : Images,
                to : Images \union {None}, undo : BOOLEAN]
RequestRecords == [op : {"none", "claim", "release"}, c : Containers \union {None},
                   auto : BOOLEAN]

\* The places of a pass's own roll, and those its row is open at.
OwnPcs  == {"image", "pull", "up", "health", "verify"}
Working == roll.pc \notin {"idle", "image"}
HasOpenRow == Working /\ ~roll.undo

PassIsAPass ==
    /\ pass = [pc |-> pass.pc, moment |-> pass.moment, owned |-> pass.owned, kept |-> pass.kept,
               todo |-> pass.todo, auto |-> pass.auto, behind |-> pass.behind,
               blocked |-> pass.blocked, last |-> pass.last, used |-> pass.used,
               perHost |-> pass.perHost]
    /\ pass.pc \in PassPcs /\ pass.todo \subseteq Containers

RollInOrder ==
    /\ roll.pc = "idle" <=> roll.c = None
    /\ roll.pc \in OwnPcs => ~roll.undo
    /\ roll.pc = "record" => roll.undo
    /\ roll.undo => roll.to \in Images
    /\ roll.pc # "idle" => IF roll.undo THEN pass.pc = "idle"
                           ELSE pass.pc = "roll" /\ roll.c \notin pass.todo

RowInOrder ==
    HasOpenRow => /\ rows[roll.c] # <<>>
                  /\ Now.state = "rolling" /\ Now.from = roll.from /\ ~Now.undo

TypeInv ==
    /\ TypeOK
    /\ PassIsAPass
    /\ roll \in RollRecords /\ RollInOrder /\ RowInOrder
    /\ request \in RequestRecords /\ (request.op = "none" <=> request.c = None)

-----------------------------------------------------------------------------
(***************************************************************************)
(* The rows of a container, and what opening, closing and clearing do.     *)
(***************************************************************************)
LEMMA LastIsARow ==
    ASSUME NEW s \in Seq(Rows), s # <<>>
    PROVE  LastOf(s) \in Rows /\ Len(s) \in DOMAIN s /\ Len(s) \in Nat
  BY DEF LastOf

LEMMA ClosedRow ==
    ASSUME NEW s \in Seq(Rows), s # <<>>, NEW r \in Rows
    PROVE  LET t == [s EXCEPT ![Len(s)] = r] IN
           /\ t \in Seq(Rows) /\ t # <<>> /\ Len(t) = Len(s) /\ LastOf(t) = r
           /\ DOMAIN t = DOMAIN s
           /\ \A i \in DOMAIN s : i # Len(s) => t[i] = s[i]
<1> DEFINE t == [s EXCEPT ![Len(s)] = r]
<1>1. t \in Seq(Rows) /\ Len(t) = Len(s) /\ Len(s) \in DOMAIN s /\ DOMAIN t = DOMAIN s
  OBVIOUS
<1>2. t[Len(s)] = r /\ t # <<>>
  BY <1>1
<1>3. QED
  BY <1>1, <1>2 DEF LastOf

LEMMA OpenedRow ==
    ASSUME NEW s \in Seq(Rows), NEW r \in Rows
    PROVE  /\ Append(s, r) \in Seq(Rows) /\ Append(s, r) # <<>>
           /\ Len(Append(s, r)) = Len(s) + 1 /\ LastOf(Append(s, r)) = r
           /\ \A i \in DOMAIN s : Append(s, r)[i] = s[i]
  BY DEF LastOf

\* clear_container_roll_blocker.
Cleared(s) == [i \in DOMAIN s |-> [s[i] EXCEPT !.cleared = @ \/ s[i].state \in BadStates]]

LEMMA ClearedRows ==
    ASSUME NEW s \in Seq(Rows)
    PROVE  /\ Cleared(s) \in Seq(Rows) /\ DOMAIN Cleared(s) = DOMAIN s /\ Len(Cleared(s)) = Len(s)
           /\ s # <<>> => /\ Cleared(s) # <<>>
                          /\ LastOf(Cleared(s)).state = LastOf(s).state
                          /\ LastOf(Cleared(s)).from = LastOf(s).from
                          /\ LastOf(Cleared(s)).to = LastOf(s).to
                          /\ LastOf(Cleared(s)).undo = LastOf(s).undo
<1>1. \A i \in DOMAIN s : s[i] \in Rows
  OBVIOUS
<1>2. \A i \in DOMAIN s : /\ Cleared(s)[i] \in Rows
                          /\ Cleared(s)[i].state = s[i].state /\ Cleared(s)[i].from = s[i].from
                          /\ Cleared(s)[i].to = s[i].to /\ Cleared(s)[i].undo = s[i].undo
  BY <1>1 DEF Cleared, Rows
<1>3. DOMAIN Cleared(s) = DOMAIN s /\ DOMAIN s = 1..Len(s) /\ Len(s) \in Nat
  BY DEF Cleared
<1> HIDE DEF Cleared
<1>4. Cleared(s) \in [1..Len(s) -> Rows]
  <2>1. Cleared(s) = [i \in DOMAIN s |-> Cleared(s)[i]]
    BY DEF Cleared
  <2>2. QED
    BY <1>2, <1>3, <2>1
<1>5. Cleared(s) \in Seq(Rows) /\ Len(Cleared(s)) = Len(s)
  BY <1>3, <1>4
<1>6. s # <<>> => Cleared(s) # <<>> /\ Len(s) \in DOMAIN s
  BY <1>5
<1>7. QED
  BY <1>2, <1>3, <1>5, <1>6 DEF LastOf

-----------------------------------------------------------------------------
(***************************************************************************)
(* Types.                                                                  *)
(***************************************************************************)
LEMMA NoRollIsARoll == NoRoll \in RollRecords /\ NoRoll.pc = "idle" /\ NoRoll.c = None
                       /\ NoRoll.undo = FALSE
  BY BoundsAreNumbers DEF NoRoll, RollRecords, RollPcs, Images

LEMMA TypesInitially == Init => TypeInv
<1> SUFFICES ASSUME Init PROVE TypeInv
  OBVIOUS
<1>1. 0 \in Images /\ 1 \in Images /\ 0 \in 0..MaxTime
  BY BoundsAreNumbers DEF Images
<1>2. roll = NoRoll /\ request = NoRequest /\ pass = NoPass
  BY DEF Init
<1>3. PassIsAPass /\ pass.pc = "idle"
  BY <1>2 DEF PassIsAPass, NoPass, PassPcs
<1>4. RollInOrder /\ RowInOrder
  BY <1>2, NoRollIsARoll DEF RollInOrder, RowInOrder, HasOpenRow, Working, OwnPcs
<1>5. request \in RequestRecords /\ request.op = "none" /\ request.c = None
  BY <1>2 DEF NoRequest, RequestRecords
<1>6. rows \in [Containers -> Seq(Rows)] /\ remit \in [Containers -> Remits \union {None}]
      /\ image \in [Containers -> Images] /\ tag \in [Containers -> Images]
      /\ latest \in [Containers -> Images]
  BY <1>1 DEF Init
<1>7. TypeOK
  <2>1. roll.pc = "idle" /\ now \in 0..MaxTime
    BY <1>1, <1>2, NoRollIsARoll DEF Init
  <2>2. optout \subseteq Containers /\ flagged \subseteq Containers
    BY DEF Init
  <2>3. pass.pc \in PassPcs /\ roll.pc \in RollPcs
    BY <1>3, <2>1 DEF PassPcs, RollPcs
  <2>4. QED
    BY <1>6, <2>1, <2>2, <2>3 DEF TypeOK
<1>8. QED
  BY <1>2, <1>3, <1>4, <1>5, <1>7, NoRollIsARoll DEF TypeInv

\* A pass goes on between its rolls.
LEMMA PassMoves ==
    ASSUME TypeInv, roll.pc = "idle", UNCHANGED <<rows, optout, flagged, host, roll, request, now>>,
           remit' \in [Containers -> Remits \union {None}], PassIsAPass'
    PROVE  TypeInv'
<1>1. TypeOK'
  BY DEF TypeInv, TypeOK, host, PassIsAPass
<1>2. RollInOrder' /\ RowInOrder'
  BY DEF TypeInv, RollInOrder, RowInOrder, HasOpenRow, Working, OwnPcs, RollRecords
<1>3. QED
  BY <1>1, <1>2 DEF TypeInv

LEMMA PassStepKeepsTypes == TypeInv /\ PassStep => TypeInv'
<1> SUFFICES ASSUME TypeInv, PassStep PROVE TypeInv'
  OBVIOUS
<1>1. PassIsAPass /\ remit \in [Containers -> Remits \union {None}]
  BY DEF TypeInv, TypeOK
<1>2. CASE StartPass
  <2>1. PassIsAPass'
    BY <1>2 DEF StartPass, PassIsAPass, NoPass, PassPcs
  <2>2. QED
    BY <1>1, <1>2, <2>1, PassMoves DEF StartPass, LockFree, tables
<1>3. CASE ReadOwned
  <2>1. PassIsAPass'
    BY <1>1, <1>3 DEF ReadOwned, PassIsAPass, PassPcs
  <2>2. QED
    BY <1>1, <1>3, <2>1, PassMoves DEF ReadOwned, InPass, tables
<1>4. CASE ReadKept
  <2>1. PassIsAPass'
    BY <1>1, <1>4 DEF ReadKept, PassIsAPass, PassPcs
  <2>2. QED
    BY <1>1, <1>4, <2>1, PassMoves DEF ReadKept, InPass, tables
<1>5. ASSUME NEW c \in Containers, AdoptOne(c)
      PROVE  TypeInv'
  <2>1. PassIsAPass'
    BY <1>1, <1>5 DEF AdoptOne, PassIsAPass, PassPcs
  <2>2. remit' \in [Containers -> Remits \union {None}]
    BY <1>1, <1>5 DEF AdoptOne, Remits
  <2>3. QED
    BY <1>5, <2>1, <2>2, PassMoves DEF AdoptOne, InPass
<1>6. CASE EndAdoption
  <2>1. PassIsAPass'
    BY <1>1, <1>6 DEF EndAdoption, PassIsAPass, PassPcs
  <2>2. QED
    BY <1>1, <1>6, <2>1, PassMoves DEF EndAdoption, InPass, tables
<1>7. CASE ReadTargets
  <2>1. PassIsAPass'
    BY <1>1, <1>7 DEF ReadTargets, PassIsAPass, PassPcs
  <2>2. QED
    BY <1>1, <1>7, <2>1, PassMoves DEF ReadTargets, InPass, tables
<1>8. CASE ReadHistory
  <2>1. PassIsAPass'
    BY <1>1, <1>8 DEF ReadHistory, PassIsAPass, PassPcs
  <2>2. QED
    BY <1>1, <1>8, <2>1, PassMoves DEF ReadHistory, InPass, tables
<1>9. CASE EndPass
  <2>1. PassIsAPass'
    BY <1>9 DEF EndPass, PassIsAPass, NoPass, PassPcs
  <2>2. QED
    BY <1>1, <1>9, <2>1, PassMoves DEF EndPass, InPass, tables
<1>10. ASSUME NEW c \in Containers, LeaveAlone(c)
       PROVE  TypeInv'
  <2>1. PassIsAPass'
    BY <1>1, <1>10 DEF LeaveAlone, PassIsAPass, PassPcs
  <2>2. QED
    BY <1>1, <1>10, <2>1, PassMoves DEF LeaveAlone, InPass, tables
<1>11. ASSUME NEW c \in Containers, RollOne(c)
       PROVE  TypeInv'
  <2>1. PassIsAPass' /\ pass'.pc = "roll" /\ c \notin pass'.todo
    BY <1>1, <1>11 DEF RollOne, InPass, PassIsAPass
  <2>2. /\ roll' = [pc |-> "image", c |-> c, from |-> 0, to |-> None, undo |-> FALSE]
        /\ UNCHANGED <<rows, tables, host, request, now>>
    BY <1>11 DEF RollOne, NoRoll
  <2>3. 0 \in Images
    BY BoundsAreNumbers DEF Images
  <2>4. roll' \in RollRecords
    BY <2>2, <2>3 DEF RollRecords, RollPcs
  <2>5. RollInOrder' /\ RowInOrder'
    BY <2>1, <2>2, NoneIsNothing DEF RollInOrder, RowInOrder, HasOpenRow, Working, OwnPcs
  <2>6. TypeOK'
    BY <2>1, <2>2, <2>4 DEF TypeInv, TypeOK, tables, host, RollRecords, PassIsAPass
  <2>7. QED
    BY <2>1, <2>2, <2>4, <2>5, <2>6 DEF TypeInv
<1>12. QED
  BY <1>2, <1>3, <1>4, <1>5, <1>6, <1>7, <1>8, <1>9, <1>10, <1>11 DEF PassStep

\* A roll goes on, on the row it has or has opened.
LEMMA RollMoves ==
    ASSUME TypeInv, roll.pc # "idle", UNCHANGED <<rows, tables, latest, pass, request, now>>,
           image' \in [Containers -> Images], tag' \in [Containers -> Images],
           roll' \in RollRecords, roll'.c = roll.c, roll'.undo = roll.undo, roll'.from = roll.from,
           roll'.pc # "idle", Working,
           roll'.pc \in OwnPcs => ~roll.undo, roll'.pc = "record" => roll.undo,
           roll.undo => roll'.to = roll.to
    PROVE  TypeInv'
<1>1. RollInOrder' /\ RowInOrder'
  <2>1. RollInOrder'
    BY DEF TypeInv, RollInOrder
  <2>2. RowInOrder'
    BY DEF TypeInv, RowInOrder, HasOpenRow, Working, Now
  <2>3. QED
    BY <2>1, <2>2
<1>2. TypeOK'
  BY <1>1 DEF TypeInv, TypeOK, tables, RollRecords, RollInOrder, RowInOrder, HasOpenRow, Working
<1>3. PassIsAPass'
  BY DEF TypeInv, PassIsAPass
<1>4. QED
  BY <1>1, <1>2, <1>3 DEF TypeInv

\* What finish_container_roll leaves.
LEMMA Finishes ==
    ASSUME TypeInv, HasOpenRow, NEW state \in RowStates, NEW to \in Images \union {None},
           Finish(state, to)
    PROVE  /\ rows' \in [Containers -> Seq(Rows)]
           /\ \A c \in Containers : c # roll.c => rows'[c] = rows[c]
           /\ roll.c \in Containers /\ rows'[roll.c] # <<>>
           /\ LastOf(rows'[roll.c]) = [Now EXCEPT !.state = state, !.to = to, !.ended = now]
           /\ LastOf(rows'[roll.c]).state = state /\ LastOf(rows'[roll.c]).to = to
           /\ LastOf(rows'[roll.c]).from = roll.from /\ ~LastOf(rows'[roll.c]).undo
           /\ LastOf(rows'[roll.c]).cleared = Now.cleared
           /\ PassIsAPass' /\ pass'.pc = pass.pc /\ pass'.todo = pass.todo
           /\ pass'.blocked = pass.blocked /\ pass'.owned = pass.owned /\ pass'.kept = pass.kept
           /\ roll' = NoRoll
<1>1. roll.c \in Containers
  BY DEF TypeInv, RollInOrder, HasOpenRow, Working, RollRecords
<1>2. /\ rows \in [Containers -> Seq(Rows)] /\ rows[roll.c] \in Seq(Rows) /\ rows[roll.c] # <<>>
      /\ Now.from = roll.from /\ ~Now.undo
  BY <1>1 DEF TypeInv, TypeOK, RowInOrder
<1> DEFINE s == rows[roll.c]
           r == [Now EXCEPT !.state = state, !.to = to, !.ended = now]
<1>3. Now \in Rows
  BY <1>2, LastIsARow DEF Now
<1>4. now \in Times
  BY DEF TypeInv, TypeOK, Times
<1>5. /\ r \in Rows /\ r.state = state /\ r.to = to /\ r.from = Now.from
      /\ r.cleared = Now.cleared /\ r.undo = Now.undo
  BY <1>3, <1>4 DEF Rows
<1>6. rows' = [rows EXCEPT ![roll.c] = [s EXCEPT ![Len(s)] = r]]
  BY DEF Finish
<1> HIDE DEF r
<1>7. [s EXCEPT ![Len(s)] = r] \in Seq(Rows) /\ [s EXCEPT ![Len(s)] = r] # <<>>
      /\ LastOf([s EXCEPT ![Len(s)] = r]) = r
  BY <1>2, <1>5, ClosedRow
<1>8. /\ rows' \in [Containers -> Seq(Rows)]
      /\ \A c \in Containers : c # roll.c => rows'[c] = rows[c]
      /\ rows'[roll.c] # <<>> /\ LastOf(rows'[roll.c]) = r
  BY <1>1, <1>2, <1>6, <1>7
<1>9. /\ PassIsAPass' /\ pass'.pc = pass.pc /\ pass'.todo = pass.todo
      /\ pass'.blocked = pass.blocked /\ pass'.owned = pass.owned /\ pass'.kept = pass.kept
  BY DEF Finish, TypeInv, PassIsAPass
<1>10. QED
  BY <1>1, <1>2, <1>5, <1>8, <1>9 DEF Finish, r

LEMMA FinishKeepsTypes ==
    ASSUME TypeInv, HasOpenRow, NEW state \in RowStates, NEW to \in Images \union {None},
           Finish(state, to), UNCHANGED <<remit, optout, latest, request, now>>,
           flagged' \subseteq flagged,
           image' \in [Containers -> Images], tag' \in [Containers -> Images]
    PROVE  TypeInv'
<1>1. PassIsAPass' /\ roll' = NoRoll /\ rows' \in [Containers -> Seq(Rows)]
  BY Finishes
<1>2. RollInOrder' /\ RowInOrder'
  BY <1>1, NoRollIsARoll DEF RollInOrder, RowInOrder, HasOpenRow, Working, OwnPcs
<1>3. TypeOK'
  BY <1>1, NoRollIsARoll DEF TypeInv, TypeOK, PassIsAPass, RollRecords
<1>4. QED
  BY <1>1, <1>2, <1>3, NoRollIsARoll DEF TypeInv

LEMMA RollStepKeepsTypes == TypeInv /\ RollStep => TypeInv'
<1> SUFFICES ASSUME TypeInv, RollStep PROVE TypeInv'
  OBVIOUS
<1>1. /\ roll \in RollRecords /\ image \in [Containers -> Images] /\ tag \in [Containers -> Images]
      /\ latest \in [Containers -> Images] /\ RollInOrder
  BY DEF TypeInv, TypeOK
<1>2. ASSUME roll.pc # "idle"
      PROVE  roll.c \in Containers /\ roll.from \in Images
  BY <1>1, <1>2 DEF RollInOrder, RollRecords
<1>3. CASE CannotRead
  <2>1. roll' = NoRoll /\ UNCHANGED <<rows, tables, host, pass, request, now>>
    BY <1>3 DEF CannotRead
  <2>2. RollInOrder' /\ RowInOrder'
    BY <2>1, NoRollIsARoll DEF RollInOrder, RowInOrder, HasOpenRow, Working, OwnPcs
  <2>3. TypeOK' /\ PassIsAPass'
    BY <2>1, NoRollIsARoll DEF TypeInv, TypeOK, PassIsAPass, tables, host, RollRecords
  <2>4. QED
    BY <2>1, <2>2, <2>3, NoRollIsARoll DEF TypeInv
<1>4. CASE OpenRow
  <2> DEFINE r == [state |-> "rolling", cleared |-> FALSE, from |-> image[roll.c],
                   to |-> None, began |-> now, ended |-> None, undo |-> FALSE]
  <2>1. /\ rows' = [rows EXCEPT ![roll.c] = Append(rows[roll.c], r)]
        /\ roll' = [roll EXCEPT !.pc = "pull", !.from = image[roll.c]]
        /\ UNCHANGED <<tables, host, pass, request, now>>
    BY <1>4 DEF OpenRow
  <2>2. roll.pc = "image" /\ roll.c \in Containers /\ ~roll.undo /\ roll.c # None
    BY <1>1, <1>2, <1>4 DEF OpenRow, InRoll, RollInOrder, OwnPcs
  <2>3. r \in Rows /\ r.state = "rolling" /\ r.from = image[roll.c] /\ ~r.undo
    BY <1>1, <2>2 DEF Rows, RowStates, BadStates, Times, TypeInv, TypeOK
  <2> HIDE DEF r
  <2>4. rows[roll.c] \in Seq(Rows)
    BY <2>2 DEF TypeInv, TypeOK
  <2>5. Append(rows[roll.c], r) \in Seq(Rows) /\ Append(rows[roll.c], r) # <<>>
        /\ LastOf(Append(rows[roll.c], r)) = r
    BY <2>3, <2>4, OpenedRow
  <2>6. rows' \in [Containers -> Seq(Rows)] /\ rows'[roll.c] # <<>> /\ LastOf(rows'[roll.c]) = r
    BY <2>1, <2>2, <2>5 DEF TypeInv, TypeOK
  <2>7. /\ roll' \in RollRecords /\ roll'.pc = "pull" /\ roll'.c = roll.c /\ ~roll'.undo
        /\ roll'.from = image[roll.c]
    BY <1>1, <2>1, <2>2 DEF RollRecords, RollPcs
  <2>8. RollInOrder' /\ RowInOrder'
    BY <1>1, <2>1, <2>2, <2>3, <2>6, <2>7
       DEF RollInOrder, RowInOrder, HasOpenRow, Working, OwnPcs, Now
  <2>9. TypeOK'
    BY <1>1, <2>1, <2>2, <2>3, <2>6, <2>7
       DEF TypeInv, TypeOK, tables, host, RollRecords, RollInOrder, LastOf
  <2>10. PassIsAPass'
    BY <2>1 DEF TypeInv, PassIsAPass
  <2>11. QED
    BY <2>1, <2>7, <2>8, <2>9, <2>10 DEF TypeInv
\* The steps that only move the roll.
<1>5. ASSUME NEW pc \in RollPcs \ {"idle", "image"}, roll' = [roll EXCEPT !.pc = pc],
             Working, pc \in OwnPcs => ~roll.undo, pc = "record" => roll.undo,
             UNCHANGED <<rows, tables, latest, pass, request, now>>,
             image' \in [Containers -> Images], tag' \in [Containers -> Images]
      PROVE  TypeInv'
  <2>1. /\ roll' \in RollRecords /\ roll'.pc = pc /\ roll'.c = roll.c /\ roll'.undo = roll.undo
        /\ roll'.from = roll.from /\ roll'.to = roll.to
    BY <1>1, <1>5 DEF RollRecords
  <2>2. QED
    BY <1>5, <2>1, RollMoves DEF Working
<1>6. ASSUME MayReplace(roll.c), roll.pc # "idle"
      PROVE  image' \in [Containers -> Images]
  BY <1>1, <1>2, <1>6 DEF MayReplace
<1>7. ASSUME roll.pc \in {"pull", "up", "health", "verify"}
      PROVE  Working /\ HasOpenRow
  BY <1>1, <1>7 DEF RollInOrder, OwnPcs, Working, HasOpenRow
<1>8. roll.to \in Images \union {None}
  BY <1>1 DEF RollRecords
<1>9. CASE PullFails
  BY <1>1, <1>7, <1>9, FinishKeepsTypes DEF PullFails, InRoll, tables, host, RowStates
<1>10. CASE Pull
  <2>1. /\ tag' \in [Containers -> Images] /\ latest[roll.c] \in Images /\ HasOpenRow /\ Working
        /\ roll.pc = "pull" /\ ~roll.undo
    BY <1>1, <1>2, <1>7, <1>10 DEF Pull, InRoll, RollInOrder, OwnPcs
  <2>2. CASE Finish("untouched", latest[roll.c])
    BY <1>1, <1>10, <2>1, <2>2, FinishKeepsTypes DEF Pull, tables, RowStates
  <2>3. CASE /\ roll' = [roll EXCEPT !.pc = "up", !.to = latest[roll.c]]
             /\ UNCHANGED <<rows, pass>>
    <3>1. /\ roll' \in RollRecords /\ roll'.pc = "up" /\ roll'.c = roll.c /\ roll'.undo = roll.undo
          /\ roll'.from = roll.from
      BY <1>1, <2>1, <2>3 DEF RollRecords, RollPcs
    <3>2. QED
      BY <1>1, <1>10, <2>1, <2>3, <3>1, RollMoves DEF Pull
  <2>4. QED
    BY <1>10, <2>2, <2>3 DEF Pull
<1>11. CASE ComposeUp
  <2>1. PICK pc \in {"health", "back"} : roll' = [roll EXCEPT !.pc = pc]
    BY <1>11 DEF ComposeUp
  <2>2. Working /\ ~roll.undo /\ pc \in RollPcs \ {"idle", "image"} /\ pc # "record"
    BY <1>7, <1>11 DEF ComposeUp, InRoll, HasOpenRow, RollPcs
  <2>3. image' \in [Containers -> Images]
    BY <1>6, <1>11 DEF ComposeUp, InRoll
  <2>4. QED
    BY <1>1, <1>5, <1>11, <2>1, <2>2, <2>3 DEF ComposeUp
<1>12. CASE ComesUp
  <2>1. Working /\ ~roll.undo /\ "verify" \in RollPcs \ {"idle", "image"}
    BY <1>7, <1>12 DEF ComesUp, InRoll, HasOpenRow, RollPcs
  <2>2. QED
    BY <1>1, <1>5, <1>12, <2>1 DEF ComesUp, host
<1>13. CASE StaysDown
  <2>1. Working /\ ~roll.undo /\ "back" \in RollPcs \ {"idle", "image"}
    BY <1>7, <1>13 DEF StaysDown, InRoll, HasOpenRow, RollPcs
  <2>2. QED
    BY <1>1, <1>5, <1>13, <2>1 DEF StaysDown, host
<1>14. CASE Lands
  BY <1>1, <1>7, <1>8, <1>14, FinishKeepsTypes DEF Lands, InRoll, host, RowStates
<1>15. CASE NotReplaced
  BY <1>1, <1>7, <1>8, <1>15, FinishKeepsTypes DEF NotReplaced, InRoll, tables, host, RowStates
<1>16. CASE BackTag
  <2>1. Working /\ "backup" \in RollPcs \ {"idle", "image"} /\ "backup" \notin OwnPcs
    BY <1>16 DEF BackTag, InRoll, Working, RollPcs, OwnPcs
  <2>2. tag' \in [Containers -> Images]
    BY <1>1, <1>2, <1>16 DEF BackTag, InRoll
  <2>3. QED
    BY <1>1, <1>5, <1>16, <2>1, <2>2 DEF BackTag
<1>17. ASSUME roll.undo, roll' = [roll EXCEPT !.pc = "record"], Working,
              UNCHANGED <<rows, tables, latest, tag, pass, request, now>>,
              image' \in [Containers -> Images]
       PROVE  TypeInv'
  BY <1>1, <1>5, <1>17 DEF RollPcs, OwnPcs
<1>18. CASE CannotTag
  <2>1. Working /\ roll.pc # "idle"
    BY <1>18 DEF CannotTag, InRoll, Working
  <2>2. CASE roll.undo
    BY <1>1, <1>17, <1>18, <2>1, <2>2 DEF CannotTag, host
  <2>3. CASE ~roll.undo
    BY <1>1, <1>8, <1>18, <2>1, <2>3, FinishKeepsTypes
       DEF CannotTag, HasOpenRow, tables, host, RowStates, BadStates
  <2>4. QED
    BY <2>2, <2>3
<1>19. CASE BackUp
  <2>1. Working /\ roll.pc # "idle" /\ image' \in [Containers -> Images]
    BY <1>6, <1>19 DEF BackUp, InRoll, Working
  <2>2. CASE roll.undo
    BY <1>1, <1>17, <1>19, <2>1, <2>2 DEF BackUp
  <2>3. CASE ~roll.undo
    <3>1. PICK state \in {"rolled-back", "failed"} : Finish(state, roll.to)
      BY <1>19, <2>3 DEF BackUp
    <3>2. QED
      BY <1>1, <1>8, <1>19, <2>1, <2>3, <3>1, FinishKeepsTypes
         DEF BackUp, HasOpenRow, tables, RowStates, BadStates
  <2>4. QED
    BY <2>2, <2>3
<1>20. CASE RecordUndo
  <2>1. PICK state \in {"rolled-back", "failed"} :
          rows' = [rows EXCEPT ![roll.c] =
                      Append(rows[roll.c], [state |-> state, cleared |-> FALSE, from |-> roll.to,
                                    to |-> roll.from, began |-> now, ended |-> now, undo |-> TRUE])]
    BY <1>20 DEF RecordUndo
  <2> DEFINE r == [state |-> state, cleared |-> FALSE, from |-> roll.to,
                   to |-> roll.from, began |-> now, ended |-> now, undo |-> TRUE]
  <2>2. roll.c \in Containers /\ roll.from \in Images /\ roll.to \in Images
    BY <1>1, <1>2, <1>20 DEF RecordUndo, InRoll, RollInOrder
  <2>3. r \in Rows
    BY <2>2 DEF Rows, RowStates, BadStates, Times, TypeInv, TypeOK
  <2> HIDE DEF r
  <2>4. rows' \in [Containers -> Seq(Rows)]
    <3>1. Append(rows[roll.c], r) \in Seq(Rows)
      BY <2>2, <2>3, OpenedRow DEF TypeInv, TypeOK
    <3>2. QED
      BY <2>1, <2>2, <3>1 DEF TypeInv, TypeOK, r
  <2>5. roll' = NoRoll /\ UNCHANGED <<tables, host, pass, request, now>>
    BY <1>20 DEF RecordUndo
  <2>6. RollInOrder' /\ RowInOrder'
    BY <2>5, NoRollIsARoll DEF RollInOrder, RowInOrder, HasOpenRow, Working, OwnPcs
  <2>7. TypeOK' /\ PassIsAPass'
    BY <2>4, <2>5, NoRollIsARoll DEF TypeInv, TypeOK, PassIsAPass, tables, host, RollRecords
  <2>8. QED
    BY <2>5, <2>6, <2>7, NoRollIsARoll DEF TypeInv
<1>21. QED
  BY <1>3, <1>4, <1>9, <1>10, <1>11, <1>12, <1>14, <1>13, <1>15, <1>16, <1>18, <1>19, <1>20
     DEF RollStep

LEMMA RequestKeepsTypes == TypeInv /\ RequestStep => TypeInv'
<1> SUFFICES ASSUME TypeInv, RequestStep PROVE TypeInv'
  OBVIOUS
<1>1. /\ rows \in [Containers -> Seq(Rows)] /\ remit \in [Containers -> Remits \union {None}]
      /\ request \in RequestRecords /\ (request.op = "none" <=> request.c = None)
      /\ image \in [Containers -> Images]
  BY DEF TypeInv, TypeOK
\* Claims and releases touch neither the rows nor the roll.
<1>2. ASSUME UNCHANGED <<rows, flagged, host, pass, roll, now>>, optout' \subseteq Containers,
             remit' \in [Containers -> Remits \union {None}],
             request' \in RequestRecords, request'.op = "none" <=> request'.c = None
      PROVE  TypeInv'
  <2>1. TypeOK' /\ PassIsAPass'
    BY <1>2 DEF TypeInv, TypeOK, PassIsAPass, host
  <2>2. RollInOrder' /\ RowInOrder'
    BY <1>2 DEF TypeInv, RollInOrder, RowInOrder, HasOpenRow, Working, Now
  <2>3. QED
    BY <1>2, <2>1, <2>2 DEF TypeInv
<1>3. NoRequest \in RequestRecords /\ NoRequest.op = "none" /\ NoRequest.c = None
  BY DEF NoRequest, RequestRecords
<1>4. ASSUME NEW c \in Containers, ClearBlock(c)
      PROVE  TypeInv'
  <2>1. rows' = [rows EXCEPT ![c] = Cleared(rows[c])]
    BY <1>4 DEF ClearBlock, Cleared
  <2>2. /\ Cleared(rows[c]) \in Seq(Rows)
        /\ rows[c] # <<>> => /\ Cleared(rows[c]) # <<>>
                             /\ LastOf(Cleared(rows[c])).state = LastOf(rows[c]).state
                             /\ LastOf(Cleared(rows[c])).from = LastOf(rows[c]).from
                             /\ LastOf(Cleared(rows[c])).undo = LastOf(rows[c]).undo
    BY <1>1, ClearedRows
  <2>3. UNCHANGED <<tables, host, pass, roll, request, now>>
    BY <1>4 DEF ClearBlock
  <2>4. RollInOrder' /\ RowInOrder'
    BY <1>1, <2>1, <2>2, <2>3 DEF TypeInv, RollInOrder, RowInOrder, HasOpenRow, Working, Now
  <2>5. rows' \in [Containers -> Seq(Rows)]
    BY <1>1, <2>1, <2>2
  <2>6. TypeOK' /\ PassIsAPass'
    BY <2>3, <2>4, <2>5
       DEF TypeInv, TypeOK, PassIsAPass, tables, host, RollInOrder, RowInOrder, HasOpenRow,
           Working, Now, LastOf
  <2>7. QED
    BY <2>3, <2>4, <2>6 DEF TypeInv
<1>5. ASSUME NEW c \in Containers, StartRelease(c)
      PROVE  TypeInv'
  BY <1>1, <1>2, <1>5, NoneIsNothing DEF StartRelease, RequestRecords, TypeInv, TypeOK
<1>6. ASSUME NEW c \in Containers, NEW auto \in BOOLEAN, StartClaim(c, auto)
      PROVE  TypeInv'
  BY <1>1, <1>2, <1>6, NoneIsNothing DEF StartClaim, RequestRecords, TypeInv, TypeOK
<1>7. CASE EndClaim
  <2>1. request.auto \in BOOLEAN
    BY <1>1 DEF RequestRecords
  <2>2. remit' \in [Containers -> Remits \union {None}]
    BY <1>1, <1>7, <2>1 DEF EndClaim, Remits
  <2>3. QED
    BY <1>2, <1>3, <1>7, <2>2 DEF EndClaim, TypeInv, TypeOK
<1>8. CASE EndRelease
  <2>1. request.c \in Containers
    BY <1>1, <1>8 DEF EndRelease, RequestRecords
  <2>2. QED
    BY <1>1, <1>2, <1>3, <1>8, <2>1 DEF EndRelease, TypeInv, TypeOK
<1>9. ASSUME NEW c \in Containers, NEW i \in DOMAIN rows[c], StartUndo(c, i)
      PROVE  TypeInv'
  <2>1. rows[c][i] \in Rows
    BY <1>1
  <2>2. /\ roll' = [pc |-> "back", c |-> c, from |-> rows[c][i].from, to |-> image[c], undo |-> TRUE]
        /\ UNCHANGED <<rows, tables, host, pass, request, now>>
        /\ pass.pc = "idle"
    BY <1>9 DEF StartUndo, LockFree
  <2>3. roll' \in RollRecords /\ image[c] \in Images
    BY <1>1, <2>1, <2>2 DEF RollRecords, RollPcs, Rows
  <2>4. RollInOrder' /\ RowInOrder'
    BY <2>2, <2>3, NoneIsNothing DEF RollInOrder, RowInOrder, HasOpenRow, Working, OwnPcs
  <2>5. TypeOK' /\ PassIsAPass'
    BY <2>2, <2>3 DEF TypeInv, TypeOK, PassIsAPass, tables, host, RollRecords
  <2>6. QED
    BY <2>2, <2>3, <2>4, <2>5 DEF TypeInv
<1>10. QED
  BY <1>4, <1>5, <1>6, <1>7, <1>8, <1>9 DEF RequestStep

LEMMA TypesStep == TypeInv /\ [Next]_vars => TypeInv'
<1> SUFFICES ASSUME TypeInv, [Next]_vars PROVE TypeInv'
  OBVIOUS
\* What happens outside touches neither the rows nor the work in progress.
<1>1. ASSUME UNCHANGED <<rows, remit, optout, image, tag, pass, roll, request>>,
             flagged' \subseteq Containers, latest' \in [Containers -> Images], now' \in 0..MaxTime
      PROVE  TypeInv'
  <2>1. TypeOK' /\ PassIsAPass'
    BY <1>1 DEF TypeInv, TypeOK, PassIsAPass
  <2>2. RollInOrder' /\ RowInOrder'
    BY <1>1 DEF TypeInv, RollInOrder, RowInOrder, HasOpenRow, Working, Now
  <2>3. QED
    BY <1>1, <2>1, <2>2 DEF TypeInv
<1>2. CASE Scan
  BY <1>1, <1>2 DEF Scan, host, TypeInv, TypeOK
<1>3. CASE Tick
  <2>1. now' \in 0..MaxTime
    BY <1>3, BoundsAreNumbers DEF Tick, TypeInv, TypeOK
  <2>2. QED
    BY <1>1, <1>3, <2>1 DEF Tick, tables, host, TypeInv, TypeOK
<1>4. ASSUME NEW c \in Containers, Publish(c)
      PROVE  TypeInv'
  <2>1. latest' \in [Containers -> Images]
    BY <1>4, BoundsAreNumbers DEF Publish, TypeInv, TypeOK, Images
  <2>2. QED
    BY <1>1, <1>4, <2>1 DEF Publish, tables, TypeInv, TypeOK
<1>5. CASE Lost
  <2>1. pass' = NoPass /\ roll' = NoRoll /\ UNCHANGED <<rows, tables, host, request, now>>
    BY <1>5 DEF Lost
  <2>2. PassIsAPass'
    BY <2>1 DEF PassIsAPass, NoPass, PassPcs
  <2>3. RollInOrder' /\ RowInOrder'
    BY <2>1, NoRollIsARoll DEF RollInOrder, RowInOrder, HasOpenRow, Working, OwnPcs
  <2>4. TypeOK'
    BY <2>1, <2>2, NoRollIsARoll DEF TypeInv, TypeOK, PassIsAPass, tables, host, RollRecords
  <2>5. QED
    BY <2>1, <2>2, <2>3, <2>4, NoRollIsARoll DEF TypeInv
<1>6. CASE UNCHANGED vars
  BY <1>1, <1>6 DEF vars, TypeInv, TypeOK
<1>7. QED
  BY <1>2, <1>3, <1>4, <1>5, <1>6, PassStepKeepsTypes, RollStepKeepsTypes, RequestKeepsTypes DEF Next

LEMMA TypesAlways == Spec => []TypeInv
  BY TypesInitially, TypesStep, PTL DEF Spec

(***************************************************************************)
(* Every variable of the rollouts keeps its type, and a pass that works on *)
(* a container has its row open.                                           *)
(***************************************************************************)
THEOREM RolloutTypeCorrect == Spec => []TypeOK
<1>1. TypeInv => TypeOK
  BY DEF TypeInv
<1>2. QED
  BY <1>1, TypesAlways, PTL

-----------------------------------------------------------------------------
(***************************************************************************)
(* The hold.  What is owed a look has a row that blocks it, the pass has   *)
(* read that it has, and the roll in progress is of something else: a roll *)
(* that ends badly is of a container the pass is done with.                *)
(***************************************************************************)
HeldInv ==
    /\ \A c \in owed : c \in Containers /\ Blocked(c)
    /\ pass.pc = "roll" => \A c \in pass.todo \intersect owed : c \in pass.blocked
    /\ roll.pc # "idle" /\ ~roll.undo => roll.c \notin owed

LEMMA BlockedByItsLast ==
    ASSUME NEW c \in Containers, rows[c] \in Seq(Rows), rows[c] # <<>>,
           LastOf(rows[c]).state \in BadStates, ~LastOf(rows[c]).cleared
    PROVE  Blocked(c)
<1>1. Len(rows[c]) \in DOMAIN rows[c] /\ \A j \in DOMAIN rows[c] : j <= Len(rows[c])
  OBVIOUS
<1>2. QED
  BY <1>1 DEF Blocked, LastOf

\* A step that adds no row, no debt and nothing to the pass, and begins no roll.
LEMMA HeldKept ==
    ASSUME HeldInv, UNCHANGED <<rows, owed>>,
           pass'.pc = "roll" => /\ pass.pc = "roll" /\ pass'.todo \subseteq pass.todo
                                /\ pass'.blocked = pass.blocked,
           roll'.pc # "idle" /\ ~roll'.undo => roll.pc # "idle" /\ ~roll.undo /\ roll'.c = roll.c
    PROVE  HeldInv'
<1>1. \A c \in owed' : Blocked(c)'
  BY DEF HeldInv, Blocked
<1>2. QED
  BY <1>1 DEF HeldInv

LEMMA HeldPass == TypeInv /\ HeldInv /\ PassStep => HeldInv'
<1> SUFFICES ASSUME TypeInv, HeldInv, PassStep PROVE HeldInv'
  OBVIOUS
<1>1. PassIsAPass /\ UNCHANGED <<rows, owed>>
  BY DEF TypeInv, PassStep, StartPass, ReadOwned, ReadKept, AdoptOne, EndAdoption, ReadTargets,
         ReadHistory, RollOne, LeaveAlone, EndPass, history
<1>2. CASE StartPass \/ ReadOwned \/ ReadKept \/ EndAdoption \/ ReadTargets \/ EndPass
           \/ \E c \in Containers : AdoptOne(c)
  <2>1. UNCHANGED roll
    BY <1>2 DEF StartPass, ReadOwned, ReadKept, AdoptOne, EndAdoption, ReadTargets, EndPass
  <2>2. CASE StartPass \/ EndPass
    <3>1. pass'.pc # "roll"
      <4>1. CASE StartPass
        BY <4>1 DEF StartPass, NoPass
      <4>2. CASE EndPass
        BY <4>2 DEF EndPass, NoPass
      <4>3. QED
        BY <2>2, <4>1, <4>2
    <3>2. QED
      BY <1>1, <2>1, <3>1, HeldKept
  <2>3. CASE ReadOwned \/ ReadKept \/ EndAdoption \/ ReadTargets
    <3>1. PICK pc \in {"kept", "claim", "targets", "history"} : pass'.pc = pc
      BY <1>1, <2>3 DEF ReadOwned, ReadKept, EndAdoption, ReadTargets, PassIsAPass
    <3>2. QED
      BY <1>1, <2>1, <3>1, HeldKept
  <2>4. CASE \E c \in Containers : AdoptOne(c)
    <3>1. pass'.pc = "claim"
      BY <1>1, <2>4 DEF AdoptOne, InPass, PassIsAPass
    <3>2. QED
      BY <1>1, <2>1, <3>1, HeldKept
  <2>5. QED
    BY <1>2, <2>2, <2>3, <2>4
<1>3. CASE ReadHistory
  <2>1. /\ pass'.todo = pass.todo /\ pass'.blocked = {c \in pass.todo : Blocked(c)}
        /\ UNCHANGED roll
    BY <1>1, <1>3 DEF ReadHistory, PassIsAPass
  <2>2. \A c \in pass'.todo \intersect owed : c \in pass'.blocked
    BY <2>1 DEF HeldInv
  <2>3. \A c \in owed' : Blocked(c)'
    BY <1>1 DEF HeldInv, Blocked
  <2>4. QED
    BY <1>1, <2>1, <2>2, <2>3 DEF HeldInv
<1>4. ASSUME NEW c \in Containers, LeaveAlone(c)
      PROVE  HeldInv'
  <2>1. /\ pass.pc = "roll" /\ pass'.todo \subseteq pass.todo /\ pass'.blocked = pass.blocked
        /\ UNCHANGED roll
    BY <1>1, <1>4 DEF LeaveAlone, InPass, PassIsAPass
  <2>2. QED
    BY <1>1, <2>1, HeldKept
<1>5. ASSUME NEW c \in Containers, RollOne(c)
      PROVE  HeldInv'
  <2>1. /\ pass.pc = "roll" /\ pass'.todo \subseteq pass.todo /\ pass'.blocked = pass.blocked
        /\ roll'.c = c /\ c \in pass.todo /\ c \notin pass.blocked
    BY <1>1, <1>5 DEF RollOne, MayRoll, InPass, PassIsAPass, NoRoll
  <2>2. c \notin owed
    BY <2>1 DEF HeldInv
  <2>3. \A d \in owed' : d \in Containers /\ Blocked(d)'
    BY <1>1 DEF HeldInv, Blocked
  <2>4. QED
    BY <1>1, <2>1, <2>2, <2>3 DEF HeldInv
<1>6. QED
  BY <1>2, <1>3, <1>4, <1>5 DEF PassStep

\* However a roll ends, its container was not owed a look, and is when it ended badly.
LEMMA HeldFinish ==
    ASSUME TypeInv, HeldInv, HasOpenRow, NEW state \in RowStates,
           NEW to \in Images \union {None}, Finish(state, to)
    PROVE  HeldInv'
<1>1. /\ rows' \in [Containers -> Seq(Rows)]
      /\ \A c \in Containers : c # roll.c => rows'[c] = rows[c]
      /\ roll.c \in Containers /\ rows'[roll.c] # <<>>
      /\ LastOf(rows'[roll.c]).state = state /\ LastOf(rows'[roll.c]).cleared = Now.cleared
      /\ pass'.pc = pass.pc /\ pass'.todo = pass.todo /\ pass'.blocked = pass.blocked
      /\ roll' = NoRoll
  BY Finishes
<1>2. owed' = IF state \in BadStates /\ ~Now.cleared THEN owed \union {roll.c} ELSE owed
  BY DEF Finish
<1>3. roll.c \notin owed /\ (pass.pc = "roll" => roll.c \notin pass.todo)
  BY DEF HeldInv, TypeInv, RollInOrder, HasOpenRow, Working
<1>4. ASSUME NEW c \in owed'
      PROVE  c \in Containers /\ Blocked(c)'
  <2>1. CASE c = roll.c
    <3>1. state \in BadStates /\ ~Now.cleared
      BY <1>2, <1>3, <1>4, <2>1
    <3>2. rows'[c] \in Seq(Rows) /\ Len(rows'[c]) \in DOMAIN rows'[c]
          /\ \A j \in DOMAIN rows'[c] : j <= Len(rows'[c])
      BY <1>1, <2>1
    <3>3. QED
      BY <1>1, <2>1, <3>1, <3>2 DEF Blocked, LastOf
  <2>2. CASE c # roll.c
    BY <1>1, <1>2, <1>4, <2>2 DEF HeldInv, Blocked
  <2>3. QED
    BY <2>1, <2>2
<1>5. QED
  BY <1>1, <1>2, <1>3, <1>4, NoRollIsARoll DEF HeldInv

LEMMA HeldRoll == TypeInv /\ HeldInv /\ RollStep => HeldInv'
<1> SUFFICES ASSUME TypeInv, HeldInv, RollStep PROVE HeldInv'
  OBVIOUS
<1>1. /\ roll \in RollRecords /\ RollInOrder /\ roll.to \in Images \union {None}
      /\ latest \in [Containers -> Images] /\ rows \in [Containers -> Seq(Rows)]
      /\ (roll.pc # "idle" => roll.c \in Containers)
  BY DEF TypeInv, TypeOK, RollRecords, RollInOrder
<1>2. ASSUME NEW pc, roll' = [roll EXCEPT !.pc = pc], roll.pc # "idle", UNCHANGED <<rows, owed, pass>>
      PROVE  HeldInv'
  <2>1. roll'.c = roll.c /\ roll'.undo = roll.undo
    BY <1>1, <1>2 DEF RollRecords
  <2>2. QED
    BY <1>2, <2>1, HeldKept
<1>3. ASSUME NEW state, NEW to \in Images \union {None}, Finish(state, to), ~roll.undo,
             roll.pc \notin {"idle", "image"}, state \in RowStates
      PROVE  HeldInv'
  BY <1>3, HeldFinish DEF HasOpenRow, Working
<1>4. CASE CannotRead
  BY <1>4, NoRollIsARoll, HeldKept DEF CannotRead, history
<1>5. CASE OpenRow
  <2>1. /\ UNCHANGED <<owed, pass>> /\ roll.c \in Containers /\ roll.c \notin owed
        /\ \A c \in Containers : c # roll.c => rows'[c] = rows[c]
        /\ roll' = [roll EXCEPT !.pc = "pull", !.from = image[roll.c]]
        /\ roll.pc # "idle" /\ ~roll.undo
    BY <1>1, <1>5 DEF OpenRow, InRoll, HeldInv, RollInOrder, OwnPcs, history
  <2>2. roll'.c = roll.c
    BY <1>1, <2>1 DEF RollRecords
  <2>3. \A c \in owed' : c \in Containers /\ Blocked(c)'
    BY <2>1 DEF HeldInv, Blocked
  <2>4. QED
    BY <2>1, <2>2, <2>3 DEF HeldInv
<1>6. CASE PullFails \/ Lands \/ NotReplaced
  BY <1>1, <1>3, <1>6 DEF PullFails, Lands, NotReplaced, InRoll, RollInOrder, OwnPcs, RowStates
<1>7. CASE Pull
  <2>1. CASE Finish("untouched", latest[roll.c])
    BY <1>1, <1>3, <1>7, <2>1 DEF Pull, InRoll, RollInOrder, OwnPcs, RowStates
  <2>2. CASE roll' = [roll EXCEPT !.pc = "up", !.to = latest[roll.c]] /\ UNCHANGED <<rows, pass, owed>>
    <3>1. roll'.c = roll.c /\ roll'.undo = roll.undo /\ roll.pc # "idle"
      BY <1>1, <1>7, <2>2 DEF Pull, InRoll, RollRecords
    <3>2. QED
      BY <2>2, <3>1, HeldKept
  <2>3. QED
    BY <1>7, <2>1, <2>2 DEF Pull
<1>8. CASE ComposeUp \/ ComesUp \/ StaysDown \/ BackTag
  BY <1>2, <1>8 DEF ComposeUp, ComesUp, StaysDown, BackTag, InRoll, history
<1>9. CASE CannotTag
  <2>1. CASE roll.undo
    BY <1>2, <1>9, <2>1 DEF CannotTag, InRoll
  <2>2. CASE ~roll.undo
    BY <1>1, <1>3, <1>9, <2>2 DEF CannotTag, InRoll, RowStates, BadStates
  <2>3. QED
    BY <2>1, <2>2
<1>10. CASE BackUp
  <2>1. CASE roll.undo
    BY <1>2, <1>10, <2>1 DEF BackUp, InRoll
  <2>2. CASE ~roll.undo
    BY <1>1, <1>3, <1>10, <2>2 DEF BackUp, InRoll, RowStates, BadStates
  <2>3. QED
    BY <2>1, <2>2
<1>11. CASE RecordUndo
  <2>1. PICK state \in {"rolled-back", "failed"} :
          rows' = [rows EXCEPT ![roll.c] =
                      Append(rows[roll.c], [state |-> state, cleared |-> FALSE, from |-> roll.to,
                                    to |-> roll.from, began |-> now, ended |-> now, undo |-> TRUE])]
    BY <1>11 DEF RecordUndo
  <2> DEFINE r == [state |-> state, cleared |-> FALSE, from |-> roll.to,
                   to |-> roll.from, began |-> now, ended |-> now, undo |-> TRUE]
             s == Append(rows[roll.c], r)
  <2>2. roll.c \in Containers /\ owed' = owed \union {roll.c} /\ roll' = NoRoll /\ UNCHANGED pass
        /\ pass.pc = "idle"
    BY <1>1, <1>11 DEF RecordUndo, InRoll, RollInOrder
  <2>3. rows'[roll.c] = s /\ \A c \in Containers : c # roll.c => rows'[c] = rows[c]
    BY <1>1, <2>1, <2>2
  <2>4. r.state \in BadStates /\ ~r.cleared
    BY DEF BadStates
  <2> HIDE DEF r
  <2>5. rows[roll.c] \in Seq(Rows)
    BY <1>1, <2>2
  <2>6. /\ DOMAIN s = 1..(Len(rows[roll.c]) + 1) /\ Len(rows[roll.c]) \in Nat
        /\ s[Len(rows[roll.c]) + 1] = r
    BY <2>5
  <2> HIDE DEF s
  <2>7. \A c \in Containers : c = roll.c => Blocked(c)'
    <3>1. /\ Len(rows[roll.c]) + 1 \in DOMAIN s
          /\ \A j \in DOMAIN s : j <= Len(rows[roll.c]) + 1
      BY <2>6
    <3>2. \E i \in {k \in DOMAIN s : s[k].state \in BadStates} :
            ~s[i].cleared /\ \A j \in {k \in DOMAIN s : s[k].state \in BadStates} : j <= i
      BY <2>4, <2>6, <3>1
    <3>3. QED
      BY <2>3, <3>2 DEF Blocked
  <2>8. \A c \in owed' : c \in Containers /\ Blocked(c)'
    BY <2>2, <2>3, <2>7 DEF HeldInv, Blocked
  <2>9. QED
    BY <2>2, <2>8, NoRollIsARoll DEF HeldInv
<1>12. QED
  BY <1>4, <1>5, <1>6, <1>7, <1>8, <1>9, <1>10, <1>11 DEF RollStep

LEMMA HeldStep == TypeInv /\ HeldInv /\ [Next]_vars => HeldInv'
<1> SUFFICES ASSUME TypeInv, HeldInv, [Next]_vars PROVE HeldInv'
  OBVIOUS
<1>1. ASSUME NEW c \in Containers, ClearBlock(c)
      PROVE  HeldInv'
  <2>1. /\ owed' = owed \ {c} /\ UNCHANGED <<pass, roll>>
        /\ \A d \in Containers : d # c => rows'[d] = rows[d]
    BY <1>1 DEF ClearBlock, TypeInv, TypeOK
  <2>2. QED
    BY <2>1 DEF HeldInv, Blocked
<1>2. CASE Lost
  <2>1. pass' = NoPass /\ roll' = NoRoll /\ UNCHANGED rows
    BY <1>2 DEF Lost
  <2>2. \A c \in owed' : c \in Containers /\ Blocked(c)
    <3>1. CASE owed' = owed
      BY <3>1 DEF HeldInv
    <3>2. CASE owed' = owed \union {roll.c} /\ HasOpenRow /\ ~Now.cleared
      <4>1. /\ roll.c \in Containers /\ rows[roll.c] \in Seq(Rows) /\ rows[roll.c] # <<>>
            /\ Now.state \in BadStates
        BY <3>2 DEF TypeInv, TypeOK, RollInOrder, RowInOrder, RollRecords, HasOpenRow, Working,
           BadStates
      <4>2. Blocked(roll.c)
        BY <3>2, <4>1, BlockedByItsLast DEF Now
      <4>3. QED
        BY <3>2, <4>1, <4>2 DEF HeldInv
    <3>3. QED
      BY <1>2, <3>1, <3>2 DEF Lost, HasOpenRow, Working
  <2>3. \A c \in owed' : c \in Containers /\ Blocked(c)'
    BY <2>1, <2>2 DEF Blocked
  <2>4. QED
    BY <2>1, <2>3, NoRollIsARoll DEF HeldInv, NoPass
<1>3. CASE Scan \/ Tick \/ UNCHANGED vars \/ \E c \in Containers : Publish(c)
  BY <1>3, HeldKept DEF Scan, Tick, Publish, vars, history
<1>4. CASE \/ EndClaim \/ EndRelease \/ \E c \in Containers : StartRelease(c)
           \/ \E c \in Containers, auto \in BOOLEAN : StartClaim(c, auto)
  BY <1>4, HeldKept DEF EndClaim, EndRelease, StartRelease, StartClaim
<1>5. ASSUME NEW c \in Containers, NEW i \in DOMAIN rows[c], StartUndo(c, i)
      PROVE  HeldInv'
  BY <1>5, HeldKept DEF StartUndo, history
<1>6. QED
  BY <1>1, <1>2, <1>3, <1>4, <1>5, HeldPass, HeldRoll DEF Next, RequestStep

(***************************************************************************)
(* "The rail that turns a nightly crash-loop into one incident", for any   *)
(* containers, passes, requests and losses: what ended badly is not        *)
(* brought up again before somebody has cleared it.                        *)
(***************************************************************************)
THEOREM BadEndsAreHeld == Spec => HeldUntilLookedAt
<1>1. Init => HeldInv
  <2> SUFFICES ASSUME Init PROVE HeldInv
    OBVIOUS
  <2>1. owed = {} /\ pass.pc = "idle" /\ roll.pc = "idle"
    BY NoRollIsARoll DEF Init, NoPass
  <2>2. QED
    BY <2>1 DEF HeldInv
<1>2. TypeInv /\ HeldInv /\ [Next]_vars
        => [\A c \in owed : c \notin restarted /\ InRoll("up") => c \notin restarted']_vars
  <2> SUFFICES ASSUME TypeInv, HeldInv, [Next]_vars, NEW c \in owed,
                      c \notin restarted, InRoll("up")
               PROVE  c \notin restarted'
    OBVIOUS
  <2>1. c # roll.c
    BY DEF HeldInv, InRoll, TypeInv, RollInOrder, OwnPcs
  <2>2. restarted' \subseteq restarted \union {roll.c}
    BY DEF Next, PassStep, RollStep, RequestStep, StartPass, ReadOwned, ReadKept, AdoptOne,
       EndAdoption, ReadTargets, ReadHistory, RollOne, LeaveAlone, EndPass, CannotRead, OpenRow,
       PullFails, Pull, ComposeUp, ComesUp, StaysDown, Lands, NotReplaced, BackTag, CannotTag,
       BackUp, RecordUndo, ClearBlock, StartClaim, EndClaim, StartRelease, EndRelease, StartUndo,
       Scan, Tick, Publish, Lost, vars, history
  <2>3. QED
    BY <2>1, <2>2
<1>3. QED
  BY <1>1, <1>2, TypesAlways, HeldStep, PTL DEF Spec, HeldUntilLookedAt

-----------------------------------------------------------------------------
(***************************************************************************)
(* The record and the container.  Only a roll that has its row open, or an *)
(* undo, brings anything up, and each leaves a row that is about what it   *)
(* left running.                                                           *)
(***************************************************************************)
RowMatches(row, running) ==
    /\ row.state = "rolled" => running = row.to
    /\ row.state = "rolled-back" => running = IF row.undo THEN row.to ELSE row.from

MatchInv ==
    \A c \in Containers \ untraced :
        rows[c] # <<>> /\ ~(Working /\ roll.c = c) => RowMatches(LastOf(rows[c]), image[c])

\* A step that writes no row, runs nothing else and leaves no work.
LEMMA MatchKept ==
    ASSUME MatchInv, UNCHANGED rows, untraced \subseteq untraced',
           \A c \in Containers : image'[c] = image[c] \/ (Working' /\ roll'.c = c),
           \A c \in Containers : Working /\ roll.c = c => Working' /\ roll'.c = c
    PROVE  MatchInv'
  BY DEF MatchInv

LEMMA MatchFinish ==
    ASSUME TypeInv, MatchInv, HasOpenRow, NEW state \in RowStates,
           NEW to \in Images \union {None}, Finish(state, to), UNCHANGED untraced,
           image' \in [Containers -> Images],
           \A c \in Containers : c # roll.c => image'[c] = image[c],
           state = "rolled" => image'[roll.c] = to,
           state = "rolled-back" => image'[roll.c] = roll.from
    PROVE  MatchInv'
<1>1. /\ \A c \in Containers : c # roll.c => rows'[c] = rows[c]
      /\ LastOf(rows'[roll.c]).state = state /\ LastOf(rows'[roll.c]).to = to
      /\ LastOf(rows'[roll.c]).from = roll.from /\ ~LastOf(rows'[roll.c]).undo
      /\ roll' = NoRoll
  BY Finishes
<1>2. RowMatches(LastOf(rows'[roll.c]), image'[roll.c])
  BY <1>1 DEF RowMatches
<1>3. QED
  BY <1>1, <1>2 DEF MatchInv

LEMMA MatchRoll == TypeInv /\ MatchInv /\ RollStep => MatchInv'
<1> SUFFICES ASSUME TypeInv, MatchInv, RollStep PROVE MatchInv'
  OBVIOUS
<1>1. /\ roll \in RollRecords /\ RollInOrder /\ roll.to \in Images \union {None}
      /\ latest \in [Containers -> Images] /\ image \in [Containers -> Images]
      /\ (roll.pc # "idle" => roll.c \in Containers)
  BY DEF TypeInv, TypeOK, RollRecords, RollInOrder
<1>2. ASSUME NEW pc \in RollPcs \ {"idle", "image"}, roll' = [roll EXCEPT !.pc = pc],
             UNCHANGED <<rows, untraced>>,
             \A c \in Containers : c # roll.c => image'[c] = image[c]
      PROVE  MatchInv'
  <2>1. Working' /\ roll'.c = roll.c
    BY <1>1, <1>2 DEF Working, RollRecords
  <2>2. QED
    BY <1>2, <2>1, MatchKept
<1>3. ASSUME NEW state \in RowStates, NEW to \in Images \union {None}, Finish(state, to), ~roll.undo,
             roll.pc \notin {"idle", "image"}, UNCHANGED untraced,
             image' \in [Containers -> Images],
             \A c \in Containers : c # roll.c => image'[c] = image[c],
             state = "rolled" => image'[roll.c] = to,
             state = "rolled-back" => image'[roll.c] = roll.from
      PROVE  MatchInv'
  BY <1>3, MatchFinish DEF HasOpenRow, Working
<1>4. ASSUME MayReplace(roll.c), roll.pc # "idle"
      PROVE  image' \in [Containers -> Images] /\ \A c \in Containers : c # roll.c => image'[c] = image[c]
  BY <1>1, <1>4 DEF MayReplace, TypeInv, TypeOK
<1>5. CASE CannotRead
  <2>1. ~Working /\ UNCHANGED <<rows, image, untraced>>
    BY <1>5 DEF CannotRead, InRoll, Working, host, history
  <2>2. QED
    BY <2>1, MatchKept
<1>6. CASE OpenRow
  <2>1. /\ Working' /\ roll'.c = roll.c /\ UNCHANGED <<image, untraced>> /\ ~Working
        /\ \A c \in Containers : c # roll.c => rows'[c] = rows[c]
    BY <1>1, <1>6 DEF OpenRow, InRoll, Working, RollRecords, host, history, TypeInv, TypeOK
  <2>2. QED
    BY <2>1 DEF MatchInv
<1>7. CASE PullFails \/ NotReplaced
  <2>1. /\ ~roll.undo /\ roll.pc \notin {"idle", "image"} /\ UNCHANGED <<image, untraced>>
        /\ "untouched" \in RowStates /\ "untouched" \notin {"rolled", "rolled-back"}
    BY <1>1, <1>7 DEF PullFails, NotReplaced, InRoll, RollInOrder, OwnPcs, host, RowStates
  <2>2. QED
    BY <1>1, <1>3, <1>7, <2>1 DEF PullFails, NotReplaced
<1>8. CASE Lands
  <2>1. ~roll.undo /\ roll.pc \notin {"idle", "image"} /\ UNCHANGED <<image, untraced>>
        /\ "rolled" \in RowStates
    BY <1>1, <1>8 DEF Lands, InRoll, RollInOrder, OwnPcs, host, RowStates
  <2>2. QED
    BY <1>1, <1>3, <1>8, <2>1 DEF Lands
<1>9. CASE Pull
  <2>1. ~roll.undo /\ roll.pc = "pull" /\ roll.c \in Containers /\ UNCHANGED <<image, untraced>>
        /\ "untouched" \in RowStates /\ latest[roll.c] \in Images
    BY <1>1, <1>9 DEF Pull, InRoll, RollInOrder, OwnPcs, RowStates
  <2>2. CASE Finish("untouched", latest[roll.c])
    BY <1>1, <1>3, <2>1, <2>2
  <2>3. CASE roll' = [roll EXCEPT !.pc = "up", !.to = latest[roll.c]] /\ UNCHANGED rows
    <3>1. Working' /\ roll'.c = roll.c
      BY <1>1, <2>3 DEF Working, RollRecords
    <3>2. QED
      BY <2>1, <2>3, <3>1, MatchKept
  <2>4. QED
    BY <1>9, <2>2, <2>3 DEF Pull
<1>10. CASE ComposeUp
  <2>1. roll.pc # "idle" /\ MayReplace(roll.c) /\ UNCHANGED <<rows, untraced>>
    BY <1>10 DEF ComposeUp, InRoll
  <2>2. PICK pc \in {"health", "back"} : roll' = [roll EXCEPT !.pc = pc]
    BY <1>10 DEF ComposeUp
  <2>3. pc \in RollPcs \ {"idle", "image"}
    BY DEF RollPcs
  <2>4. QED
    BY <1>2, <1>4, <2>1, <2>2, <2>3
<1>11. CASE ComesUp \/ StaysDown \/ BackTag
  BY <1>2, <1>11 DEF ComesUp, StaysDown, BackTag, host, history, RollPcs
<1>12. CASE CannotTag
  <2>1. CASE roll.undo
    BY <1>2, <1>12, <2>1 DEF CannotTag, host, RollPcs
  <2>2. CASE ~roll.undo
    <3>1. "failed" \in RowStates /\ UNCHANGED <<image, untraced>> /\ roll.pc \notin {"idle", "image"}
      BY <1>12 DEF CannotTag, InRoll, host, RowStates, BadStates
    <3>2. QED
      BY <1>1, <1>3, <1>12, <2>2, <3>1 DEF CannotTag
  <2>3. QED
    BY <2>1, <2>2
<1>13. CASE BackUp
  <2>1. /\ image' \in [Containers -> Images] /\ \A c \in Containers : c # roll.c => image'[c] = image[c]
        /\ UNCHANGED untraced /\ roll.pc \notin {"idle", "image"}
    BY <1>4, <1>13 DEF BackUp, InRoll
  <2>2. CASE roll.undo
    BY <1>2, <1>13, <2>1, <2>2 DEF BackUp, RollPcs
  <2>3. CASE ~roll.undo
    <3>1. PICK state \in {"rolled-back", "failed"} :
            Finish(state, roll.to) /\ (state = "rolled-back" => image'[roll.c] = roll.from)
      BY <1>13, <2>3 DEF BackUp
    <3>2. state \in RowStates
      BY DEF RowStates, BadStates
    <3>3. QED
      BY <1>1, <1>3, <2>1, <2>3, <3>1, <3>2
  <2>4. QED
    BY <2>2, <2>3
<1>14. CASE RecordUndo
  <2>1. PICK state \in {"rolled-back", "failed"} :
          /\ state = "rolled-back" => image[roll.c] = roll.from
          /\ rows' = [rows EXCEPT ![roll.c] =
                        Append(rows[roll.c], [state |-> state, cleared |-> FALSE, from |-> roll.to,
                                      to |-> roll.from, began |-> now, ended |-> now, undo |-> TRUE])]
    BY <1>14 DEF RecordUndo
  <2> DEFINE r == [state |-> state, cleared |-> FALSE, from |-> roll.to,
                   to |-> roll.from, began |-> now, ended |-> now, undo |-> TRUE]
  <2>2. roll.c \in Containers /\ UNCHANGED <<image, untraced>>
    BY <1>1, <1>14 DEF RecordUndo, InRoll, host
  <2>3. RowMatches(r, image[roll.c])
    BY <2>1 DEF RowMatches
  <2>4. rows[roll.c] \in Seq(Rows)
    BY <2>2 DEF TypeInv, TypeOK
  <2> HIDE DEF r
  <2>5. /\ LastOf(Append(rows[roll.c], r)) = r
    BY <2>4 DEF LastOf
  <2>6. /\ \A c \in Containers : c # roll.c => rows'[c] = rows[c]
        /\ LastOf(rows'[roll.c]) = r
    BY <2>1, <2>2, <2>5 DEF TypeInv, TypeOK, r
  <2>7. QED
    BY <2>2, <2>3, <2>6 DEF MatchInv
<1>15. QED
  BY <1>5, <1>6, <1>7, <1>8, <1>9, <1>10, <1>11, <1>12, <1>13, <1>14 DEF RollStep

LEMMA MatchStep == TypeInv /\ MatchInv /\ [Next]_vars => MatchInv'
<1> SUFFICES ASSUME TypeInv, MatchInv, [Next]_vars PROVE MatchInv'
  OBVIOUS
<1>1. CASE PassStep
  <2>1. UNCHANGED <<rows, image, untraced>>
    BY <1>1 DEF PassStep, StartPass, ReadOwned, ReadKept, AdoptOne, EndAdoption, ReadTargets,
       ReadHistory, RollOne, LeaveAlone, EndPass, host, history
  <2>2. ~Working
    BY <1>1 DEF PassStep, StartPass, LockFree, InPass, ReadOwned, ReadKept, AdoptOne, EndAdoption,
       ReadTargets, ReadHistory, RollOne, LeaveAlone, EndPass, Working
  <2>3. QED
    BY <2>1, <2>2, MatchKept
<1>2. CASE \/ Scan \/ Tick \/ UNCHANGED vars \/ EndClaim \/ EndRelease
           \/ \E c \in Containers : Publish(c) \/ StartRelease(c)
           \/ \E c \in Containers, auto \in BOOLEAN : StartClaim(c, auto)
  <2>1. UNCHANGED <<rows, image, untraced, roll>>
    BY <1>2 DEF Scan, Tick, Publish, vars, history, host, EndClaim, EndRelease, StartRelease, StartClaim
  <2>2. QED
    BY <2>1, MatchKept DEF Working
<1>3. ASSUME NEW c \in Containers, ClearBlock(c)
      PROVE  MatchInv'
  <2>1. rows' = [rows EXCEPT ![c] = Cleared(rows[c])] /\ UNCHANGED <<image, untraced, roll>>
    BY <1>3 DEF ClearBlock, Cleared, host
  <2>2. rows \in [Containers -> Seq(Rows)] /\ rows[c] \in Seq(Rows) /\ rows[c] # <<>>
    BY <1>3 DEF ClearBlock, TypeInv, TypeOK
  <2>3. /\ LastOf(Cleared(rows[c])).state = LastOf(rows[c]).state
        /\ LastOf(Cleared(rows[c])).from = LastOf(rows[c]).from
        /\ LastOf(Cleared(rows[c])).to = LastOf(rows[c]).to
        /\ LastOf(Cleared(rows[c])).undo = LastOf(rows[c]).undo
    BY <2>2, ClearedRows
  <2>4. \A d \in Containers : IF d = c THEN rows'[d] = Cleared(rows[d]) ELSE rows'[d] = rows[d]
    BY <2>1, <2>2
  <2>5. QED
    BY <2>1, <2>2, <2>3, <2>4 DEF MatchInv, RowMatches, Working
<1>4. ASSUME NEW c \in Containers, NEW i \in DOMAIN rows[c], StartUndo(c, i)
      PROVE  MatchInv'
  <2>1. UNCHANGED <<rows, image, untraced>> /\ ~Working
    BY <1>4 DEF StartUndo, LockFree, Working, host, history
  <2>2. QED
    BY <2>1, MatchKept
\* A roll that is cut short leaves its row open, an undo leaves none.
<1>5. CASE Lost
  <2>1. /\ UNCHANGED <<rows, image>> /\ roll' = NoRoll
        /\ untraced' = IF roll.undo THEN untraced \union {roll.c} ELSE untraced
    BY <1>5 DEF Lost, host
  <2>2. SUFFICES ASSUME NEW c \in Containers \ untraced', rows[c] # <<>>
                 PROVE  RowMatches(LastOf(rows[c]), image[c])
    BY <2>1 DEF MatchInv
  <2>3. CASE Working /\ roll.c = c
    <3>1. HasOpenRow
      BY <2>1, <2>2, <2>3 DEF HasOpenRow
    <3>2. LastOf(rows[c]).state = "rolling"
      BY <2>3, <3>1 DEF TypeInv, RowInOrder, Now
    <3>3. QED
      BY <3>2 DEF RowMatches
  <2>4. CASE ~(Working /\ roll.c = c)
    BY <2>1, <2>2, <2>4 DEF MatchInv
  <2>5. QED
    BY <2>3, <2>4
<1>6. QED
  BY <1>1, <1>2, <1>3, <1>4, <1>5, MatchRoll DEF Next, RequestStep

(***************************************************************************)
(* "Verified, not assumed", for any containers, passes, requests and       *)
(* losses: a container nobody works on runs what its newest row says.      *)
(***************************************************************************)
THEOREM RecordIsOfWhatRuns == Spec => []RecordMatchesContainer
<1>1. Init => MatchInv
  BY DEF Init, MatchInv
<1>2. MatchInv => RecordMatchesContainer
  BY DEF MatchInv, RecordMatchesContainer, RowMatches
<1>3. QED
  BY <1>1, <1>2, TypesAlways, MatchStep, PTL DEF Spec

-----------------------------------------------------------------------------
(***************************************************************************)
(* The decisions of people.  While a pass adopts, what was decided before  *)
(* it read is in what it read, and what was decided since is contested.    *)
(***************************************************************************)
Settled(c) == c \notin contested /\ request.c # c

DecisionInv ==
    /\ decided \in [Containers -> Remits \union {None, Released}]
    /\ \A c \in Containers : Settled(c) /\ decided[c] \in Remits =>
          remit[c] = decided[c] /\ (Adopting => c \in pass.owned)
    /\ \A c \in Containers : Settled(c) /\ decided[c] = Released =>
          remit[c] = None /\ c \in optout /\ (pass.pc = "claim" => c \in pass.kept)
    /\ request.op = "release" /\ request.c \notin contested => remit[request.c] = None

LEMMA DecisionKept ==
    ASSUME DecisionInv, UNCHANGED <<remit, optout, request, decided, contested>>,
           Adopting' => Adopting /\ pass.owned \subseteq pass'.owned,
           pass'.pc = "claim" => pass.pc = "claim" /\ pass'.kept = pass.kept
    PROVE  DecisionInv'
  BY DEF DecisionInv, Settled

LEMMA DecisionPass == TypeInv /\ DecisionInv /\ PassStep => DecisionInv'
<1> SUFFICES ASSUME TypeInv, DecisionInv, PassStep PROVE DecisionInv'
  OBVIOUS
<1>1. PassIsAPass /\ UNCHANGED <<optout, request, decided>>
  BY DEF TypeInv, PassStep, StartPass, ReadOwned, ReadKept, AdoptOne, EndAdoption, ReadTargets,
     ReadHistory, RollOne, LeaveAlone, EndPass, history, tables
<1>2. ASSUME pass'.pc \notin {"kept", "claim"}, UNCHANGED <<remit, contested>>
      PROVE  DecisionInv'
  BY <1>1, <1>2, DecisionKept DEF Adopting
<1>3. CASE StartPass
  BY <1>2, <1>3 DEF StartPass, NoPass, tables
<1>4. CASE EndPass
  BY <1>2, <1>4 DEF EndPass, NoPass, tables, history
<1>5. CASE EndAdoption \/ ReadTargets \/ ReadHistory
  <2>1. pass'.pc \in {"targets", "history", "roll"} /\ UNCHANGED <<remit, contested>>
    BY <1>1, <1>5 DEF EndAdoption, ReadTargets, ReadHistory, PassIsAPass, tables, history
  <2>2. QED
    BY <1>2, <2>1
<1>6. ASSUME NEW c \in Containers, RollOne(c) \/ LeaveAlone(c)
      PROVE  DecisionInv'
  <2>1. pass'.pc = "roll" /\ UNCHANGED <<remit, contested>>
    BY <1>1, <1>6 DEF RollOne, LeaveAlone, InPass, PassIsAPass, tables, history
  <2>2. QED
    BY <1>2, <2>1
<1>7. CASE ReadOwned
  <2>1. /\ pass'.pc = "kept" /\ pass'.owned = {c \in Containers : remit[c] # None}
        /\ UNCHANGED <<remit, contested>>
    BY <1>1, <1>7 DEF ReadOwned, PassIsAPass, tables, history
  <2>2. None \notin Remits
    BY NoneIsNothing
  <2>3. QED
    BY <1>1, <2>1, <2>2 DEF DecisionInv, Settled
<1>8. CASE ReadKept
  <2>1. /\ pass.pc = "kept" /\ pass'.pc = "claim" /\ pass'.owned = pass.owned /\ pass'.kept = optout
        /\ UNCHANGED <<remit, contested>>
    BY <1>1, <1>8 DEF ReadKept, InPass, PassIsAPass, tables, history
  <2>2. QED
    BY <1>1, <2>1 DEF DecisionInv, Settled, Adopting
<1>9. ASSUME NEW c \in Containers, AdoptOne(c)
      PROVE  DecisionInv'
  <2>1. /\ pass.pc = "claim" /\ c \notin pass.owned /\ c \notin pass.kept
        /\ pass'.pc = "claim" /\ pass'.owned = pass.owned \union {c} /\ pass'.kept = pass.kept
        /\ contested' = IF request.c = c THEN contested \union {c} ELSE contested
        /\ \A d \in Containers : d # c => remit'[d] = remit[d]
    BY <1>1, <1>9 DEF AdoptOne, Adoptable, InPass, PassIsAPass, TypeInv, TypeOK
  <2>2. Settled(c) => decided[c] \notin Remits /\ decided[c] # Released
    BY <2>1 DEF DecisionInv, Adopting
  <2>3. \A d \in Containers : Settled(d)' => Settled(d)
    BY <1>1, <2>1 DEF Settled
  <2>4. ASSUME NEW d \in Containers, Settled(d)'
        PROVE  /\ decided'[d] \in Remits => remit'[d] = decided'[d] /\ (Adopting' => d \in pass'.owned)
               /\ decided'[d] = Released => /\ remit'[d] = None /\ d \in optout'
                                            /\ (pass'.pc = "claim" => d \in pass'.kept)
    <3>1. Settled(d)
      BY <2>3, <2>4
    <3>2. CASE d = c
      BY <1>1, <2>2, <3>1, <3>2
    <3>3. CASE d # c
      BY <1>1, <2>1, <3>1, <3>3 DEF DecisionInv, Adopting
    <3>4. QED
      BY <3>2, <3>3
  <2>5. request.op = "release" /\ request.c \notin contested' => remit'[request.c] = None
    <3>1. request.op = "release" => request.c \in Containers
      BY DEF TypeInv, RequestRecords
    <3>2. QED
      BY <2>1, <3>1 DEF DecisionInv
  <2>6. QED
    BY <1>1, <2>4, <2>5 DEF DecisionInv
<1>10. QED
  BY <1>3, <1>4, <1>5, <1>6, <1>7, <1>8, <1>9 DEF PassStep

LEMMA DecisionStep == TypeInv /\ DecisionInv /\ [Next]_vars => DecisionInv'
<1> SUFFICES ASSUME TypeInv, DecisionInv, [Next]_vars PROVE DecisionInv'
  OBVIOUS
<1>1. CASE RollStep
  <2>1. UNCHANGED <<remit, optout, request, decided, contested>>
    BY <1>1 DEF RollStep, CannotRead, OpenRow, PullFails, Pull, ComposeUp, ComesUp, StaysDown, Lands,
       NotReplaced, BackTag, CannotTag, BackUp, RecordUndo, tables, history
  <2>2. pass'.pc = pass.pc /\ pass'.owned = pass.owned /\ pass'.kept = pass.kept
    <3>1. ASSUME NEW state, NEW to, Finish(state, to)
          PROVE  pass'.pc = pass.pc /\ pass'.owned = pass.owned /\ pass'.kept = pass.kept
      BY <3>1 DEF Finish, TypeInv, PassIsAPass
    <3>2. QED
      BY <1>1, <3>1 DEF RollStep, CannotRead, OpenRow, PullFails, Pull, ComposeUp, ComesUp, StaysDown,
         Lands, NotReplaced, BackTag, CannotTag, BackUp, RecordUndo
  <2>3. QED
    BY <2>1, <2>2, DecisionKept DEF Adopting
<1>2. CASE \/ Scan \/ Tick \/ UNCHANGED vars
           \/ \E c \in Containers : Publish(c) \/ ClearBlock(c) \/ \E i \in DOMAIN rows[c] : StartUndo(c, i)
  BY <1>2, DecisionKept DEF Scan, Tick, Publish, ClearBlock, StartUndo, vars, tables, history, Adopting
<1>3. CASE Lost
  BY <1>3, DecisionKept DEF Lost, NoPass, tables, Adopting
<1>4. ASSUME NEW c \in Containers, c \notin contested', UNCHANGED pass,
             contested' = IF Adopting THEN contested \union {c} ELSE contested
      PROVE  ~Adopting /\ pass'.pc # "claim"
  BY <1>4 DEF Adopting
<1>5. ASSUME NEW c \in Containers, StartRelease(c)
      PROVE  DecisionInv'
  <2>1. /\ request'.c = c /\ request.c = None /\ UNCHANGED <<optout, pass, decided>>
        /\ contested \subseteq contested'
        /\ remit'[c] = None /\ \A d \in Containers : d # c => remit'[d] = remit[d]
    BY <1>5 DEF StartRelease, NoRequest, Contest, TypeInv, TypeOK
  <2>2. QED
    BY <2>1, NoneIsNothing DEF DecisionInv, Settled, Adopting
<1>6. ASSUME NEW c \in Containers, NEW auto \in BOOLEAN, StartClaim(c, auto)
      PROVE  DecisionInv'
  <2>1. /\ request'.c = c /\ request'.op = "claim" /\ request.c = None
        /\ UNCHANGED <<remit, pass, decided>>
        /\ contested \subseteq contested' /\ optout' = optout \ {c}
    BY <1>6 DEF StartClaim, NoRequest, Contest
  <2>2. QED
    BY <2>1, NoneIsNothing DEF DecisionInv, Settled, Adopting
<1>7. CASE EndClaim
  <2> DEFINE c == request.c
             r == [auto |-> request.auto]
  <2>1. c \in Containers /\ r \in Remits
    BY <1>7 DEF EndClaim, TypeInv, RequestRecords, Remits
  <2> HIDE DEF r
  <2>2. /\ remit' = [remit EXCEPT ![c] = r] /\ decided' = [decided EXCEPT ![c] = r]
        /\ request'.op = "none" /\ request'.c = None /\ UNCHANGED <<optout, pass>> /\ Contest(c)
    BY <1>7 DEF EndClaim, NoRequest, r
  <2>3. \A d \in Containers : d # c => /\ remit'[d] = remit[d] /\ decided'[d] = decided[d]
                                       /\ Settled(d)' => Settled(d)
    BY <2>1, <2>2 DEF Contest, Settled, DecisionInv, TypeInv, TypeOK
  <2>4. remit'[c] = r /\ decided'[c] = r /\ decided' \in [Containers -> Remits \union {None, Released}]
    BY <2>1, <2>2 DEF DecisionInv, TypeInv, TypeOK
  <2>5. c \notin contested' => ~Adopting
    BY <2>2 DEF Contest
  <2>6. r # Released
    BY <2>1, ReleasedIsNoRemit
  <2> HIDE DEF c
  <2>7. QED
    BY <2>1, <2>2, <2>3, <2>4, <2>5, <2>6 DEF DecisionInv, Settled, Adopting
<1>8. CASE EndRelease
  <2> DEFINE c == request.c
  <2>1. c \in Containers
    BY <1>8 DEF EndRelease, TypeInv, RequestRecords
  <2>2. /\ decided' = [decided EXCEPT ![c] = Released] /\ optout' = optout \union {c}
        /\ request'.op = "none" /\ request'.c = None /\ UNCHANGED <<remit, pass>> /\ Contest(c)
    BY <1>8 DEF EndRelease, NoRequest
  <2>3. \A d \in Containers : d # c => /\ decided'[d] = decided[d]
                                       /\ Settled(d)' => Settled(d)
    BY <2>1, <2>2 DEF Contest, Settled, DecisionInv
  <2>4. decided'[c] = Released /\ decided' \in [Containers -> Remits \union {None, Released}]
    BY <2>1, <2>2 DEF DecisionInv
  <2>5. c \notin contested' => ~Adopting /\ remit[c] = None
    BY <1>8, <2>2 DEF Contest, EndRelease, DecisionInv
  <2>6. Released \notin Remits
    BY ReleasedIsNoRemit
  <2> HIDE DEF c
  <2>7. QED
    BY <2>1, <2>2, <2>3, <2>4, <2>5, <2>6 DEF DecisionInv, Settled, Adopting
<1>9. QED
  BY <1>1, <1>2, <1>3, <1>5, <1>6, <1>7, <1>8, DecisionPass DEF Next, RequestStep

(***************************************************************************)
(* "A control that undoes itself is worse than no control", for any        *)
(* containers, passes, requests and losses: what a person decided of a     *)
(* container stands until a person decides again.                          *)
(***************************************************************************)
THEOREM DecisionsStand == Spec => []DecisionsLast
<1>1. Init => DecisionInv
  <2> SUFFICES ASSUME Init PROVE DecisionInv
    OBVIOUS
  <2>1. decided = [c \in Containers |-> None] /\ request.op = "none"
    BY DEF Init, NoRequest
  <2>2. None \notin Remits /\ None # Released
    BY NoneIsNothing, ReleasedIsNoRemit
  <2>3. QED
    BY <2>1, <2>2 DEF DecisionInv
<1>2. DecisionInv => DecisionsLast
  BY ReleasedIsNoRemit DEF DecisionInv, DecisionsLast, Settled
<1>3. QED
  BY <1>1, <1>2, TypesAlways, DecisionStep, PTL DEF Spec

-----------------------------------------------------------------------------
(***************************************************************************)
(* The cooldown.  A pass works from the end of the newest roll that landed *)
(* and from the moment it began at: both are behind the clock, so what has *)
(* cooled down by them has cooled down when the roll lands.                *)
(***************************************************************************)
Landed(s)     == {i \in DOMAIN s : s[i].state = "rolled"}
Spaced(s)     == \A i, j \in Landed(s) : i < j => s[j].ended - s[i].ended >= Cooldown
EndedBy(s, t) == \A i \in Landed(s) : s[i].ended \in Nat /\ s[i].ended <= t

SpacingInv ==
    /\ pass.moment \in Nat /\ pass.moment <= now
    /\ pass.last \in [Containers -> Nat \union {None}]
    /\ \A c \in Containers : EndedBy(rows[c], now) /\ Spaced(rows[c])
    /\ pass.pc = "roll" =>
          \A c \in pass.todo : Landed(rows[c]) # {} => /\ pass.last[c] # None
                                                       /\ EndedBy(rows[c], pass.last[c])
    /\ roll.pc # "idle" /\ ~roll.undo => EndedBy(rows[roll.c], now - Cooldown)

\* What landed, and when, is all of it.
LEMMA SameLanded ==
    ASSUME NEW s, NEW t, DOMAIN t = DOMAIN s,
           \A i \in DOMAIN s : t[i].state = s[i].state /\ t[i].ended = s[i].ended
    PROVE  /\ Landed(t) = Landed(s) /\ (Spaced(t) <=> Spaced(s))
           /\ \A m : EndedBy(t, m) <=> EndedBy(s, m)
<1>1. Landed(t) = Landed(s) /\ \A i \in Landed(s) : i \in DOMAIN s
  BY DEF Landed
<1>2. \A m : EndedBy(t, m) <=> EndedBy(s, m)
  BY <1>1 DEF EndedBy
<1>3. Spaced(t) <=> Spaced(s)
  BY <1>1 DEF Spaced
<1>4. QED
  BY <1>1, <1>2, <1>3

\* A row that did not land.
LEMMA LandedAppend ==
    ASSUME NEW s \in Seq(Rows), NEW r \in Rows, r.state # "rolled"
    PROVE  LET t == Append(s, r) IN
           /\ Landed(t) = Landed(s) /\ (Spaced(t) <=> Spaced(s))
           /\ \A m : EndedBy(t, m) <=> EndedBy(s, m)
<1> DEFINE t == Append(s, r)
<1>1. DOMAIN t = 1..(Len(s) + 1) /\ DOMAIN s = 1..Len(s) /\ Len(s) \in Nat /\ t[Len(s) + 1] = r
      /\ \A i \in DOMAIN s : t[i] = s[i]
  OBVIOUS
<1> HIDE DEF t
<1>2. Landed(t) = Landed(s)
  BY <1>1 DEF Landed
<1>3. \A i \in Landed(s) : t[i] = s[i]
  BY <1>1 DEF Landed
<1>4. (Spaced(t) <=> Spaced(s)) /\ \A m : EndedBy(t, m) <=> EndedBy(s, m)
  BY <1>2, <1>3 DEF Spaced, EndedBy
<1>5. QED
  BY <1>2, <1>4 DEF t

\* The last row is closed, a cooldown after everything that had landed.
LEMMA LandedClose ==
    ASSUME NEW s \in Seq(Rows), s # <<>>, LastOf(s).state # "rolled", NEW r \in Rows,
           NEW m \in Nat, r.ended = m, EndedBy(s, m - Cooldown), Spaced(s)
    PROVE  LET t == [s EXCEPT ![Len(s)] = r] IN EndedBy(t, m) /\ Spaced(t)
<1> DEFINE t == [s EXCEPT ![Len(s)] = r]
<1>1. /\ DOMAIN t = DOMAIN s /\ DOMAIN s = 1..Len(s) /\ Len(s) \in Nat \ {0} /\ t[Len(s)] = r
      /\ \A i \in DOMAIN s : i # Len(s) => t[i] = s[i]
  BY ClosedRow
<1> HIDE DEF t
<1>2. Landed(t) \subseteq Landed(s) \union {Len(s)} /\ Len(s) \notin Landed(s)
  BY <1>1 DEF Landed, LastOf
<1>3. \A i \in Landed(s) : i \in 1..Len(s) /\ i # Len(s) /\ t[i] = s[i]
  BY <1>1, <1>2 DEF Landed
<1>4. \A i \in Landed(s) : t[i].ended \in Nat /\ m - t[i].ended >= Cooldown
  BY <1>3, RailsAreNumbers DEF EndedBy
<1>5. EndedBy(t, m)
  BY <1>1, <1>2, <1>4, RailsAreNumbers DEF EndedBy
<1>6. ASSUME NEW i \in Landed(t), NEW j \in Landed(t), i < j
      PROVE  t[j].ended - t[i].ended >= Cooldown
  <2>1. i \in Landed(s)
    BY <1>1, <1>2, <1>3, <1>6
  <2>2. CASE j = Len(s)
    BY <1>1, <1>4, <2>1, <2>2
  <2>3. CASE j \in Landed(s)
    BY <1>3, <1>6, <2>1, <2>3 DEF Spaced
  <2>4. QED
    BY <1>2, <2>2, <2>3
<1>7. QED
  BY <1>5, <1>6 DEF Spaced, t

LEMMA LowestExists ==
    ASSUME NEW S, S \subseteq Nat, S # {}
    PROVE  \E x \in S : \A y \in S : x <= y
<1> DEFINE less == OpToRel(<, Nat)
<1>1. IsWellFoundedOn(less, Nat)
  BY NatLessThanWellFounded
<1>2. \A x, y \in Nat : y < x => <<y, x>> \in less
  BY Zenon DEF OpToRel
<1> HIDE DEF less
<1>3. PICK x \in S : \A y \in S : ~ (<<y, x>> \in less)
  BY <1>1, WFMin
<1>4. ASSUME NEW y \in S
      PROVE  x <= y
  <2>1. x \in Nat /\ y \in Nat
    OBVIOUS
  <2>2. ~(y < x)
    BY <1>2, <1>3, <2>1, Zenon
  <2>3. QED
    BY <2>1, <2>2
<1>5. QED
  BY <1>4

LEMMA HighestExists ==
    ASSUME NEW n \in Nat, NEW S, S \subseteq 0..n, S # {}
    PROVE  \E x \in S : \A y \in S : y <= x
<1> DEFINE below == {i \in 0..n : n - i \in S}
<1>1. below \subseteq Nat /\ below # {}
  <2>1. PICK y \in S : TRUE
    OBVIOUS
  <2>2. n - y \in 0..n /\ n - (n - y) = y
    OBVIOUS
  <2>3. n - y \in below
    BY <2>2
  <2>4. below # {}
    BY <2>3
  <2>5. QED
    BY <2>4
<1> HIDE DEF below
<1>2. PICK i \in below : \A j \in below : i <= j
  BY <1>1, LowestExists
<1>3. i \in 0..n /\ n - i \in S
  BY DEF below
<1>4. ASSUME NEW y \in S
      PROVE  y <= n - i
  <2>1. n - y \in below
    BY DEF below
  <2>2. i <= n - y
    BY <1>2, <2>1
  <2>3. QED
    BY <1>3, <2>2
<1>5. QED
  BY <1>3, <1>4

\* rollout_history gives the end of the last of them, which is the newest.
LEMMA LastRolledIsNewest ==
    ASSUME NEW c \in Containers, rows[c] \in Seq(Rows), NEW m \in Nat,
           EndedBy(rows[c], m), Spaced(rows[c])
    PROVE  /\ LastRolledAt(c) \in Nat \union {None}
           /\ Landed(rows[c]) # {} => /\ LastRolledAt(c) # None
                                      /\ EndedBy(rows[c], LastRolledAt(c))
<1> DEFINE s == rows[c]
           newest == CHOOSE i \in Landed(s) : \A j \in Landed(s) : j <= i
<1>1. LastRolledAt(c) = IF Landed(s) = {} THEN None ELSE s[newest].ended
  BY DEF LastRolledAt, Landed
<1>2. CASE Landed(s) = {}
  BY <1>1, <1>2
<1>3. CASE Landed(s) # {}
  <2>1. Landed(s) \subseteq 1..Len(s) /\ Len(s) \in Nat
    BY DEF Landed
  <2>2. \E i \in Landed(s) : \A j \in Landed(s) : j <= i
    <3>1. Landed(s) \subseteq 0..Len(s)
      BY <2>1
    <3>2. QED
      BY <1>3, <2>1, <3>1, HighestExists
  <2>3. newest \in Landed(s) /\ \A j \in Landed(s) : j <= newest
    BY <2>2
  <2> HIDE DEF newest
  <2>4. \A i \in Landed(s) : s[i].ended \in Nat
    BY DEF EndedBy
  <2>5. ASSUME NEW i \in Landed(s)
        PROVE  s[i].ended <= s[newest].ended
    <3>1. CASE i = newest
      BY <2>3, <2>4, <3>1
    <3>2. CASE i # newest
      <4>1. i < newest
        BY <2>1, <2>3, <3>2
      <4>2. QED
        BY <2>3, <2>4, <4>1, RailsAreNumbers DEF Spaced
    <3>3. QED
      BY <3>1, <3>2
  <2>6. s[newest].ended \in Nat /\ None \notin Nat
    BY <2>3, <2>4, NoneIsNothing
  <2>7. QED
    BY <1>1, <1>3, <2>4, <2>5, <2>6 DEF EndedBy
<1>4. QED
  BY <1>2, <1>3

\* A step that lands nothing, adds nothing to the pass and begins no roll.
LEMMA SpacingKept ==
    ASSUME SpacingInv, UNCHANGED rows, now \in Nat, now' \in Nat, now <= now',
           pass'.moment \in Nat, pass'.moment <= now',
           pass'.last \in [Containers -> Nat \union {None}],
           pass'.pc = "roll" => /\ pass.pc = "roll" /\ pass'.todo \subseteq pass.todo
                                /\ pass'.last = pass.last,
           roll'.pc # "idle" /\ ~roll'.undo => roll.pc # "idle" /\ ~roll.undo /\ roll'.c = roll.c
    PROVE  SpacingInv'
<1>1. \A s : /\ EndedBy(s, now) => EndedBy(s, now')
             /\ EndedBy(s, now - Cooldown) => EndedBy(s, now' - Cooldown)
  BY RailsAreNumbers DEF EndedBy
<1>2. QED
  BY <1>1 DEF SpacingInv

LEMMA SpacingPass == TypeInv /\ SpacingInv /\ PassStep => SpacingInv'
<1> SUFFICES ASSUME TypeInv, SpacingInv, PassStep PROVE SpacingInv'
  OBVIOUS
<1>1. /\ PassIsAPass /\ UNCHANGED <<rows, now>> /\ now \in Nat
      /\ pass.moment \in Nat /\ pass.moment <= now
      /\ pass.last \in [Containers -> Nat \union {None}]
  <2>1. PassIsAPass /\ now \in Nat
    BY BoundsAreNumbers DEF TypeInv, TypeOK
  <2>2. UNCHANGED <<rows, now>>
    BY DEF PassStep, StartPass, ReadOwned, ReadKept, AdoptOne, EndAdoption, ReadTargets,
       ReadHistory, RollOne, LeaveAlone, EndPass
  <2>3. QED
    BY <2>1, <2>2 DEF SpacingInv
<1>2. CASE StartPass \/ EndPass
  <2>1. /\ pass'.moment \in {0, now} /\ pass'.pc # "roll"
        /\ pass'.last = [c \in Containers |-> None]
    <3>1. CASE StartPass
      BY <3>1 DEF StartPass, NoPass
    <3>2. CASE EndPass
      BY <3>2 DEF EndPass, NoPass
    <3>3. QED
      BY <1>2, <3>1, <3>2
  <2>2. UNCHANGED roll
    BY <1>2 DEF StartPass, EndPass
  <2>3. QED
    BY <1>1, <2>1, <2>2, SpacingKept
<1>3. CASE ReadOwned \/ ReadKept \/ EndAdoption \/ ReadTargets \/ \E c \in Containers : AdoptOne(c)
  <2>1. pass'.pc # "roll" /\ pass'.moment = pass.moment /\ pass'.last = pass.last /\ UNCHANGED roll
    BY <1>1, <1>3 DEF ReadOwned, ReadKept, EndAdoption, ReadTargets, AdoptOne, InPass, PassIsAPass
  <2>2. QED
    BY <1>1, <2>1, SpacingKept
<1>4. CASE ReadHistory
  <2>1. /\ pass'.todo = pass.todo /\ pass'.last = [c \in Containers |-> LastRolledAt(c)]
        /\ pass'.moment = pass.moment /\ UNCHANGED roll
    BY <1>1, <1>4 DEF ReadHistory, PassIsAPass
  <2>2. ASSUME NEW c \in Containers
        PROVE  /\ LastRolledAt(c) \in Nat \union {None}
               /\ Landed(rows[c]) # {} => /\ LastRolledAt(c) # None
                                          /\ EndedBy(rows[c], LastRolledAt(c))
    <3>1. rows[c] \in Seq(Rows) /\ EndedBy(rows[c], now) /\ Spaced(rows[c])
      BY DEF TypeInv, TypeOK, SpacingInv
    <3>2. QED
      BY <1>1, <3>1, LastRolledIsNewest
  <2>3. pass.todo \subseteq Containers
    BY <1>1 DEF PassIsAPass
  <2>4. QED
    BY <1>1, <2>1, <2>2, <2>3 DEF SpacingInv
<1>5. ASSUME NEW c \in Containers, LeaveAlone(c)
      PROVE  SpacingInv'
  <2>1. /\ pass.pc = "roll" /\ pass'.todo \subseteq pass.todo /\ pass'.last = pass.last
        /\ pass'.moment = pass.moment /\ UNCHANGED roll
    BY <1>1, <1>5 DEF LeaveAlone, InPass, PassIsAPass
  <2>2. QED
    BY <1>1, <2>1, SpacingKept
<1>6. ASSUME NEW c \in Containers, RollOne(c)
      PROVE  SpacingInv'
  <2>1. /\ pass.pc = "roll" /\ pass'.todo \subseteq pass.todo /\ pass'.last = pass.last
        /\ pass'.moment = pass.moment /\ c \in pass.todo /\ ~CoolingDown(c) /\ roll'.c = c
    BY <1>1, <1>6 DEF RollOne, MayRoll, InPass, PassIsAPass, NoRoll
  <2>2. pass.last[c] \in Nat \union {None}
    BY <1>1
  <2>3. EndedBy(rows[c], now - Cooldown)
    <3>1. CASE Landed(rows[c]) = {}
      BY <3>1 DEF EndedBy
    <3>2. CASE Landed(rows[c]) # {}
      <4>1. pass.last[c] # None /\ EndedBy(rows[c], pass.last[c])
        BY <2>1, <3>2 DEF SpacingInv
      <4>2. pass.last[c] \in Nat /\ pass.moment - pass.last[c] >= Cooldown
        BY <1>1, <2>1, <2>2, <4>1, RailsAreNumbers DEF CoolingDown
      <4>3. QED
        BY <1>1, <4>1, <4>2, RailsAreNumbers DEF EndedBy
    <3>3. QED
      BY <3>1, <3>2
  <2>4. QED
    BY <1>1, <2>1, <2>3 DEF SpacingInv
<1>7. QED
  BY <1>2, <1>3, <1>4, <1>5, <1>6 DEF PassStep

\* However a roll ends, what had landed of its container ended a cooldown ago.
LEMMA SpacingFinish ==
    ASSUME TypeInv, SpacingInv, HasOpenRow, NEW state \in RowStates,
           NEW to \in Images \union {None}, Finish(state, to), UNCHANGED now
    PROVE  SpacingInv'
<1>1. /\ \A c \in Containers : c # roll.c => rows'[c] = rows[c]
      /\ roll.c \in Containers /\ pass'.pc = pass.pc /\ pass'.todo = pass.todo
      /\ roll' = NoRoll
  BY Finishes
<1>2. pass'.moment = pass.moment /\ pass'.last = pass.last
  BY DEF Finish, TypeInv, PassIsAPass
<1> DEFINE s == rows[roll.c]
           r == [Now EXCEPT !.state = state, !.to = to, !.ended = now]
           t == [s EXCEPT ![Len(s)] = r]
<1>3. /\ rows \in [Containers -> Seq(Rows)] /\ s \in Seq(Rows) /\ s # <<>>
      /\ LastOf(s).state = "rolling" /\ now \in Nat /\ now \in Times
      /\ EndedBy(s, now - Cooldown) /\ Spaced(s)
      /\ pass.pc = "roll" => roll.c \notin pass.todo
  BY <1>1, BoundsAreNumbers DEF TypeInv, TypeOK, RowInOrder, RollInOrder, HasOpenRow, Working,
     SpacingInv, Times, Now
<1>4. Now \in Rows
  BY <1>3, LastIsARow DEF Now
<1>5. r \in Rows /\ r.ended = now
  BY <1>3, <1>4 DEF Rows
<1>6. rows' = [rows EXCEPT ![roll.c] = t]
  BY DEF Finish
<1> HIDE DEF r
<1>7. EndedBy(t, now) /\ Spaced(t)
  BY <1>3, <1>5, LandedClose
<1>8. rows'[roll.c] = t
  BY <1>1, <1>3, <1>6
<1>9. \A c \in Containers : EndedBy(rows'[c], now) /\ Spaced(rows'[c])
  BY <1>1, <1>7, <1>8 DEF SpacingInv
<1>10. pass.pc = "roll" => \A c \in pass.todo : rows'[c] = rows[c]
  BY <1>1, <1>3 DEF TypeInv, PassIsAPass
<1>11. QED
  BY <1>1, <1>2, <1>9, <1>10, NoRollIsARoll DEF SpacingInv

LEMMA SpacingRoll == TypeInv /\ SpacingInv /\ RollStep => SpacingInv'
<1> SUFFICES ASSUME TypeInv, SpacingInv, RollStep PROVE SpacingInv'
  OBVIOUS
<1>1. /\ roll \in RollRecords /\ RollInOrder /\ roll.to \in Images \union {None}
      /\ latest \in [Containers -> Images] /\ rows \in [Containers -> Seq(Rows)]
      /\ image \in [Containers -> Images] /\ now \in Nat /\ now \in Times
      /\ (roll.pc # "idle" => roll.c \in Containers)
      /\ pass.moment \in Nat /\ pass.moment <= now
      /\ pass.last \in [Containers -> Nat \union {None}]
  BY BoundsAreNumbers DEF TypeInv, TypeOK, RollRecords, RollInOrder, SpacingInv, Times
<1>2. UNCHANGED now
  BY DEF RollStep, CannotRead, OpenRow, PullFails, Pull, ComposeUp, ComesUp, StaysDown, Lands,
     NotReplaced, BackTag, CannotTag, BackUp, RecordUndo
<1>3. ASSUME NEW pc, roll' = [roll EXCEPT !.pc = pc], roll.pc # "idle", UNCHANGED <<rows, pass>>
      PROVE  SpacingInv'
  <2>1. roll'.c = roll.c /\ roll'.undo = roll.undo
    BY <1>1, <1>3 DEF RollRecords
  <2>2. QED
    BY <1>1, <1>2, <1>3, <2>1, SpacingKept
<1>4. ASSUME NEW state, NEW to \in Images \union {None}, Finish(state, to), ~roll.undo,
             roll.pc \notin {"idle", "image"}, state \in RowStates
      PROVE  SpacingInv'
  BY <1>2, <1>4, SpacingFinish DEF HasOpenRow, Working
\* A row that is opened, or that records an undo, has not landed.
<1>5. ASSUME NEW r \in Rows, r.state # "rolled", roll.pc # "idle", UNCHANGED pass,
             rows' = [rows EXCEPT ![roll.c] = Append(@, r)],
             roll'.pc # "idle" /\ ~roll'.undo => ~roll.undo /\ roll'.c = roll.c
      PROVE  SpacingInv'
  <2>1. rows[roll.c] \in Seq(Rows) /\ roll.c \in Containers
    BY <1>1, <1>5
  <2>2. rows'[roll.c] = Append(rows[roll.c], r) /\ \A c \in Containers : c # roll.c => rows'[c] = rows[c]
    BY <1>1, <1>5, <2>1
  <2>3. \A c \in Containers : /\ Landed(rows'[c]) = Landed(rows[c])
                              /\ Spaced(rows'[c]) <=> Spaced(rows[c])
                              /\ \A m : EndedBy(rows'[c], m) <=> EndedBy(rows[c], m)
    BY <1>5, <2>1, <2>2, LandedAppend
  <2>4. pass.todo \subseteq Containers
    BY DEF TypeInv, PassIsAPass
  <2>5. QED
    BY <1>1, <1>2, <1>5, <2>1, <2>3, <2>4 DEF SpacingInv
<1>6. CASE CannotRead
  BY <1>1, <1>6, NoRollIsARoll, SpacingKept DEF CannotRead
<1>7. CASE OpenRow
  <2> DEFINE r == [state |-> "rolling", cleared |-> FALSE, from |-> image[roll.c],
                   to |-> None, began |-> now, ended |-> None, undo |-> FALSE]
  <2>1. /\ rows' = [rows EXCEPT ![roll.c] = Append(@, r)] /\ UNCHANGED pass /\ roll.pc # "idle"
        /\ roll' = [roll EXCEPT !.pc = "pull", !.from = image[roll.c]]
    BY <1>7 DEF OpenRow, InRoll
  <2>2. roll'.c = roll.c /\ roll'.undo = roll.undo
    BY <1>1, <2>1 DEF RollRecords
  <2>3. r \in Rows /\ r.state # "rolled"
    BY <1>1, <2>1 DEF Rows, RowStates, BadStates, Times
  <2> HIDE DEF r
  <2>4. QED
    BY <1>5, <2>1, <2>2, <2>3
<1>8. CASE PullFails \/ Lands \/ NotReplaced
  BY <1>1, <1>4, <1>8 DEF PullFails, Lands, NotReplaced, InRoll, RollInOrder, OwnPcs, RowStates
<1>9. CASE Pull
  <2>1. CASE Finish("untouched", latest[roll.c])
    BY <1>1, <1>4, <1>9, <2>1 DEF Pull, InRoll, RollInOrder, OwnPcs, RowStates
  <2>2. CASE roll' = [roll EXCEPT !.pc = "up", !.to = latest[roll.c]] /\ UNCHANGED <<rows, pass, owed>>
    <3>1. roll'.c = roll.c /\ roll'.undo = roll.undo /\ roll.pc # "idle"
      BY <1>1, <1>9, <2>2 DEF Pull, InRoll, RollRecords
    <3>2. QED
      BY <1>1, <1>2, <2>2, <3>1, SpacingKept
  <2>3. QED
    BY <1>9, <2>1, <2>2 DEF Pull
<1>10. CASE ComposeUp \/ ComesUp \/ StaysDown \/ BackTag
  BY <1>3, <1>10 DEF ComposeUp, ComesUp, StaysDown, BackTag, InRoll
<1>11. CASE CannotTag
  <2>1. CASE roll.undo
    BY <1>3, <1>11, <2>1 DEF CannotTag, InRoll
  <2>2. CASE ~roll.undo
    BY <1>1, <1>4, <1>11, <2>2 DEF CannotTag, InRoll, RowStates, BadStates
  <2>3. QED
    BY <2>1, <2>2
<1>12. CASE BackUp
  <2>1. CASE roll.undo
    BY <1>3, <1>12, <2>1 DEF BackUp, InRoll
  <2>2. CASE ~roll.undo
    BY <1>1, <1>4, <1>12, <2>2 DEF BackUp, InRoll, RowStates, BadStates
  <2>3. QED
    BY <2>1, <2>2
<1>13. CASE RecordUndo
  <2>1. PICK state \in {"rolled-back", "failed"} :
          rows' = [rows EXCEPT ![roll.c] =
                      Append(@, [state |-> state, cleared |-> FALSE, from |-> roll.to,
                                 to |-> roll.from, began |-> now, ended |-> now, undo |-> TRUE])]
    BY <1>13 DEF RecordUndo
  <2> DEFINE r == [state |-> state, cleared |-> FALSE, from |-> roll.to,
                   to |-> roll.from, began |-> now, ended |-> now, undo |-> TRUE]
  <2>2. roll.pc # "idle" /\ roll' = NoRoll /\ UNCHANGED pass /\ roll.to \in Images /\ roll.from \in Images
    BY <1>1, <1>13 DEF RecordUndo, InRoll, RollInOrder, RollRecords
  <2>3. r \in Rows /\ r.state # "rolled"
    BY <1>1, <2>2 DEF Rows, RowStates, BadStates
  <2>4. rows' = [rows EXCEPT ![roll.c] = Append(@, r)]
    BY <2>1
  <2> HIDE DEF r
  <2>5. QED
    BY <1>5, <2>2, <2>3, <2>4, NoRollIsARoll
<1>14. QED
  BY <1>6, <1>7, <1>8, <1>9, <1>10, <1>11, <1>12, <1>13 DEF RollStep

LEMMA SpacingStep == TypeInv /\ SpacingInv /\ [Next]_vars => SpacingInv'
<1> SUFFICES ASSUME TypeInv, SpacingInv, [Next]_vars PROVE SpacingInv'
  OBVIOUS
<1>1. /\ now \in Nat /\ pass.moment \in Nat /\ pass.moment <= now
      /\ pass.last \in [Containers -> Nat \union {None}]
  BY BoundsAreNumbers DEF TypeInv, TypeOK, SpacingInv
<1>2. ASSUME NEW c \in Containers, ClearBlock(c)
      PROVE  SpacingInv'
  <2>1. rows' = [rows EXCEPT ![c] = Cleared(rows[c])] /\ UNCHANGED <<pass, roll, now>>
    BY <1>2 DEF ClearBlock, Cleared
  <2>2. rows \in [Containers -> Seq(Rows)] /\ rows[c] \in Seq(Rows)
    BY DEF TypeInv, TypeOK
  <2>3. DOMAIN Cleared(rows[c]) = DOMAIN rows[c]
        /\ \A i \in DOMAIN rows[c] : /\ Cleared(rows[c])[i].state = rows[c][i].state
                                     /\ Cleared(rows[c])[i].ended = rows[c][i].ended
    <3>1. \A i \in DOMAIN rows[c] : rows[c][i] \in Rows
      BY <2>2
    <3>2. QED
      BY <3>1 DEF Cleared, Rows
  <2>4. \A d \in Containers : IF d = c THEN rows'[d] = Cleared(rows[d]) ELSE rows'[d] = rows[d]
    BY <2>1, <2>2
  <2>5. /\ Landed(Cleared(rows[c])) = Landed(rows[c])
        /\ Spaced(Cleared(rows[c])) <=> Spaced(rows[c])
        /\ \A m : EndedBy(Cleared(rows[c]), m) <=> EndedBy(rows[c], m)
    BY <2>3, SameLanded
  <2>6. \A d \in Containers : /\ Landed(rows'[d]) = Landed(rows[d])
                              /\ Spaced(rows'[d]) <=> Spaced(rows[d])
                              /\ \A m : EndedBy(rows'[d], m) <=> EndedBy(rows[d], m)
    BY <2>4, <2>5
  <2>7. pass.todo \subseteq Containers /\ (roll.pc # "idle" => roll.c \in Containers)
    BY DEF TypeInv, TypeOK, PassIsAPass
  <2>8. QED
    BY <2>1, <2>6, <2>7 DEF SpacingInv
<1>3. CASE Tick
  BY <1>1, <1>3, SpacingKept DEF Tick
<1>4. CASE Lost
  <2>1. /\ pass'.moment = 0 /\ pass'.last = [c \in Containers |-> None] /\ pass'.pc = "idle"
        /\ roll' = NoRoll /\ UNCHANGED <<rows, now>>
    BY <1>4 DEF Lost, NoPass
  <2>2. QED
    BY <1>1, <2>1, NoRollIsARoll, SpacingKept
<1>5. CASE Scan \/ UNCHANGED vars \/ \E c \in Containers : Publish(c)
  BY <1>1, <1>5, SpacingKept DEF Scan, Publish, vars
<1>6. CASE \/ EndClaim \/ EndRelease \/ \E c \in Containers : StartRelease(c)
           \/ \E c \in Containers, auto \in BOOLEAN : StartClaim(c, auto)
  BY <1>1, <1>6, SpacingKept DEF EndClaim, EndRelease, StartRelease, StartClaim
<1>7. ASSUME NEW c \in Containers, NEW i \in DOMAIN rows[c], StartUndo(c, i)
      PROVE  SpacingInv'
  BY <1>1, <1>7, SpacingKept DEF StartUndo
<1>8. QED
  BY <1>2, <1>3, <1>4, <1>5, <1>6, <1>7, SpacingPass, SpacingRoll DEF Next, RequestStep

-----------------------------------------------------------------------------
(***************************************************************************)
(* The limit of a host.  A pass counts a container of the host before it   *)
(* rolls it, so the count covers what it brought up and what it is at.     *)
(***************************************************************************)
Begun        == restarted \union (IF roll.pc # "idle" /\ ~roll.undo THEN {roll.c} ELSE {})
OfHost(S, h) == {c \in S : HostOf[c] = h}

HostsInv ==
    /\ pass.perHost \in [Hosts -> Nat]
    /\ restarted \subseteq Containers /\ IsFiniteSet(restarted)
    /\ \A h \in Hosts :
        /\ Cardinality(OfHost(restarted, h)) <= MaxPerHost
        /\ pass.perHost[h] <= MaxPerHost
        /\ pass.pc = "roll" => Cardinality(OfHost(Begun, h)) <= pass.perHost[h]
    /\ pass.pc \notin {"idle", "roll"} => restarted = {}

\* One more container of a set is at most one more of a host, and none of another.
LEMMA OneMore ==
    ASSUME NEW S, IsFiniteSet(S), NEW c, NEW h
    PROVE  /\ IsFiniteSet(OfHost(S, h)) /\ IsFiniteSet(OfHost(S \union {c}, h))
           /\ Cardinality(OfHost(S, h)) \in Nat
           /\ Cardinality(OfHost(S \union {c}, h)) <= Cardinality(OfHost(S, h)) + 1
           /\ HostOf[c] # h => OfHost(S \union {c}, h) = OfHost(S, h)
           /\ Cardinality(OfHost(S, h)) <= Cardinality(OfHost(S \union {c}, h))
<1>1. IsFiniteSet(OfHost(S, h)) /\ Cardinality(OfHost(S, h)) \in Nat
  BY FS_Subset, FS_CardinalityType DEF OfHost
<1>2. OfHost(S \union {c}, h) = IF HostOf[c] = h THEN OfHost(S, h) \union {c} ELSE OfHost(S, h)
  BY DEF OfHost
<1>3. /\ IsFiniteSet(OfHost(S, h) \union {c})
      /\ Cardinality(OfHost(S, h) \union {c}) = Cardinality(OfHost(S, h))
         \/ Cardinality(OfHost(S, h) \union {c}) = Cardinality(OfHost(S, h)) + 1
  BY <1>1, FS_AddElement
<1>4. QED
  BY <1>1, <1>2, <1>3

\* A step that brings nothing up, begins no roll and does not count.
LEMMA HostsKept ==
    ASSUME HostsInv, UNCHANGED restarted, pass'.perHost = pass.perHost,
           pass'.pc = "roll" => pass.pc = "roll",
           roll'.pc # "idle" /\ ~roll'.undo => roll.pc # "idle" /\ ~roll.undo /\ roll'.c = roll.c,
           pass.pc \in {"idle", "roll"} => pass'.pc \in {"idle", "roll"}
    PROVE  HostsInv'
<1>1. ASSUME NEW h \in Hosts, pass.pc = "roll"
      PROVE  Cardinality(OfHost(Begun', h)) <= pass.perHost[h]
  <2>1. CASE Begun' = Begun
    BY <1>1, <2>1 DEF HostsInv
  <2>2. CASE Begun' = restarted /\ Begun = restarted \union {roll.c}
    <3>1. Cardinality(OfHost(restarted, h)) <= Cardinality(OfHost(Begun, h))
          /\ Cardinality(OfHost(restarted, h)) \in Nat
      BY <2>2, OneMore DEF HostsInv
    <3>2. Cardinality(OfHost(Begun, h)) \in Nat
      BY <2>2, OneMore, FS_CardinalityType DEF HostsInv
    <3>3. Cardinality(OfHost(Begun, h)) <= pass.perHost[h] /\ pass.perHost[h] \in Nat
      BY <1>1 DEF HostsInv
    <3>4. QED
      BY <2>2, <3>1, <3>2, <3>3
  <2>3. QED
    BY <2>1, <2>2 DEF Begun
<1>2. \A h \in Hosts : OfHost(Begun, h)' = OfHost(Begun', h)
  BY DEF OfHost
<1>3. QED
  BY <1>1, <1>2 DEF HostsInv, OfHost

\* A pass that is over, or a new one, with nothing counted.
LEMMA HostsCleared ==
    ASSUME HostsInv, restarted' \in {restarted, {}}, pass'.perHost = [h \in Hosts |-> 0],
           pass'.pc # "roll", pass'.pc # "idle" => restarted' = {}
    PROVE  HostsInv'
<1>1. \A h \in Hosts : OfHost({}, h) = {}
  BY DEF OfHost
<1>2. Cardinality({}) = 0 /\ IsFiniteSet({})
  BY FS_EmptySet
<1>3. \A h \in Hosts : Cardinality(OfHost(restarted', h)) <= MaxPerHost
  BY <1>1, <1>2, RailsAreNumbers DEF HostsInv
<1>4. QED
  BY <1>2, <1>3, RailsAreNumbers DEF HostsInv, OfHost

LEMMA HostsPass == TypeInv /\ HostsInv /\ PassStep => HostsInv'
<1> SUFFICES ASSUME TypeInv, HostsInv, PassStep PROVE HostsInv'
  OBVIOUS
<1>1. PassIsAPass
  BY DEF TypeInv
<1>2. CASE StartPass
  <2>1. /\ pass'.perHost = [h \in Hosts |-> 0] /\ pass'.pc \in {"adopt", "targets"}
        /\ restarted' = {}
    BY <1>2 DEF StartPass, NoPass
  <2>2. QED
    BY <2>1, HostsCleared
<1>3. CASE EndPass
  <2>1. /\ pass'.perHost = [h \in Hosts |-> 0] /\ pass'.pc = "idle" /\ restarted' = restarted
    BY <1>3 DEF EndPass, NoPass, history
  <2>2. QED
    BY <2>1, HostsCleared
<1>4. CASE ReadOwned \/ ReadKept \/ EndAdoption \/ ReadTargets \/ \E c \in Containers : AdoptOne(c)
  <2>1. /\ pass.pc \notin {"idle", "roll"} /\ pass'.pc \notin {"idle", "roll"}
        /\ pass'.perHost = pass.perHost /\ UNCHANGED <<roll, restarted>>
    BY <1>1, <1>4 DEF ReadOwned, ReadKept, EndAdoption, ReadTargets, AdoptOne, InPass, PassIsAPass,
       history
  <2>2. QED
    BY <2>1, HostsKept
<1>5. CASE ReadHistory
  <2>1. /\ pass.pc = "history" /\ roll.pc = "idle" /\ UNCHANGED <<roll, restarted>>
        /\ pass'.perHost = pass.perHost /\ pass'.pc = "roll"
    BY <1>1, <1>5 DEF ReadHistory, InPass, PassIsAPass, history
  <2>2. Begun' = {} /\ restarted = {} /\ Cardinality({}) = 0
    BY <2>1, FS_EmptySet DEF Begun, HostsInv
  <2>3. \A h \in Hosts : OfHost({}, h) = {}
    BY DEF OfHost
  <2>4. \A h \in Hosts : OfHost(Begun, h)' = {} /\ OfHost(restarted, h)' = {}
    BY <2>1, <2>2, <2>3 DEF OfHost
  <2>5. QED
    BY <2>1, <2>2, <2>4 DEF HostsInv
<1>6. ASSUME NEW c \in Containers, LeaveAlone(c)
      PROVE  HostsInv'
  <2>1. /\ pass.pc = "roll" /\ pass'.pc = "roll" /\ pass'.perHost = pass.perHost
        /\ UNCHANGED <<roll, restarted>>
    BY <1>1, <1>6 DEF LeaveAlone, InPass, PassIsAPass, history
  <2>2. QED
    BY <2>1, HostsKept
<1>7. ASSUME NEW c \in Containers, RollOne(c)
      PROVE  HostsInv'
  <2>1. /\ pass.pc = "roll" /\ pass'.pc = "roll" /\ roll.pc = "idle" /\ UNCHANGED restarted
        /\ pass'.perHost = [pass.perHost EXCEPT ![HostOf[c]] = @ + 1]
        /\ pass.perHost[HostOf[c]] < MaxPerHost
        /\ roll'.c = c /\ roll'.pc = "image" /\ ~roll'.undo
    BY <1>1, <1>7 DEF RollOne, MayRoll, InPass, PassIsAPass, history, NoRoll
  <2>2. Begun = restarted /\ Begun' = restarted \union {c}
    BY <2>1 DEF Begun
  <2>3. HostOf[c] \in Hosts
    BY HostOfIsTotal
  <2>4. ASSUME NEW h \in Hosts
        PROVE  /\ pass'.perHost[h] \in Nat /\ pass'.perHost[h] <= MaxPerHost
               /\ Cardinality(OfHost(Begun', h)) <= pass'.perHost[h]
    <3>1. /\ Cardinality(OfHost(Begun, h)) <= pass.perHost[h] /\ pass.perHost[h] \in Nat
          /\ pass.perHost[h] <= MaxPerHost /\ IsFiniteSet(restarted)
      BY <2>1 DEF HostsInv
    <3>2. /\ Cardinality(OfHost(Begun, h)) \in Nat
          /\ Cardinality(OfHost(Begun', h)) <= Cardinality(OfHost(Begun, h)) + 1
          /\ HostOf[c] # h => OfHost(Begun', h) = OfHost(Begun, h)
      BY <2>2, <3>1, OneMore
    <3>3. Cardinality(OfHost(Begun', h)) \in Nat
      BY <2>2, <3>1, OneMore, FS_CardinalityType
    <3>4. pass'.perHost[h] = IF h = HostOf[c] THEN pass.perHost[h] + 1 ELSE pass.perHost[h]
      BY <2>1 DEF HostsInv
    <3>5. QED
      BY <2>1, <3>1, <3>2, <3>3, <3>4, RailsAreNumbers
  <2>5. pass'.perHost \in [Hosts -> Nat]
    BY <2>1, <2>3 DEF HostsInv
  <2>6. \A h \in Hosts : OfHost(Begun, h)' = OfHost(Begun', h) /\ OfHost(restarted, h)' = OfHost(restarted, h)
    BY <2>1 DEF OfHost
  <2>7. QED
    BY <2>1, <2>4, <2>5, <2>6 DEF HostsInv
<1>8. QED
  BY <1>2, <1>3, <1>4, <1>5, <1>6, <1>7 DEF PassStep

LEMMA HostsRoll == TypeInv /\ HostsInv /\ RollStep => HostsInv'
<1> SUFFICES ASSUME TypeInv, HostsInv, RollStep PROVE HostsInv'
  OBVIOUS
<1>1. PassIsAPass /\ roll \in RollRecords /\ RollInOrder
  BY DEF TypeInv
<1>2. CASE ComposeUp
  <2>1. /\ roll.pc = "up" /\ ~roll.undo /\ pass.pc = "roll" /\ roll.c \in Containers
    BY <1>1, <1>2 DEF ComposeUp, InRoll, RollInOrder, OwnPcs, RollRecords
  <2>2. /\ restarted' = restarted \union {roll.c} /\ UNCHANGED pass
        /\ roll'.pc # "idle" /\ roll'.c = roll.c /\ roll'.undo = roll.undo
    BY <1>1, <1>2 DEF ComposeUp, RollRecords
  <2>3. Begun = restarted \union {roll.c} /\ Begun' = Begun
    BY <2>1, <2>2 DEF Begun
  <2>4. IsFiniteSet(restarted')
    BY <2>2, FS_AddElement DEF HostsInv
  <2>5. ASSUME NEW h \in Hosts
        PROVE  Cardinality(OfHost(restarted', h)) <= MaxPerHost
    <3>1. /\ Cardinality(OfHost(restarted', h)) <= pass.perHost[h]
          /\ pass.perHost[h] \in Nat /\ pass.perHost[h] <= MaxPerHost
      BY <2>1, <2>2, <2>3 DEF HostsInv
    <3>2. Cardinality(OfHost(restarted', h)) \in Nat
      BY <2>2, OneMore, FS_CardinalityType DEF HostsInv
    <3>3. QED
      BY <3>1, <3>2, RailsAreNumbers
  <2>6. \A h \in Hosts : OfHost(Begun, h)' = OfHost(Begun, h) /\ OfHost(restarted, h)' = OfHost(restarted', h)
    BY <2>3 DEF OfHost
  <2>7. QED
    BY <2>1, <2>2, <2>4, <2>5, <2>6 DEF HostsInv
<1>3. CASE ~ComposeUp
  <2>1. UNCHANGED restarted
    BY <1>3 DEF RollStep, CannotRead, OpenRow, PullFails, Pull, ComesUp, StaysDown, Lands,
       NotReplaced, BackTag, CannotTag, BackUp, RecordUndo, history
  <2>2. pass'.pc = pass.pc /\ pass'.perHost = pass.perHost
    <3>1. ASSUME NEW state, NEW to, Finish(state, to)
          PROVE  pass'.pc = pass.pc /\ pass'.perHost = pass.perHost
      BY <1>1, <3>1 DEF Finish, PassIsAPass
    <3>2. QED
      BY <1>3, <3>1 DEF RollStep, CannotRead, OpenRow, PullFails, Pull, ComesUp, StaysDown, Lands,
         NotReplaced, BackTag, CannotTag, BackUp, RecordUndo
  <2>3. roll.pc # "idle" /\ (roll' = NoRoll \/ (roll'.undo = roll.undo /\ roll'.c = roll.c))
    <3>1. ASSUME NEW state, NEW to, Finish(state, to)
          PROVE  roll' = NoRoll
      BY <3>1 DEF Finish
    <3>2. CASE CannotRead \/ PullFails \/ Lands \/ NotReplaced \/ RecordUndo
      BY <3>1, <3>2 DEF CannotRead, PullFails, Lands, NotReplaced, RecordUndo, InRoll
    <3>3. CASE OpenRow \/ ComesUp \/ StaysDown \/ BackTag
      BY <1>1, <3>3 DEF OpenRow, ComesUp, StaysDown, BackTag, InRoll, RollRecords
    <3>4. CASE Pull
      BY <1>1, <3>1, <3>4 DEF Pull, InRoll, RollRecords
    <3>5. CASE CannotTag
      BY <1>1, <3>1, <3>5 DEF CannotTag, InRoll, RollRecords
    <3>6. CASE BackUp
      BY <1>1, <3>1, <3>6 DEF BackUp, InRoll, RollRecords
    <3>7. QED
      BY <1>3, <3>2, <3>3, <3>4, <3>5, <3>6 DEF RollStep
  <2>4. QED
    BY <2>1, <2>2, <2>3, NoRollIsARoll, HostsKept
<1>4. QED
  BY <1>2, <1>3

LEMMA HostsStep == TypeInv /\ HostsInv /\ [Next]_vars => HostsInv'
<1> SUFFICES ASSUME TypeInv, HostsInv, [Next]_vars PROVE HostsInv'
  OBVIOUS
<1>1. CASE \/ Scan \/ Tick \/ UNCHANGED vars \/ EndClaim \/ EndRelease
           \/ \E c \in Containers : Publish(c) \/ ClearBlock(c) \/ StartRelease(c)
           \/ \E c \in Containers, auto \in BOOLEAN : StartClaim(c, auto)
  BY <1>1, HostsKept DEF Scan, Tick, Publish, ClearBlock, vars, history, EndClaim, EndRelease,
     StartRelease, StartClaim
<1>2. ASSUME NEW c \in Containers, NEW i \in DOMAIN rows[c], StartUndo(c, i)
      PROVE  HostsInv'
  BY <1>2, HostsKept DEF StartUndo, history
<1>3. CASE Lost
  <2>1. pass'.perHost = [h \in Hosts |-> 0] /\ pass'.pc = "idle" /\ restarted' = restarted
    BY <1>3 DEF Lost, NoPass
  <2>2. QED
    BY <2>1, HostsCleared
<1>4. QED
  BY <1>1, <1>2, <1>3, HostsPass, HostsRoll DEF Next, RequestStep

(***************************************************************************)
(* The rails of decide_roll, for any containers and hosts, any limits,     *)
(* passes, requests and losses: two rolls of a container that both landed  *)
(* lie a cooldown apart, and no pass brings up more of a host than it may. *)
(***************************************************************************)
THEOREM RailsAreKept == Spec => []RailsHold
<1>1. Init => SpacingInv /\ HostsInv
  <2> SUFFICES ASSUME Init PROVE SpacingInv /\ HostsInv
    OBVIOUS
  <2>1. /\ pass.moment = 0 /\ pass.last = [c \in Containers |-> None] /\ pass.pc = "idle"
        /\ pass.perHost = [h \in Hosts |-> 0] /\ roll.pc = "idle" /\ now = 0
        /\ \A c \in Containers : rows[c] = <<>>
        /\ restarted = {}
    BY NoRollIsARoll DEF Init, NoPass
  <2>2. \A c \in Containers : Landed(rows[c]) = {}
    BY <2>1 DEF Landed
  <2>3. SpacingInv
    <3>1. \A c \in Containers : EndedBy(rows[c], now) /\ Spaced(rows[c])
      BY <2>2 DEF EndedBy, Spaced
    <3>2. /\ pass.moment \in Nat /\ pass.moment <= now
          /\ pass.last \in [Containers -> Nat \union {None}]
      BY <2>1
    <3>3. QED
      BY <2>1, <3>1, <3>2 DEF SpacingInv
  <2>4. \A h \in Hosts : OfHost(restarted, h) = {}
    BY <2>1 DEF OfHost
  <2>5. HostsInv
    <3>1. Cardinality({}) = 0 /\ IsFiniteSet({})
      BY FS_EmptySet
    <3>2. /\ pass.perHost \in [Hosts -> Nat]
          /\ \A h \in Hosts : pass.perHost[h] <= MaxPerHost
      BY <2>1, RailsAreNumbers
    <3>3. \A h \in Hosts : Cardinality(OfHost(restarted, h)) <= MaxPerHost
      BY <2>4, <3>1, RailsAreNumbers
    <3>4. restarted \subseteq Containers /\ IsFiniteSet(restarted)
          /\ pass.pc \notin {"roll"} /\ restarted = {}
      BY <2>1, <3>1
    <3>5. QED
      BY <3>2, <3>3, <3>4 DEF HostsInv
  <2>6. QED
    BY <2>3, <2>5
<1>2. SpacingInv /\ HostsInv => RailsHold
  BY DEF SpacingInv, HostsInv, RailsHold, Spaced, Landed, OfHost
<1>3. QED
  BY <1>1, <1>2, TypesAlways, SpacingStep, HostsStep, PTL DEF Spec
=============================================================================
