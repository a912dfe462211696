--------------------------- MODULE Attempts_proofs ---------------------------
(***************************************************************************)
(* What holds of a student's attempts for any requests in progress, any    *)
(* attempts, works, checks and events, whatever overlaps and however often *)
(* the server stops: types, the grade and its work, the one clock, and     *)
(* what is told of a grade.                                                *)
(***************************************************************************)
EXTENDS Attempts, FiniteSetTheorems, TLAPS

\* What a grading decided, of the attempt as it was read.
Decided(c) ==
    \E passed \in BOOLEAN :
        /\ c.write.status \in {"GRADED", "EXPIRED"}
        /\ c.write.score = IF passed THEN "pass" ELSE "fail"
        /\ c.write.scored = c.read.snapshot
        /\ c.write.certificate = CertificateAfter(passed, c.read.certificate)

\* What a request carries, by the place it is at.
InOrder(c) ==
    /\ c.op = "start" <=> c.pc \in {"count", "create"}
    /\ c.pc \in {"write", "grade"} => c.a \in Ids
    /\ c.pc \in {"row", "send", "settle"} => c.event \in Events
    /\ c.pc = "write" => /\ c.read.status = "IN_PROGRESS"
                         /\ c.op = "abandon" => c.write.status = "ABANDONED"
    /\ c.pc = "grade" => Decided(c)

CallsInOrder == \A w \in Calls : InOrder(call[w])

TypeInv == TypeOK /\ CallsInOrder

-----------------------------------------------------------------------------
LEMMA RestingIsACall == Resting \in InCall /\ InOrder(Resting) /\ NoRow \in Rows
<1>1. NoRow \in Rows
  BY OpeningIsWork DEF NoRow, Rows, Statuses
<1>2. QED
  BY <1>1 DEF Resting, InCall, Pcs, Ops, InOrder

LEMMA TypesInitially == Init => TypeInv
<1> SUFFICES ASSUME Init PROVE TypeInv
  OBVIOUS
<1>1. 0 \in 0..MaxRubric /\ 0 \in 0..MaxEvents /\ 0 \in 0..MaxTime
  BY BoundsAreNumbers
<1>2. attempt \in [Ids -> Rows] /\ call \in [Calls -> InCall]
  BY RestingIsACall DEF Init
<1>3. TypeOK
  BY <1>1, <1>2 DEF Init, TypeOK, DeliveryStatuses, Rubrics
<1>4. QED
  BY <1>3, RestingIsACall DEF Init, TypeInv, CallsInOrder

\* One request moves on, and what it becomes is well formed.
LEMMA CallMoves ==
    ASSUME TypeInv, NEW w \in Calls, NEW c \in InCall, InOrder(c), Becomes(w, c)
    PROVE  call' \in [Calls -> InCall] /\ CallsInOrder'
<1>1. call' = [call EXCEPT ![w] = c] /\ call \in [Calls -> InCall]
  BY DEF Becomes, TypeInv, TypeOK
<1>2. QED
  BY <1>1 DEF TypeInv, CallsInOrder

LEMMA GradedIsDecided ==
    ASSUME NEW row \in Rows, NEW status \in {"GRADED", "EXPIRED"}, rubric \in Rubrics
    PROVE  /\ Graded(row, status) \in Rows
           /\ \E passed \in BOOLEAN :
                /\ Graded(row, status).status = status
                /\ Graded(row, status).score = IF passed THEN "pass" ELSE "fail"
                /\ Graded(row, status).scored = row.snapshot
                /\ Graded(row, status).certificate = CertificateAfter(passed, row.certificate)
<1> DEFINE passed == row.snapshot \in PassesIn[rubric]
<1>1. passed \in BOOLEAN
  OBVIOUS
<1>2. CertificateAfter(passed, row.certificate) \in {"none", "live", "revoked"}
  BY DEF CertificateAfter, Rows
<1>3. row.snapshot \in Works
  BY DEF Rows
<1> HIDE DEF passed
<1>4. Graded(row, status) =
        [status |-> status, snapshot |-> row.snapshot, scored |-> row.snapshot,
         score |-> IF passed THEN "pass" ELSE "fail",
         certificate |-> CertificateAfter(passed, row.certificate), expiresAt |-> row.expiresAt]
  BY DEF Graded, passed
<1>5. Graded(row, status) \in Rows
  BY <1>2, <1>3, <1>4 DEF Rows, Statuses
<1>6. QED
  BY <1>1, <1>4, <1>5

\* The events a retry works through.
LEMMA NextOfIsACall ==
    ASSUME NEW c \in InCall, c.op # "start", NEW d \in NextOf(c)
    PROVE  d \in InCall /\ InOrder(d)
<1>1. CASE c.due = {}
  BY <1>1, RestingIsACall DEF NextOf
<1>2. CASE c.due # {}
  <2>1. PICK n \in c.due : d = [c EXCEPT !.pc = "send", !.event = n, !.due = @ \ {n}, !.ok = FALSE]
    BY <1>2 DEF NextOf
  <2>2. n \in Events
    BY DEF InCall
  <2>3. d \in InCall
    BY <2>1, <2>2 DEF InCall, Pcs
  <2>4. d.pc = "send" /\ d.event = n /\ d.op = c.op
    BY <2>1 DEF InCall
  <2>5. QED
    BY <2>2, <2>3, <2>4 DEF InOrder
<1>3. QED
  BY <1>1, <1>2

(***************************************************************************)
(* Types, step by step.                                                    *)
(***************************************************************************)
LEMMA BeginsKeepsTypes ==
    ASSUME TypeInv, NEW w \in Calls, Begins(w)
    PROVE  TypeInv'
<1> USE DEF TypeInv
<1>1. /\ attempt \in [Ids -> Rows] /\ call \in [Calls -> InCall]
      /\ rubric \in Rubrics /\ overlapped \in BOOLEAN
  BY DEF TypeOK
\* It is enough that what the request carries is well formed.
<1>2. ASSUME NEW c \in InCall, InOrder(c), Becomes(w, c),
             UNCHANGED <<table, outside, graded, now, crossed>>, overlapped' \in BOOLEAN
      PROVE  TypeInv'
  <2>1. call' \in [Calls -> InCall] /\ CallsInOrder'
    BY <1>2, CallMoves
  <2>2. QED
    BY <1>2, <2>1 DEF TypeOK, table, outside
<1>3. CASE StartReads(w)
  <2> DEFINE c == [Resting EXCEPT !.pc = "count", !.op = "start"]
  <2>1. c \in InCall /\ InOrder(c)
    BY RestingIsACall DEF Resting, InCall, Pcs, Ops, InOrder
  <2>2. overlapped' \in BOOLEAN /\ Becomes(w, c)
    BY <1>1, <1>3 DEF StartReads
  <2>3. QED
    BY <1>2, <1>3, <2>1, <2>2 DEF StartReads
<1>4. ASSUME NEW a \in Ids, NEW op \in {"autosave", "restart", "abandon"}, NEW write \in Rows,
             op = "abandon" => write.status = "ABANDONED", Reads(w, a, op, write)
      PROVE  TypeInv'
  <2> DEFINE c == [Resting EXCEPT !.pc = "write", !.op = op, !.a = a,
                                  !.read = attempt[a], !.write = write]
  <2>1. c.pc = "write" /\ c.op = op /\ c.a = a /\ c.read = attempt[a] /\ c.write = write
    BY DEF Resting
  <2>2. c \in InCall
    BY <1>1, <1>4, RestingIsACall DEF Resting, InCall, Pcs, Ops
  <2>3. InOrder(c)
    BY <1>4, <2>1 DEF InOrder, Reads
  <2> HIDE DEF c
  <2>4. QED
    BY <1>1, <1>2, <1>4, <2>2, <2>3 DEF Reads, c
<1>5. ASSUME NEW a \in Ids, NEW work \in Works, AutosaveReads(w, a, work)
      PROVE  TypeInv'
  BY <1>1, <1>4, <1>5 DEF AutosaveReads, Rows
<1>6. ASSUME NEW a \in Ids, RestartReads(w, a)
      PROVE  TypeInv'
  BY <1>1, <1>4, <1>6, OpeningIsWork DEF RestartReads, Rows
<1>7. ASSUME NEW a \in Ids, AbandonReads(w, a)
      PROVE  TypeInv'
  BY <1>1, <1>4, <1>7 DEF AbandonReads, Rows, Statuses
<1>8. ASSUME NEW a \in Ids, NEW op \in {"submit", "regrade"},
             NEW status \in {"GRADED", "EXPIRED"}, GradeReads(w, a, op, status)
      PROVE  TypeInv'
  <2> DEFINE c == [Resting EXCEPT !.pc = "grade", !.op = op, !.a = a,
                                  !.read = attempt[a], !.write = Graded(attempt[a], status)]
  <2>1. c.pc = "grade" /\ c.op = op /\ c.a = a /\ c.read = attempt[a] /\ c.write = Graded(attempt[a], status)
    BY DEF Resting
  <2>2. attempt[a] \in Rows
    BY <1>1
  <2>3. Graded(attempt[a], status) \in Rows
    BY <1>1, <2>2, GradedIsDecided
  <2>4. Decided(c)
    <3>1. PICK passed \in BOOLEAN :
            /\ Graded(attempt[a], status).status = status
            /\ Graded(attempt[a], status).score = IF passed THEN "pass" ELSE "fail"
            /\ Graded(attempt[a], status).scored = attempt[a].snapshot
            /\ Graded(attempt[a], status).certificate = CertificateAfter(passed, attempt[a].certificate)
      BY <1>1, <2>2, GradedIsDecided
    <3> HIDE DEF c
    <3>2. QED
      BY <2>1, <3>1 DEF Decided
  <2>5. c \in InCall
    BY <2>2, <2>3, RestingIsACall DEF Resting, InCall, Pcs, Ops
  <2> HIDE DEF c
  <2>6. InOrder(c)
    BY <1>8, <2>1, <2>4 DEF InOrder
  <2>7. QED
    BY <1>1, <1>2, <1>8, <2>5, <2>6 DEF GradeReads, c
<1>9. ASSUME NEW a \in Ids, SubmitReads(w, a) \/ RegradeReads(w, a)
      PROVE  TypeInv'
  BY <1>8, <1>9 DEF SubmitReads, RegradeReads
<1>10. CASE RetryReads(w)
  <2> DEFINE due == {n \in Events : delivery[n] \in {"PENDING", "FAILED"}}
             c   == [Resting EXCEPT !.due = due]
  <2>1. c \in InCall /\ c.op # "start"
    BY RestingIsACall DEF Resting, InCall, Pcs, Ops
  <2>2. PICK d \in NextOf(c) : Becomes(w, d)
    BY <1>10 DEF RetryReads
  <2>3. d \in InCall /\ InOrder(d)
    BY <2>1, <2>2, NextOfIsACall
  <2>4. QED
    BY <1>1, <1>2, <1>10, <2>2, <2>3 DEF RetryReads
<1>11. QED
  BY <1>3, <1>5, <1>6, <1>7, <1>9, <1>10 DEF Begins

LEMMA GoesOnKeepsTypes ==
    ASSUME TypeInv, NEW w \in Calls, GoesOn(w)
    PROVE  TypeInv'
<1> USE DEF TypeInv
<1>1. /\ attempt \in [Ids -> Rows] /\ call \in [Calls -> InCall] /\ call[w] \in InCall
      /\ delivery \in [Events -> DeliveryStatuses] /\ InOrder(call[w])
  BY DEF TypeOK, CallsInOrder
<1>2. ASSUME NEW c \in InCall, InOrder(c), Becomes(w, c),
             attempt' \in [Ids -> Rows], delivery' \in [Events -> DeliveryStatuses],
             received' \subseteq Events, lost' \subseteq Events, untold' \subseteq Events,
             graded' \in 0..MaxEvents,
             crossed' \subseteq Ids, UNCHANGED <<rubric, now, overlapped>>
      PROVE  TypeInv'
  <2>1. call' \in [Calls -> InCall] /\ CallsInOrder'
    BY <1>2, CallMoves
  <2>2. QED
    BY <1>2, <2>1 DEF TypeOK
<1>3. /\ received \subseteq Events /\ lost \subseteq Events /\ untold \subseteq Events /\ graded \in 0..MaxEvents
      /\ crossed \subseteq Ids
  BY DEF TypeOK
\* The request goes on to a place where it needs no more than it has.
<1>4. ASSUME NEW pc \in {"create", "send"}, pc = "create" <=> call[w].op = "start",
             pc = "send" => call[w].event \in Events
      PROVE  [call[w] EXCEPT !.pc = pc] \in InCall /\ InOrder([call[w] EXCEPT !.pc = pc])
  BY <1>1, <1>4 DEF InCall, Pcs, InOrder
<1>5. CASE StartCounts(w)
  <2>1. PICK c \in InCall : InOrder(c) /\ Becomes(w, c)
    <3>1. call[w].op = "start"
      BY <1>1, <1>5 DEF StartCounts, InPc, InOrder
    <3>2. QED
      BY <1>4, <1>5, <3>1, RestingIsACall DEF StartCounts, Goes
  <2>2. QED
    BY <1>1, <1>2, <1>3, <1>5, <2>1 DEF StartCounts, table, outside
<1>6. CASE StartCreates(w)
  <2>1. PICK a \in Ids : attempt' = [attempt EXCEPT ![a] =
            [NoRow EXCEPT !.status = "IN_PROGRESS", !.expiresAt = now + TimeLimit]]
    BY <1>6 DEF StartCreates
  <2>2. now + TimeLimit \in Nat
    BY BoundsAreNumbers DEF TypeOK
  <2>3. [NoRow EXCEPT !.status = "IN_PROGRESS", !.expiresAt = now + TimeLimit] \in Rows
    BY <2>2, RestingIsACall DEF NoRow, Rows, Statuses
  <2>4. attempt' \in [Ids -> Rows]
    BY <1>1, <2>1, <2>3
  <2>5. QED
    BY <1>1, <1>2, <1>3, <1>6, <2>4, RestingIsACall DEF StartCreates, outside
<1>8. CASE Writes(w)
  <2>1. call[w].a \in Ids
    BY <1>1, <1>8 DEF Writes, InPc, InOrder
  <2>2. call[w].write \in Rows
    BY <1>1 DEF InCall
  <2>3. PICK row \in Rows : attempt' = [attempt EXCEPT ![call[w].a] = row]
    <3>1. attempt[call[w].a] \in Rows
      BY <1>1, <2>1
    <3>2. /\ [attempt[call[w].a] EXCEPT !.status = call[w].write.status] \in Rows
          /\ [attempt[call[w].a] EXCEPT !.snapshot = call[w].write.snapshot] \in Rows
      BY <2>2, <3>1 DEF Rows
    <3>3. QED
      BY <1>8, <3>2 DEF Writes
  <2>4. attempt' \in [Ids -> Rows]
    BY <1>1, <2>3
  <2>5. crossed' \subseteq Ids
    BY <1>3, <1>8, <2>1 DEF Writes, Cross
  <2>6. QED
    BY <1>1, <1>2, <1>3, <1>8, <2>4, <2>5, RestingIsACall DEF Writes, outside
<1>9. CASE Grades(w)
  <2> DEFINE c == call[w]
             d == [Resting EXCEPT !.pc = "row", !.op = c.op, !.event = graded']
             row == GradedOver(attempt[c.a], c)
  <2>1. c.a \in Ids /\ c.write \in Rows /\ c.op \in Ops /\ c.op # "start"
    BY <1>1, <1>9 DEF Grades, InPc, InOrder, InCall
  <2>2. row \in Rows
    <3>1. attempt[c.a] \in Rows
      BY <1>1, <2>1
    <3>2. QED
      BY <2>1, <3>1 DEF GradedOver, Rows
  <2>3. attempt' \in [Ids -> Rows]
    <3>1. attempt' = [attempt EXCEPT ![c.a] = row]
      BY <1>9 DEF Grades
    <3> HIDE DEF row
    <3>2. QED
      BY <1>1, <2>2, <3>1
  <2>4. graded' \in Events /\ graded' \in 0..MaxEvents
    BY <1>3, <1>9, BoundsAreNumbers DEF Grades, Events
  <2>5. d \in InCall /\ InOrder(d)
    BY <2>1, <2>4, RestingIsACall DEF Resting, InCall, Pcs, InOrder
  <2>6. crossed' \subseteq Ids
    BY <1>3, <1>9, <2>1 DEF Grades, Cross
  <2>7. Becomes(w, d)
    BY <1>9 DEF Grades
  <2> HIDE DEF d
  <2>8. QED
    BY <1>1, <1>2, <1>3, <1>9, <2>3, <2>4, <2>5, <2>6, <2>7 DEF Grades, outside
<1>10. CASE MakesRow(w)
  <2>1. call[w].event \in Events /\ call[w].op # "start"
    BY <1>1, <1>10 DEF MakesRow, InPc, InOrder
  <2>2. delivery' \in [Events -> DeliveryStatuses]
    BY <1>1, <1>10 DEF MakesRow, DeliveryStatuses
  <2>3. QED
    BY <1>1, <1>2, <1>3, <1>4, <1>10, <2>1, <2>2 DEF MakesRow, Goes, table
<1>14. CASE TellsNobody(w)
  <2>1. call[w].event \in Events
    BY <1>1, <1>14 DEF TellsNobody, InPc, InOrder
  <2>2. delivery' \in [Events -> DeliveryStatuses] /\ untold' \subseteq Events
    BY <1>1, <1>3, <1>14, <2>1 DEF TellsNobody, DeliveryStatuses
  <2>3. QED
    BY <1>1, <1>2, <1>3, <1>14, <2>2, RestingIsACall DEF TellsNobody, table
<1>11. CASE Sends(w)
  <2>1. call[w].event \in Events /\ call[w].op # "start"
    BY <1>1, <1>11 DEF Sends, InPc, InOrder
  <2>2. PICK ok \in BOOLEAN : Becomes(w, [call[w] EXCEPT !.pc = "settle", !.ok = ok])
    BY <1>11 DEF Sends
  <2>3. /\ [call[w] EXCEPT !.pc = "settle", !.ok = ok] \in InCall
        /\ InOrder([call[w] EXCEPT !.pc = "settle", !.ok = ok])
    BY <1>1, <2>1 DEF InCall, Pcs, InOrder
  <2>4. received' \subseteq Events
    BY <1>3, <1>11, <2>1 DEF Sends
  <2>5. QED
    BY <1>1, <1>2, <1>3, <1>11, <2>2, <2>3, <2>4 DEF Sends, table
<1>12. CASE Settles(w)
  <2>1. call[w].event \in Events /\ call[w].op # "start"
    BY <1>1, <1>12 DEF Settles, InPc, InOrder
  <2>2. PICK d \in NextOf(call[w]) : Becomes(w, d)
    BY <1>12 DEF Settles
  <2>3. d \in InCall /\ InOrder(d)
    BY <1>1, <2>1, NextOfIsACall
  <2>4. delivery' \in [Events -> DeliveryStatuses] /\ lost' \subseteq Events
    BY <1>1, <1>3, <1>12, <2>1 DEF Settles, DeliveryStatuses
  <2>5. QED
    BY <1>1, <1>2, <1>3, <1>12, <2>2, <2>3, <2>4 DEF Settles, table
<1>13. QED
  BY <1>5, <1>6, <1>8, <1>9, <1>10, <1>11, <1>12, <1>14 DEF GoesOn

LEMMA TypesStep == TypeInv /\ [Next]_vars => TypeInv'
<1> SUFFICES ASSUME TypeInv, [Next]_vars
             PROVE  TypeInv'
  OBVIOUS
<1> USE DEF TypeInv
<1>1. CASE SweepExpired
  <2>1. attempt' \in [Ids -> Rows]
    BY <1>1 DEF SweepExpired, TypeOK, Rows, Statuses
  <2>2. QED
    BY <1>1, <2>1 DEF SweepExpired, TypeOK, CallsInOrder, outside
<1>2. CASE EditChecks
  BY <1>2, BoundsAreNumbers DEF EditChecks, TypeOK, CallsInOrder, outside, Rubrics
<1>3. CASE Tick
  BY <1>3, BoundsAreNumbers DEF Tick, TypeOK, CallsInOrder, outside, table
<1>4. CASE StopServer
  <2>1. call' \in [Calls -> InCall] /\ CallsInOrder'
    BY <1>4, RestingIsACall DEF StopServer, CallsInOrder
  <2>2. lost' \subseteq Events
    BY <1>4 DEF StopServer, TypeOK, InCall
  <2>3. QED
    BY <1>4, <2>1, <2>2 DEF StopServer, TypeOK, table
<1>5. CASE UNCHANGED vars
  BY <1>5 DEF vars, TypeOK, CallsInOrder
<1>6. QED
  BY <1>1, <1>2, <1>3, <1>4, <1>5, BeginsKeepsTypes, GoesOnKeepsTypes DEF Next

LEMMA TypesAlways == Spec => []TypeInv
  BY TypesInitially, TypesStep, PTL DEF Spec

(***************************************************************************)
(* Every variable of the attempts keeps its type.                          *)
(***************************************************************************)
THEOREM AttemptsTypeCorrect == Spec => []TypeOK
<1>1. TypeInv => TypeOK
  BY DEF TypeInv
<1>2. QED
  BY <1>1, TypesAlways, PTL

-----------------------------------------------------------------------------
(***************************************************************************)
(* The grade and its work.  GradeIsOfItsWork is inductive together with    *)
(* what a request carries.                                                 *)
(***************************************************************************)
RowIsOfItsWork(row) ==
    /\ row.score # "none" => row.status \in {"GRADED", "EXPIRED"} /\ row.scored = row.snapshot
    /\ row.certificate = "live" <=> row.score = "pass"

LEMMA GradeStep == TypeInv /\ GradeIsOfItsWork /\ [Next]_vars => GradeIsOfItsWork'
<1> SUFFICES ASSUME TypeInv, GradeIsOfItsWork, [Next]_vars,
                    NEW a \in Ids, a \notin crossed'
             PROVE  RowIsOfItsWork(attempt'[a])
  BY DEF GradeIsOfItsWork, RowIsOfItsWork
<1>1. attempt \in [Ids -> Rows] /\ attempt[a] \in Rows /\ \A w \in Calls : call[w] \in InCall /\ InOrder(call[w])
  BY DEF TypeInv, TypeOK, CallsInOrder
<1>2. a \notin crossed => RowIsOfItsWork(attempt[a])
  BY DEF GradeIsOfItsWork, RowIsOfItsWork
<1>3. CASE attempt'[a] = attempt[a] /\ a \notin crossed
  BY <1>2, <1>3
<1>4. ASSUME NEW w \in Calls, Begins(w)
      PROVE  attempt'[a] = attempt[a] /\ a \notin crossed
  BY <1>4 DEF Begins, StartReads, AutosaveReads, RestartReads, AbandonReads, Reads,
              SubmitReads, RegradeReads, GradeReads, RetryReads, table
<1>5. ASSUME NEW w \in Calls, StartCounts(w) \/ MakesRow(w) \/ TellsNobody(w) \/ Sends(w) \/ Settles(w)
      PROVE  attempt'[a] = attempt[a] /\ a \notin crossed
  BY <1>5 DEF StartCounts, MakesRow, TellsNobody, Sends, Settles, table
<1>6. ASSUME NEW w \in Calls, StartCreates(w)
      PROVE  RowIsOfItsWork(attempt'[a])
  <2>1. PICK b \in Ids : attempt' = [attempt EXCEPT ![b] =
            [NoRow EXCEPT !.status = "IN_PROGRESS", !.expiresAt = now + TimeLimit]]
    BY <1>6 DEF StartCreates
  <2>2. RowIsOfItsWork([NoRow EXCEPT !.status = "IN_PROGRESS", !.expiresAt = now + TimeLimit])
    BY DEF NoRow, RowIsOfItsWork
  <2>3. a \notin crossed
    BY <1>6 DEF StartCreates
  <2>4. QED
    BY <1>1, <1>2, <2>1, <2>2, <2>3
\* A write that nothing crossed finds the running attempt it read.
<1>7. ASSUME NEW w \in Calls, Writes(w)
      PROVE  RowIsOfItsWork(attempt'[a])
  <2>1. a \notin crossed /\ (call[w].a = a => attempt[a] = call[w].read)
    BY <1>7 DEF Writes, Cross
  <2>2. CASE call[w].a # a
    BY <1>1, <1>2, <1>7, <2>1, <2>2 DEF Writes
  <2>3. CASE call[w].a = a
    <3>1. attempt[a].status = "IN_PROGRESS"
      BY <1>1, <1>7, <2>1, <2>3 DEF Writes, InPc, InOrder
    <3>2. attempt[a].score = "none" /\ attempt[a].certificate # "live"
      BY <1>2, <2>1, <3>1 DEF RowIsOfItsWork
    <3>3. attempt'[a].score = attempt[a].score /\ attempt'[a].certificate = attempt[a].certificate
      BY <1>1, <1>7, <2>3 DEF Writes, Rows
    <3>4. QED
      BY <3>2, <3>3 DEF RowIsOfItsWork
  <2>4. QED
    BY <2>2, <2>3
<1>8. ASSUME NEW w \in Calls, Grades(w)
      PROVE  RowIsOfItsWork(attempt'[a])
  <2>1. a \notin crossed /\ (call[w].a = a => attempt[a] = call[w].read)
    BY <1>8 DEF Grades, Cross
  <2>2. CASE call[w].a # a
    BY <1>1, <1>2, <1>8, <2>1, <2>2 DEF Grades
  <2>3. CASE call[w].a = a
    <3>1. PICK passed \in BOOLEAN :
            /\ call[w].write.status \in {"GRADED", "EXPIRED"}
            /\ call[w].write.score = IF passed THEN "pass" ELSE "fail"
            /\ call[w].write.scored = call[w].read.snapshot
            /\ call[w].write.certificate = CertificateAfter(passed, call[w].read.certificate)
      BY <1>1, <1>8 DEF Grades, InPc, InOrder, Decided
    <3>2. attempt'[a] = GradedOver(attempt[a], call[w])
      BY <1>1, <1>8, <2>3 DEF Grades
    <3>3. /\ attempt'[a].status = call[w].write.status
          /\ attempt'[a].score = call[w].write.score
          /\ attempt'[a].scored = attempt'[a].snapshot
          /\ attempt'[a].certificate = call[w].write.certificate
      BY <2>1, <2>3, <3>1, <3>2 DEF GradedOver
    <3>4. call[w].write.certificate = "live" <=> passed
      <4>1. passed => CertificateAfter(passed, call[w].read.certificate) = "live"
        BY DEF CertificateAfter
      <4>2. ~passed => CertificateAfter(passed, call[w].read.certificate) # "live"
        BY DEF CertificateAfter
      <4>3. QED
        BY <3>1, <4>1, <4>2
    <3>5. QED
      BY <3>1, <3>3, <3>4 DEF RowIsOfItsWork
  <2>4. QED
    BY <2>2, <2>3
<1>9. CASE SweepExpired
  <2>1. a \notin crossed
    BY <1>9 DEF SweepExpired
  <2>2. attempt'[a] = IF IsExpired(attempt[a]) THEN [attempt[a] EXCEPT !.status = "EXPIRED"] ELSE attempt[a]
    BY <1>9 DEF SweepExpired
  <2>3. CASE IsExpired(attempt[a])
    <3>1. attempt[a].score = "none" /\ attempt[a].certificate # "live"
      BY <1>2, <2>1, <2>3 DEF IsExpired, RowIsOfItsWork
    <3>2. attempt'[a].score = "none" /\ attempt'[a].certificate # "live"
      BY <1>1, <2>2, <2>3, <3>1 DEF Rows
    <3>3. QED
      BY <3>2 DEF RowIsOfItsWork
  <2>4. QED
    BY <1>2, <2>1, <2>2, <2>3
<1>10. CASE EditChecks \/ Tick \/ StopServer \/ UNCHANGED vars
  BY <1>3, <1>10 DEF EditChecks, Tick, StopServer, vars, table
<1>11. QED
  BY <1>3, <1>4, <1>5, <1>6, <1>7, <1>8, <1>9, <1>10 DEF Next, GoesOn

(***************************************************************************)
(* certificate-rules.ts: a certificate cannot outlive its own result, nor  *)
(* a grade the work it is of, on any attempt no two requests crossed on.   *)
(***************************************************************************)
THEOREM GradesAreOfTheirWork == Spec => []GradeIsOfItsWork
<1>1. Init => GradeIsOfItsWork
  BY DEF Init, NoRow, GradeIsOfItsWork
<1>2. QED
  BY <1>1, TypesAlways, GradeStep, PTL DEF Spec

-----------------------------------------------------------------------------
(***************************************************************************)
(* The one clock.  While starts do not overlap, one that is under way      *)
(* found nothing running, and nothing else makes an attempt run.           *)
(***************************************************************************)
Running(a) == IsRunning(attempt[a])

ClockInv ==
    \/ overlapped
    \/ /\ \A a, b \in Ids : Running(a) /\ Running(b) => a = b
       /\ \A w \in Calls : Starting(w) => \A a \in Ids : ~Running(a)
       /\ \A v, w \in Calls : Starting(v) /\ Starting(w) => v = w

LEMMA ClockStep == TypeInv /\ ClockInv /\ [Next]_vars => ClockInv'
<1> SUFFICES ASSUME TypeInv, ClockInv, [Next]_vars, ~overlapped'
             PROVE  ClockInv'
  BY DEF ClockInv
<1>1. /\ attempt \in [Ids -> Rows] /\ call \in [Calls -> InCall] /\ now \in Nat
      /\ \A w \in Calls : call[w] \in InCall /\ InOrder(call[w])
  BY BoundsAreNumbers DEF TypeInv, TypeOK, CallsInOrder
<1>2. ~overlapped
  BY DEF Next, Begins, GoesOn, StartReads, AutosaveReads, RestartReads, AbandonReads, Reads,
         SubmitReads, RegradeReads, GradeReads, RetryReads, StartCounts, StartCreates, Writes,
         Grades, MakesRow, TellsNobody, Sends, Settles, SweepExpired, EditChecks, Tick, StopServer, vars
<1>3. /\ \A a, b \in Ids : Running(a) /\ Running(b) => a = b
      /\ \A w \in Calls : Starting(w) => \A a \in Ids : ~Running(a)
      /\ \A v, w \in Calls : Starting(v) /\ Starting(w) => v = w
  BY <1>2 DEF ClockInv
<1>4. TypeInv' /\ \A w \in Calls : InOrder(call'[w])
  BY TypesStep DEF TypeInv, CallsInOrder
<1>5. /\ \A w \in Calls : Starting(w) <=> call[w].pc \in {"count", "create"}
      /\ \A w \in Calls : Starting(w)' <=> call'[w].pc \in {"count", "create"}
  BY <1>1, <1>4 DEF Starting, InPc, InOrder
\* Steps that start nothing and make nothing run.
<1>6. ASSUME \A a \in Ids : Running(a)' => Running(a),
             \A w \in Calls : Starting(w)' => Starting(w)
      PROVE  ClockInv'
  BY <1>3, <1>6 DEF ClockInv
<1>7. ASSUME UNCHANGED <<attempt, now>>
      PROVE  \A a \in Ids : Running(a)' => Running(a)
  BY <1>7 DEF Running, IsRunning, IsExpired
<1>8. ASSUME NEW w \in Calls, NEW c, c.pc \notin {"count", "create"}, Becomes(w, c)
      PROVE  \A v \in Calls : Starting(v)' => Starting(v)
  BY <1>1, <1>5, <1>8 DEF Becomes
<1>9. ASSUME NEW w \in Calls, StartReads(w)
      PROVE  ClockInv'
  <2>1. \A a \in Ids : ~Running(a)
    BY <1>9 DEF StartReads, Running
  <2>2. \A v \in Calls : v # w => ~Starting(v)
    BY <1>9 DEF StartReads
  <2>3. \A v \in Calls : v # w => ~Starting(v)'
    BY <1>1, <1>5, <1>9, <2>2 DEF StartReads, Becomes
  <2>4. \A a \in Ids : ~Running(a)'
    BY <1>7, <1>9, <2>1 DEF StartReads, table
  <2>5. QED
    BY <2>3, <2>4 DEF ClockInv
<1>10. Resting.pc = "idle"
  BY DEF Resting
<1>11. ASSUME NEW w \in Calls, NEW a \in Ids,
              \/ \E work \in Works : AutosaveReads(w, a, work)
              \/ RestartReads(w, a) \/ AbandonReads(w, a)
       PROVE  ClockInv'
  <2>1. PICK op, write : Reads(w, a, op, write)
    BY <1>11 DEF AutosaveReads, RestartReads, AbandonReads
  <2>2. \A v \in Calls : Starting(v)' => Starting(v)
    BY <1>8, <2>1 DEF Reads, Resting
  <2>3. QED
    BY <1>6, <1>7, <2>1, <2>2 DEF Reads, table
<1>12. ASSUME NEW w \in Calls, NEW a \in Ids, SubmitReads(w, a) \/ RegradeReads(w, a)
       PROVE  ClockInv'
  <2>1. PICK op, status : GradeReads(w, a, op, status)
    BY <1>12 DEF SubmitReads, RegradeReads
  <2>2. \A v \in Calls : Starting(v)' => Starting(v)
    BY <1>8, <2>1 DEF GradeReads, Resting
  <2>3. QED
    BY <1>6, <1>7, <2>1, <2>2 DEF GradeReads, table
<1>13. ASSUME NEW c \in InCall, c.pc \notin {"count", "create"}, NEW d \in NextOf(c)
       PROVE  d.pc \notin {"count", "create"}
  BY <1>10, <1>13 DEF NextOf, InCall
<1>14. ASSUME NEW w \in Calls, RetryReads(w)
       PROVE  ClockInv'
  <2> DEFINE c == [Resting EXCEPT !.due = {n \in Events : delivery[n] \in {"PENDING", "FAILED"}}]
  <2>1. c \in InCall /\ c.pc = "idle"
    BY RestingIsACall DEF Resting, InCall
  <2>2. PICK d \in NextOf(c) : Becomes(w, d)
    BY <1>14 DEF RetryReads
  <2> HIDE DEF c
  <2>3. \A v \in Calls : Starting(v)' => Starting(v)
    BY <1>8, <1>13, <2>1, <2>2
  <2>4. QED
    BY <1>6, <1>7, <1>14, <2>3 DEF RetryReads, table
<1>15. ASSUME NEW w \in Calls, StartCounts(w)
       PROVE  ClockInv'
  <2>1. Starting(w) /\ \A v \in Calls : v # w => call'[v] = call[v]
    BY <1>1, <1>5, <1>15 DEF StartCounts, InPc, Goes, Becomes
  <2>2. \A v \in Calls : Starting(v)' => Starting(v)
    BY <1>5, <2>1
  <2>3. QED
    BY <1>6, <1>7, <1>15, <2>2 DEF StartCounts, table
<1>16. ASSUME NEW w \in Calls, StartCreates(w)
       PROVE  ClockInv'
  <2>1. Starting(w)
    BY <1>5, <1>16 DEF StartCreates, InPc
  <2>2. \A a \in Ids : ~Running(a)
    BY <1>3, <2>1
  <2>3. PICK a \in Ids : \A b \in Ids : b # a => attempt'[b] = attempt[b]
    BY <1>1, <1>16 DEF StartCreates
  <2>4. \A b \in Ids : b # a => ~Running(b)'
    BY <1>16, <2>2, <2>3 DEF StartCreates, Running, IsRunning, IsExpired
  <2>5. \A v \in Calls : ~Starting(v)'
    <3>1. \A v \in Calls : v # w => ~Starting(v)
      BY <1>3, <2>1
    <3>2. QED
      BY <1>1, <1>5, <1>10, <1>16, <3>1 DEF StartCreates, Becomes
  <2>6. QED
    BY <2>4, <2>5 DEF ClockInv
<1>17. ASSUME NEW w \in Calls, Writes(w)
       PROVE  ClockInv'
  <2>1. \A v \in Calls : Starting(v)' => Starting(v)
    BY <1>8, <1>10, <1>17 DEF Writes
  <2>2. /\ call[w].a \in Ids
        /\ call[w].op = "abandon" => call[w].write.status = "ABANDONED"
    BY <1>1, <1>17 DEF Writes, InPc, InOrder
  <2>3. \A a \in Ids :
          /\ attempt'[a].expiresAt = attempt[a].expiresAt
          /\ attempt'[a].status = attempt[a].status \/ attempt'[a].status = "ABANDONED"
    BY <1>1, <1>17, <2>2 DEF Writes, Rows
  <2>4. \A a \in Ids : Running(a)' => Running(a)
    BY <1>17, <2>3 DEF Writes, Running, IsRunning, IsExpired
  <2>5. QED
    BY <1>6, <2>1, <2>4
<1>18. ASSUME NEW w \in Calls, Grades(w)
       PROVE  ClockInv'
  <2>1. \A v \in Calls : Starting(v)' => Starting(v)
    <3> DEFINE c == [Resting EXCEPT !.pc = "row", !.op = call[w].op, !.event = graded']
    <3>1. Becomes(w, c) /\ c.pc = "row"
      BY <1>18 DEF Grades, Resting
    <3> HIDE DEF c
    <3>2. QED
      BY <1>8, <3>1
  <2>2. call[w].a \in Ids /\ call[w].write.status \in {"GRADED", "EXPIRED"}
    BY <1>1, <1>18 DEF Grades, InPc, InOrder, Decided
  <2>3. \A a \in Ids : attempt'[a] = attempt[a] \/ attempt'[a].status \in {"GRADED", "EXPIRED"}
    BY <1>1, <1>18, <2>2 DEF Grades, GradedOver
  <2>4. \A a \in Ids : Running(a)' => Running(a)
    BY <1>18, <2>3 DEF Grades, Running, IsRunning, IsExpired
  <2>5. QED
    BY <1>6, <2>1, <2>4
<1>19. ASSUME NEW w \in Calls, MakesRow(w) \/ Sends(w)
       PROVE  ClockInv'
  <2>1. \A v \in Calls : v # w => call'[v] = call[v]
    BY <1>1, <1>19 DEF MakesRow, Sends, Goes, Becomes
  <2>2. call'[w].pc \in {"send", "settle"}
    BY <1>1, <1>19 DEF MakesRow, Sends, Goes, Becomes, InCall
  <2>3. \A v \in Calls : Starting(v)' => Starting(v)
    BY <1>5, <2>1, <2>2
  <2>4. QED
    BY <1>6, <1>7, <1>19, <2>3 DEF MakesRow, Sends, table
<1>25. ASSUME NEW w \in Calls, TellsNobody(w)
       PROVE  ClockInv'
  <2>1. \A v \in Calls : Starting(v)' => Starting(v)
    BY <1>8, <1>25 DEF TellsNobody, Resting
  <2>2. QED
    BY <1>6, <1>7, <1>25, <2>1 DEF TellsNobody, table
<1>20. ASSUME NEW w \in Calls, Settles(w)
       PROVE  ClockInv'
  <2>1. PICK d \in NextOf(call[w]) : Becomes(w, d)
    BY <1>20 DEF Settles
  <2>2. call[w] \in InCall /\ call[w].pc = "settle"
    BY <1>1, <1>20 DEF Settles, InPc
  <2>3. \A v \in Calls : Starting(v)' => Starting(v)
    BY <1>8, <1>13, <2>1, <2>2
  <2>4. QED
    BY <1>6, <1>7, <1>20, <2>3 DEF Settles, table
<1>21. CASE SweepExpired
  <2>1. \A a \in Ids : Running(a)' => Running(a)
    BY <1>1, <1>21 DEF SweepExpired, Running, IsRunning, IsExpired, Rows
  <2>2. \A v \in Calls : Starting(v)' => Starting(v)
    BY <1>21 DEF SweepExpired, Starting, InPc
  <2>3. QED
    BY <1>6, <2>1, <2>2
<1>22. CASE EditChecks \/ UNCHANGED vars
  <2>1. \A v \in Calls : Starting(v)' => Starting(v)
    BY <1>22 DEF EditChecks, vars, Starting, InPc
  <2>2. QED
    BY <1>6, <1>7, <1>22, <2>1 DEF EditChecks, vars
<1>23. CASE Tick
  <2>1. \A a \in Ids : attempt[a].expiresAt \in Nat
    BY <1>1 DEF Rows
  <2>2. \A a \in Ids : Running(a)' => Running(a)
    BY <1>1, <1>23, <2>1 DEF Tick, table, Running, IsRunning, IsExpired
  <2>3. \A v \in Calls : Starting(v)' => Starting(v)
    BY <1>23 DEF Tick, Starting, InPc
  <2>4. QED
    BY <1>6, <2>2, <2>3
<1>24. CASE StopServer
  <2>1. \A v \in Calls : ~Starting(v)'
    BY <1>10, <1>24 DEF StopServer, Starting, InPc
  <2>2. QED
    BY <1>6, <1>7, <1>24, <2>1 DEF StopServer, table
<1>26. QED
  BY <1>9, <1>11, <1>12, <1>14, <1>15, <1>16, <1>17, <1>18, <1>19, <1>20, <1>21, <1>22,
     <1>23, <1>24, <1>25 DEF Next, Begins, GoesOn

(***************************************************************************)
(* student.ts: a running attempt is resumed rather than a second clock     *)
(* burned, for any number of requests of which no two starts overlap.      *)
(***************************************************************************)
THEOREM StudentHasOneClock == Spec => []OneClock
<1>1. Init => ClockInv
  BY DEF Init, NoRow, Resting, ClockInv, Running, IsRunning, Starting, InPc
<1>2. ClockInv => OneClock
  <2> SUFFICES ASSUME ClockInv, ~overlapped
               PROVE  Cardinality({a \in Ids : IsRunning(attempt[a])}) <= 1
    BY DEF OneClock
  <2> DEFINE running == {a \in Ids : IsRunning(attempt[a])}
  <2>1. CASE running = {}
    BY <2>1, FS_EmptySet
  <2>2. ASSUME NEW a \in running
        PROVE  Cardinality(running) = 1
    <3>1. running = {a}
      BY DEF ClockInv, Running
    <3>2. QED
      BY <3>1, FS_Singleton
  <2>3. QED
    BY <2>1, <2>2
<1>3. QED
  BY <1>1, <1>2, TypesAlways, ClockStep, PTL DEF Spec

-----------------------------------------------------------------------------
(***************************************************************************)
(* What is told of a grade.                                                *)
(***************************************************************************)
Sending(c) == c.pc \in {"row", "send", "settle"}

\* What a request in the middle of a delivery knows of it.
KnowsItsEvent(c) ==
    /\ Sending(c) => c.event <= graded
    /\ c.pc \in {"send", "settle"} => delivery[c.event] # "NONE"
    /\ c.pc = "settle" /\ c.ok => c.event \in received
    /\ \A n \in c.due : delivery[n] # "NONE"

DeliveryInv ==
    /\ \A n \in Events :
        /\ delivery[n] = "DELIVERED" => n \in received
        /\ n \in received => delivery[n] # "NONE"
        /\ delivery[n] # "NONE" => n <= graded
        /\ n <= graded /\ n \notin lost \union untold /\ delivery[n] \notin {"DELIVERED", "FAILED"}
              => \E w \in Calls : Sending(call[w]) /\ call[w].event = n
    /\ \A w \in Calls : KnowsItsEvent(call[w])

LEMMA NoneIsNoEvent == None \notin Events
  BY NoneIsNothing DEF Events

\* A request that is in no delivery goes on to something that is in none.
LEMMA DeliveryUntouched ==
    ASSUME TypeInv, DeliveryInv, UNCHANGED <<outside, graded>>,
           NEW w \in Calls, NEW c, Becomes(w, c), ~Sending(call[w]), ~Sending(c), c.due = {}
    PROVE  DeliveryInv'
<1>1. /\ call \in [Calls -> InCall]
      /\ \A v \in Calls : v # w => call'[v] = call[v]
      /\ call'[w] = c
  BY DEF TypeInv, TypeOK, Becomes
<1>2. \A v \in Calls : KnowsItsEvent(call[v])'
  BY <1>1 DEF DeliveryInv, KnowsItsEvent, Sending, outside
<1>3. \A n \in Events, v \in Calls :
        Sending(call[v]) /\ call[v].event = n => Sending(call'[v]) /\ call'[v].event = n
  BY <1>1
<1>4. QED
  BY <1>2, <1>3 DEF DeliveryInv, outside

LEMMA DeliveryBegins ==
    ASSUME TypeInv, DeliveryInv, NEW w \in Calls, Begins(w)
    PROVE  DeliveryInv'
<1>1. /\ call \in [Calls -> InCall]
      /\ InPc(w, "idle")
      /\ UNCHANGED <<outside, graded>>
  BY DEF TypeInv, TypeOK, Begins, MayCall, StartReads, AutosaveReads, RestartReads, AbandonReads,
         Reads, SubmitReads, RegradeReads, GradeReads, RetryReads, outside
<1>2. ~Sending(call[w])
  BY <1>1 DEF InPc, Sending
<1>3. CASE StartReads(w)
  <2> DEFINE c == [Resting EXCEPT !.pc = "count", !.op = "start"]
  <2>1. Becomes(w, c) /\ ~Sending(c) /\ c.due = {}
    BY <1>3 DEF StartReads, Resting, Sending
  <2> HIDE DEF c
  <2>2. QED
    BY <1>1, <1>2, <2>1, DeliveryUntouched
<1>4. ASSUME NEW a \in Ids, NEW op, NEW write, Reads(w, a, op, write)
      PROVE  DeliveryInv'
  <2> DEFINE c == [Resting EXCEPT !.pc = "write", !.op = op, !.a = a,
                                  !.read = attempt[a], !.write = write]
  <2>1. Becomes(w, c) /\ ~Sending(c) /\ c.due = {}
    BY <1>4 DEF Reads, Resting, Sending
  <2> HIDE DEF c
  <2>2. QED
    BY <1>1, <1>2, <2>1, DeliveryUntouched
<1>5. ASSUME NEW a \in Ids, NEW op, NEW status, GradeReads(w, a, op, status)
      PROVE  DeliveryInv'
  <2> DEFINE c == [Resting EXCEPT !.pc = "grade", !.op = op, !.a = a,
                                  !.read = attempt[a], !.write = Graded(attempt[a], status)]
  <2>1. Becomes(w, c) /\ ~Sending(c) /\ c.due = {}
    BY <1>5 DEF GradeReads, Resting, Sending
  <2> HIDE DEF c
  <2>2. QED
    BY <1>1, <1>2, <2>1, DeliveryUntouched
<1>6. CASE RetryReads(w)
  <2> DEFINE due == {n \in Events : delivery[n] \in {"PENDING", "FAILED"}}
             c   == [Resting EXCEPT !.due = due]
  <2>1. c.due = due /\ due # {} /\ c.pc = "idle"
    BY <1>6 DEF RetryReads, Resting
  <2>2. PICK d \in NextOf(c) : Becomes(w, d)
    BY <1>6 DEF RetryReads
  <2>3. PICK n \in due : d = [c EXCEPT !.pc = "send", !.event = n, !.due = @ \ {n}, !.ok = FALSE]
    BY <2>1, <2>2 DEF NextOf
  <2>4. d.pc = "send" /\ d.event = n /\ d.due = due \ {n}
    BY <2>1, <2>3 DEF Resting
  <2>5. KnowsItsEvent(d)
    BY <2>4 DEF KnowsItsEvent, Sending, DeliveryInv
  <2>6. \A v \in Calls : KnowsItsEvent(call[v])'
    <3>1. \A v \in Calls : call'[v] = IF v = w THEN d ELSE call[v]
      BY <1>1, <2>2 DEF Becomes
    <3>2. QED
      BY <1>1, <2>5, <3>1 DEF DeliveryInv, KnowsItsEvent, outside
  <2>7. \A n_1 \in Events, v \in Calls :
          Sending(call[v]) /\ call[v].event = n_1 => Sending(call'[v]) /\ call'[v].event = n_1
    BY <1>1, <1>2, <2>2 DEF Becomes
  <2>8. QED
    BY <1>1, <2>6, <2>7 DEF DeliveryInv, outside
<1>7. QED
  BY <1>3, <1>4, <1>5, <1>6 DEF Begins, AutosaveReads, RestartReads, AbandonReads,
     SubmitReads, RegradeReads

\* One request in a delivery goes on, and the rest stay where they are.
LEMMA DeliveryGoesOn ==
    ASSUME TypeInv, DeliveryInv, NEW w \in Calls, GoesOn(w)
    PROVE  DeliveryInv'
<1>1. /\ call \in [Calls -> InCall] /\ call[w] \in InCall /\ InOrder(call[w])
      /\ delivery \in [Events -> DeliveryStatuses]
      /\ graded \in Nat /\ KnowsItsEvent(call[w])
  BY BoundsAreNumbers DEF TypeInv, TypeOK, CallsInOrder, DeliveryInv
<1>2. ASSUME NEW d, Becomes(w, d)
      PROVE  \A v \in Calls : call'[v] = IF v = w THEN d ELSE call[v]
  BY <1>1, <1>2 DEF Becomes
<1>3. Resting.due = {} /\ ~Sending(Resting) /\ Resting.pc = "idle"
  BY DEF Resting, Sending
<1>4. ASSUME call[w].pc \in {"count", "create", "write", "grade"}
      PROVE  ~Sending(call[w])
  BY <1>4 DEF Sending
<1>5. CASE StartCounts(w)
  <2> DEFINE c == [call[w] EXCEPT !.pc = "create"]
  <2>1. CASE Becomes(w, Resting)
    BY <1>3, <1>4, <1>5, <2>1, DeliveryUntouched DEF StartCounts, InPc
  <2>2. CASE Becomes(w, c)
    <3>1. ~Sending(c) /\ c.due = call[w].due
      BY <1>1 DEF Sending, InCall
    <3>2. \A v \in Calls : call'[v] = IF v = w THEN c ELSE call[v]
      BY <1>2, <2>2
    <3> HIDE DEF c
    <3>3. KnowsItsEvent(c)
      BY <1>1, <3>1 DEF KnowsItsEvent, Sending
    <3>4. ~Sending(call[w])
      BY <1>4, <1>5 DEF StartCounts, InPc
    <3>5. \A v \in Calls : KnowsItsEvent(call[v])'
      BY <1>5, <3>2, <3>3 DEF StartCounts, DeliveryInv, KnowsItsEvent, outside
    <3>6. QED
      BY <1>5, <3>2, <3>4, <3>5 DEF StartCounts, DeliveryInv, outside
  <2>3. QED
    BY <1>5, <2>1, <2>2 DEF StartCounts, Goes
<1>6. CASE StartCreates(w)
  BY <1>3, <1>4, <1>6, DeliveryUntouched DEF StartCreates, InPc
<1>7. CASE Writes(w)
  BY <1>3, <1>4, <1>7, DeliveryUntouched DEF Writes, InPc
<1>8. CASE Grades(w)
  <2> DEFINE d == [Resting EXCEPT !.pc = "row", !.op = call[w].op, !.event = graded']
  <2>1. Becomes(w, d) /\ d.pc = "row" /\ d.event = graded + 1 /\ d.due = {}
    BY <1>8 DEF Grades, Resting
  <2> HIDE DEF d
  <2>2. \A v \in Calls : call'[v] = IF v = w THEN d ELSE call[v]
    BY <1>2, <2>1
  <2>3. graded' = graded + 1 /\ UNCHANGED outside /\ ~Sending(call[w])
    BY <1>4, <1>8 DEF Grades, InPc
  <2>4. \A v \in Calls : KnowsItsEvent(call[v])'
    <3>1. ASSUME NEW v \in Calls, v # w
          PROVE  Sending(call[v]) => call[v].event \in Nat
      BY DEF Sending, TypeInv, CallsInOrder, InOrder, Events
    <3>2. QED
      BY <1>1, <2>1, <2>2, <2>3, <3>1 DEF DeliveryInv, KnowsItsEvent, Sending, outside
  <2>5. \A n \in Events : n <= graded' => n <= graded \/ n = d.event
    BY <1>1, <2>1, <2>3 DEF Events
  <2>6. \A n \in Events : n <= graded => n <= graded'
    BY <1>1, <2>3 DEF Events
  <2>7. QED
    BY <2>1, <2>2, <2>3, <2>4, <2>5, <2>6 DEF DeliveryInv, Sending, outside
<1>9. ASSUME Sending(call[w])
      PROVE  call[w].event \in Events /\ call[w].event <= graded
  BY <1>1, <1>9 DEF Sending, InOrder, KnowsItsEvent
<1>10. CASE MakesRow(w)
  <2> DEFINE d == [call[w] EXCEPT !.pc = "send"]
  <2>1. Becomes(w, d) /\ d.pc = "send" /\ d.event = call[w].event /\ d.due = call[w].due
    BY <1>1, <1>10 DEF MakesRow, Goes, InCall
  <2> HIDE DEF d
  <2>2. \A v \in Calls : call'[v] = IF v = w THEN d ELSE call[v]
    BY <1>2, <2>1
  <2>3. call[w].event \in Events /\ call[w].event <= graded
    BY <1>9, <1>10 DEF MakesRow, InPc, Sending
  <2>4. /\ UNCHANGED <<received, lost, untold, graded>>
        /\ \A n \in Events : delivery'[n] = IF n = call[w].event THEN "PENDING" ELSE delivery[n]
    BY <1>1, <1>10 DEF MakesRow
  <2>5. \A v \in Calls : KnowsItsEvent(call[v])'
    <3>1. \A v \in Calls : call[v].due \subseteq Events /\ (Sending(call[v]) => call[v].event \in Events)
      BY DEF Sending, TypeInv, TypeOK, CallsInOrder, InOrder, InCall
    <3>2. QED
      BY <2>1, <2>2, <2>3, <2>4, <3>1 DEF DeliveryInv, KnowsItsEvent, Sending
  <2>6. QED
    BY <2>1, <2>2, <2>3, <2>4, <2>5 DEF DeliveryInv, Sending
\* The event becomes untold, and no other event's row or call is touched.
<1>14. CASE TellsNobody(w)
  <2> DEFINE e == call[w].event
  <2>1. \A v \in Calls : call'[v] = IF v = w THEN Resting ELSE call[v]
    BY <1>2, <1>14 DEF TellsNobody
  <2>2. e \in Events /\ e <= graded
    BY <1>9, <1>14 DEF TellsNobody, InPc, Sending
  <2>3. /\ UNCHANGED <<received, lost, graded>> /\ untold' = untold \union {e}
        /\ \A n \in Events : \/ delivery'[n] = delivery[n]
                             \/ n = e /\ delivery'[n] = "PENDING"
    BY <1>1, <1>14 DEF TellsNobody
  <2>4. \A v \in Calls : call[v].due \subseteq Events /\ (Sending(call[v]) => call[v].event \in Events)
    BY DEF Sending, TypeInv, TypeOK, CallsInOrder, InOrder, InCall
  <2> HIDE DEF e
  <2>5. \A v \in Calls : KnowsItsEvent(call[v])'
    BY <1>3, <2>1, <2>3, <2>4 DEF DeliveryInv, KnowsItsEvent, Sending
  <2>6. \A n \in Events :
          n <= graded' /\ n \notin (lost \union untold)' /\ delivery'[n] \notin {"DELIVERED", "FAILED"}
            => \E v \in Calls : Sending(call'[v]) /\ call'[v].event = n
    <3>1. SUFFICES ASSUME NEW n \in Events, n <= graded, n \notin lost \union untold, n # e,
                          delivery[n] \notin {"DELIVERED", "FAILED"}
                   PROVE  \E v \in Calls : Sending(call'[v]) /\ call'[v].event = n
      BY <2>3
    <3>2. PICK v \in Calls : Sending(call[v]) /\ call[v].event = n
      BY <3>1 DEF DeliveryInv
    <3>3. QED
      BY <2>1, <3>1, <3>2 DEF e
  <2>7. QED
    BY <2>2, <2>3, <2>5, <2>6 DEF DeliveryInv
<1>11. CASE Sends(w)
  <2>1. PICK ok \in BOOLEAN :
          /\ received' \in IF ok THEN {received \union {call[w].event}}
                           ELSE {received, received \union {call[w].event}}
          /\ Becomes(w, [call[w] EXCEPT !.pc = "settle", !.ok = ok])
    BY <1>11 DEF Sends
  <2> DEFINE d == [call[w] EXCEPT !.pc = "settle", !.ok = ok]
  <2>2. Becomes(w, d) /\ d.pc = "settle" /\ d.ok = ok /\ d.event = call[w].event /\ d.due = call[w].due
    BY <1>1, <2>1 DEF InCall
  <2> HIDE DEF d
  <2>3. \A v \in Calls : call'[v] = IF v = w THEN d ELSE call[v]
    BY <1>2, <2>2
  <2>4. call[w].event \in Events /\ call[w].event <= graded /\ delivery[call[w].event] # "NONE"
    BY <1>1, <1>9, <1>11 DEF Sends, InPc, Sending, KnowsItsEvent
  <2>5. /\ received \subseteq received' /\ received' \subseteq received \union {call[w].event}
        /\ ok => call[w].event \in received'
        /\ UNCHANGED <<delivery, lost, untold, graded>>
    BY <1>11, <2>1 DEF Sends
  <2>6. \A v \in Calls : KnowsItsEvent(call[v])'
    BY <2>2, <2>3, <2>4, <2>5 DEF DeliveryInv, KnowsItsEvent, Sending
  <2>7. QED
    BY <2>2, <2>3, <2>4, <2>5, <2>6 DEF DeliveryInv, Sending
<1>12. CASE Settles(w)
  <2> DEFINE e == call[w].event
  <2>1. PICK d \in NextOf(call[w]) : Becomes(w, d)
    BY <1>12 DEF Settles
  <2>2. \A v \in Calls : call'[v] = IF v = w THEN d ELSE call[v]
    BY <1>2, <2>1
  <2>3. e \in Events /\ e <= graded /\ delivery[e] # "NONE" /\ (call[w].ok => e \in received)
    BY <1>1, <1>9, <1>12 DEF Settles, InPc, Sending, KnowsItsEvent
  <2>4. UNCHANGED <<received, graded, untold>>
    BY <1>12 DEF Settles
  <2>5. \/ /\ \A n \in Events : delivery'[n] = IF n # e THEN delivery[n]
                                               ELSE IF call[w].ok THEN "DELIVERED" ELSE "FAILED"
           /\ UNCHANGED lost
        \/ lost' = lost \union {e} /\ UNCHANGED delivery
    BY <1>1, <1>12 DEF Settles
  <2>6. /\ d.pc # "settle"
        /\ Sending(d) => d.event \in call[w].due
        /\ d.due \subseteq call[w].due
    <3>1. CASE call[w].due = {}
      BY <1>3, <2>1, <3>1 DEF NextOf
    <3>2. CASE call[w].due # {}
      <4>1. PICK n \in call[w].due :
              d = [call[w] EXCEPT !.pc = "send", !.event = n, !.due = @ \ {n}, !.ok = FALSE]
        BY <2>1, <3>2 DEF NextOf
      <4>2. d.pc = "send" /\ d.event = n /\ d.due = call[w].due \ {n}
        BY <1>1, <4>1 DEF InCall
      <4>3. QED
        BY <4>2
    <3>3. QED
      BY <3>1, <3>2
  <2>7. \A n \in Events : delivery[n] # "NONE" => delivery'[n] # "NONE"
    BY <2>5
  <2>8. \A n \in Events : delivery'[n] # "NONE" => delivery[n] # "NONE"
    BY <2>3, <2>5
  <2>9. \A v \in Calls : call[v].due \subseteq Events /\ (Sending(call[v]) => call[v].event \in Events)
    BY DEF Sending, TypeInv, TypeOK, CallsInOrder, InOrder, InCall
  <2>10. \A v \in Calls : KnowsItsEvent(call[v])'
    BY <1>1, <2>2, <2>4, <2>6, <2>7, <2>9 DEF DeliveryInv, KnowsItsEvent, Sending
  <2> HIDE DEF e
  <2>11. \A n \in Events :
          n <= graded' /\ n \notin (lost \union untold)' /\ delivery'[n] \notin {"DELIVERED", "FAILED"}
            => \E v \in Calls : Sending(call'[v]) /\ call'[v].event = n
    <3>1. SUFFICES ASSUME NEW n \in Events, n <= graded, n \notin lost' \union untold,
                          delivery'[n] \notin {"DELIVERED", "FAILED"}
                   PROVE  \E v \in Calls : Sending(call'[v]) /\ call'[v].event = n
      BY <2>4
    <3>2. n # e /\ n \notin lost \union untold /\ delivery'[n] = delivery[n]
      BY <2>5, <3>1
    <3>3. PICK v \in Calls : Sending(call[v]) /\ call[v].event = n
      BY <3>1, <3>2 DEF DeliveryInv
    <3>4. QED
      BY <2>2, <3>2, <3>3 DEF e
  <2>12. \A n \in Events : delivery'[n] = "DELIVERED" => n \in received'
    BY <2>3, <2>4, <2>5 DEF DeliveryInv
  <2>13. QED
    BY <2>4, <2>7, <2>8, <2>10, <2>11, <2>12 DEF DeliveryInv
<1>13. QED
  BY <1>5, <1>6, <1>7, <1>8, <1>10, <1>11, <1>12, <1>14 DEF GoesOn

LEMMA DeliveryStep == TypeInv /\ DeliveryInv /\ [Next]_vars => DeliveryInv'
<1> SUFFICES ASSUME TypeInv, DeliveryInv, [Next]_vars
             PROVE  DeliveryInv'
  OBVIOUS
<1>1. CASE SweepExpired \/ EditChecks \/ Tick \/ UNCHANGED vars
  <2>1. UNCHANGED <<call, outside, graded>>
    BY <1>1 DEF SweepExpired, EditChecks, Tick, vars, outside
  <2>2. QED
    BY <2>1 DEF DeliveryInv, KnowsItsEvent, outside
<1>2. CASE StopServer
  <2>1. \A w \in Calls : call'[w] = Resting
    BY <1>2 DEF StopServer
  <2>2. \A w \in Calls : KnowsItsEvent(call[w])'
    BY <2>1 DEF Resting, KnowsItsEvent, Sending
  <2>3. \A w \in Calls : Sending(call[w]) => call[w].event \in lost'
    BY <1>2, NoneIsNoEvent DEF StopServer, TypeInv, CallsInOrder, InOrder, Sending
  <2>4. lost \subseteq lost' /\ UNCHANGED <<delivery, received, untold, graded>>
    BY <1>2 DEF StopServer
  <2>5. QED
    BY <2>2, <2>3, <2>4 DEF DeliveryInv
<1>3. QED
  BY <1>1, <1>2, DeliveryBegins, DeliveryGoesOn DEF Next

(***************************************************************************)
(* "We told your consumer" is a claim they can check: a row that says      *)
(* DELIVERED is of an event the consumer took, nothing goes out unrecorded *)
(* or ungraded, and a grading ends with its row settled unless a call was  *)
(* cut short or ended before the consumer was asked; for any number of     *)
(* calls, retries, lost answers, missing consumers and failing inserts.    *)
(***************************************************************************)
THEOREM DeliveriesAreTrue == Spec => []DeliveriesTellTheTruth
<1>1. Init => DeliveryInv
  <2> SUFFICES ASSUME Init PROVE DeliveryInv
    OBVIOUS
  <2>1. \A n \in Events : ~(n <= graded) /\ delivery[n] = "NONE" /\ n \notin received
    BY BoundsAreNumbers DEF Init, Events
  <2>2. \A w \in Calls : KnowsItsEvent(call[w])
    BY DEF Init, Resting, KnowsItsEvent, Sending
  <2>3. QED
    BY <2>1, <2>2 DEF DeliveryInv
<1>2. DeliveryInv => DeliveriesTellTheTruth
  BY DEF DeliveryInv, DeliveriesTellTheTruth, InHand
<1>3. QED
  BY <1>1, <1>2, TypesAlways, DeliveryStep, PTL DEF Spec
=============================================================================
