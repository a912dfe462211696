------------------------------ MODULE Attempts ------------------------------
(***************************************************************************)
(* The attempts of one student at one simulated scenario, from the first   *)
(* click to what a webhook consumer is told of the grade:                  *)
(* src/src/app/actions/student.ts, regradeAttempt of actions/instructor.ts,*)
(* sweepExpiredAttempts of lib/scenarios.ts, lib/certificate-rules.ts and  *)
(* lib/webhook-delivery.ts.                                                *)
(*                                                                         *)
(* Every call reads the attempt, decides on the copy, and writes columns   *)
(* later; no write asks whether the row is still the one that was read.    *)
(* A grading is one transaction; its announcement follows it, and has a    *)
(* row of its own that is made before the consumer is asked.               *)
(***************************************************************************)
EXTENDS Integers, FiniteSets

CONSTANTS
    Calls,          \* the requests that can be in progress at once
    Ids,            \* the ids an attempt may get
    Works,          \* the states of work a console can send
    Opening,        \* the scenario's opening state
    PassesIn,       \* PassesIn[r]: the work that passes the r-th set of checks
    None,           \* no work, no attempt, no event
    TimeLimit,      \* the time an attempt is given
    MaxAttempts,    \* the assignment's cap, 0 for none
    MaxTime,        \* bound on the clock
    MaxRubric,      \* bound on the edits of the scenario's checks
    MaxEvents,      \* bound on the gradings
    MaxCalls,       \* bound on the requests made
    MaxStops        \* bound on the stops of the server

Rubrics == 0..MaxRubric
Events  == 1..MaxEvents

ASSUME OpeningIsWork == Opening \in Works
ASSUME NoneIsNothing == None \notin Nat \union Ids \union Works
ASSUME BoundsAreNumbers == {TimeLimit, MaxTime, MaxRubric, MaxEvents} \subseteq Nat
ASSUME PassesInIsTotal == PassesIn \in [Rubrics -> SUBSET Works]

VARIABLES
    attempt,        \* attempt[a]: the row of attempt a
    rubric,         \* the scenario's present checks
    call,           \* call[w]: the request w is in, and what it has read
    delivery,       \* delivery[n]: the WebhookDelivery row of the n-th event
    received,       \* the events the consumer has taken
    graded,         \* how many gradings there were: the events minted
    now,            \* the clock
    crossed,        \* history: attempts written over a row newer than was read
    overlapped,     \* history: two starts were in progress at once
    lost,           \* history: events whose call was cut short
    untold,         \* history: events whose call ended without asking the consumer
    spent

vars == <<attempt, rubric, call, delivery, received, graded, now,
          crossed, overlapped, lost, untold, spent>>

Statuses == {"NONE", "IN_PROGRESS", "GRADED", "EXPIRED", "ABANDONED"}
Rows == [status : Statuses, snapshot : Works, score : {"none", "pass", "fail"},
         scored : Works \union {None}, certificate : {"none", "live", "revoked"},
         expiresAt : Nat]
NoRow == [status |-> "NONE", snapshot |-> Opening, score |-> "none", scored |-> None,
          certificate |-> "none", expiresAt |-> 0]

Pcs == {"idle", "count", "create", "write", "grade", "row", "send", "settle"}
Ops == {"start", "autosave", "restart", "abandon", "submit", "regrade", "retry"}
InCall == [pc : Pcs, op : Ops, a : Ids \union {None}, read : Rows, write : Rows,
           event : Events \union {None}, due : SUBSET Events, ok : BOOLEAN]
Resting == [pc |-> "idle", op |-> "retry", a |-> None, read |-> NoRow, write |-> NoRow,
            event |-> None, due |-> {}, ok |-> FALSE]

DeliveryStatuses == {"NONE", "PENDING", "DELIVERED", "FAILED"}

TypeOK ==
    /\ attempt \in [Ids -> Rows]
    /\ rubric \in Rubrics
    /\ call \in [Calls -> InCall]
    /\ delivery \in [Events -> DeliveryStatuses]
    /\ received \subseteq Events /\ lost \subseteq Events /\ untold \subseteq Events
    /\ graded \in 0..MaxEvents
    /\ now \in 0..MaxTime
    /\ crossed \subseteq Ids /\ overlapped \in BOOLEAN

Init ==
    /\ attempt = [a \in Ids |-> NoRow]
    /\ rubric = 0
    /\ call = [w \in Calls |-> Resting]
    /\ delivery = [n \in Events |-> "NONE"]
    /\ received = {} /\ lost = {} /\ untold = {} /\ crossed = {}
    /\ graded = 0 /\ now = 0
    /\ overlapped = FALSE
    /\ spent = [calls |-> 0, stops |-> 0]

InPc(w, pc)  == call[w].pc = pc
Becomes(w, c) == call' = [call EXCEPT ![w] = c]
Goes(w, pc)  == Becomes(w, [call[w] EXCEPT !.pc = pc])
table == <<attempt, rubric>>
outside == <<delivery, received, lost, untold>>

MayCall(w) ==
    /\ InPc(w, "idle")
    /\ spent.calls < MaxCalls
    /\ spent' = [spent EXCEPT !.calls = @ + 1]

-----------------------------------------------------------------------------
(***************************************************************************)
(* startAttempt.                                                           *)
(***************************************************************************)
IsExpired(row) == row.status = "IN_PROGRESS" /\ row.expiresAt <= now
IsRunning(row) == row.status = "IN_PROGRESS" /\ ~IsExpired(row)
Starting(w)    == call[w].op = "start" /\ ~InPc(w, "idle")

\* A mutation: a running attempt is looked for among the ones that are over.
StartReadsAny(w) ==
    /\ MayCall(w)
    /\ Becomes(w, [Resting EXCEPT !.pc = "count", !.op = "start"])
    /\ overlapped' = (overlapped \/ \E v \in Calls \ {w} : Starting(v))
    /\ UNCHANGED <<table, outside, graded, now, crossed>>

\* A running attempt is resumed, which is all.
StartReads(w) ==
    /\ MayCall(w)
    /\ ~\E a \in Ids : IsRunning(attempt[a])
    /\ Becomes(w, [Resting EXCEPT !.pc = "count", !.op = "start"])
    /\ overlapped' = (overlapped \/ \E v \in Calls \ {w} : Starting(v))
    /\ UNCHANGED <<table, outside, graded, now, crossed>>

Used == Cardinality({a \in Ids : attempt[a].status \in {"GRADED", "EXPIRED"}})

StartCounts(w) ==
    /\ InPc(w, "count")
    /\ IF MaxAttempts > 0 /\ Used >= MaxAttempts
       THEN Becomes(w, Resting) ELSE Goes(w, "create")
    /\ UNCHANGED <<table, outside, graded, now, crossed, overlapped, spent>>

\* createAttempt.
StartCreates(w) ==
    /\ InPc(w, "create")
    /\ \E a \in Ids :
        /\ attempt[a] = NoRow
        /\ attempt' = [attempt EXCEPT ![a] =
                          [NoRow EXCEPT !.status = "IN_PROGRESS", !.expiresAt = now + TimeLimit]]
    /\ Becomes(w, Resting)
    /\ UNCHANGED <<rubric, outside, graded, now, crossed, overlapped, spent>>

-----------------------------------------------------------------------------
(***************************************************************************)
(* The calls that read a running attempt and update some of its columns.   *)
(***************************************************************************)
Reads(w, a, op, write) ==
    /\ MayCall(w)
    /\ attempt[a].status = "IN_PROGRESS"
    /\ Becomes(w, [Resting EXCEPT !.pc = "write", !.op = op, !.a = a,
                                  !.read = attempt[a], !.write = write])
    /\ UNCHANGED <<table, outside, graded, now, crossed, overlapped>>

AutosaveReads(w, a, work) == Reads(w, a, "autosave", [attempt[a] EXCEPT !.snapshot = work])
RestartReads(w, a)        == Reads(w, a, "restart", [attempt[a] EXCEPT !.snapshot = Opening])
AbandonReads(w, a)        == Reads(w, a, "abandon", [attempt[a] EXCEPT !.status = "ABANDONED"])

Cross(w) == crossed' = IF attempt[call[w].a] # call[w].read
                       THEN crossed \union {call[w].a} ELSE crossed

\* Only the columns the call names are written.
Writes(w) ==
    /\ InPc(w, "write")
    /\ attempt' = [attempt EXCEPT ![call[w].a] =
                      IF call[w].op = "abandon"
                      THEN [@ EXCEPT !.status = call[w].write.status]
                      ELSE [@ EXCEPT !.snapshot = call[w].write.snapshot]]
    /\ Cross(w)
    /\ Becomes(w, Resting)
    /\ UNCHANGED <<rubric, outside, graded, now, overlapped, spent>>

\* sweepExpiredAttempts: one updateMany, with its condition in the WHERE.
SweepExpired ==
    /\ \E a \in Ids : IsExpired(attempt[a])
    /\ attempt' = [a \in Ids |-> IF IsExpired(attempt[a])
                                 THEN [attempt[a] EXCEPT !.status = "EXPIRED"] ELSE attempt[a]]
    /\ UNCHANGED <<rubric, call, outside, graded, now, crossed, overlapped, spent>>

-----------------------------------------------------------------------------
(***************************************************************************)
(* submitAttempt and regradeAttempt: the snapshot is graded against the    *)
(* checks as they are when both are read.                                  *)
(***************************************************************************)
\* A mutation: a failing grade leaves the certificate as it is.
CertificateKept(passed, stored) == IF passed THEN "live" ELSE stored

\* certificateAction and certificatePatchFor.
CertificateAfter(passed, stored) ==
    IF passed THEN "live" ELSE IF stored = "live" THEN "revoked" ELSE stored

Graded(row, status) ==
    LET passed == row.snapshot \in PassesIn[rubric] IN
    [status |-> status, snapshot |-> row.snapshot, scored |-> row.snapshot,
     score |-> IF passed THEN "pass" ELSE "fail",
     certificate |-> CertificateAfter(passed, row.certificate), expiresAt |-> row.expiresAt]

GradeReads(w, a, op, status) ==
    /\ MayCall(w)
    /\ Becomes(w, [Resting EXCEPT !.pc = "grade", !.op = op, !.a = a,
                                  !.read = attempt[a], !.write = Graded(attempt[a], status)])
    /\ UNCHANGED <<table, outside, graded, now, crossed, overlapped>>

SubmitReads(w, a) ==
    /\ attempt[a].status = "IN_PROGRESS"
    /\ GradeReads(w, a, "submit", IF IsExpired(attempt[a]) THEN "EXPIRED" ELSE "GRADED")

\* canRegrade and regradedStatus.
RegradeReads(w, a) ==
    /\ attempt[a].status \in {"GRADED", "EXPIRED"}
    /\ GradeReads(w, a, "regrade", attempt[a].status)

\* What the transaction writes over the row as it is by now: the certificate
\* only if the grading was to change it, and never the snapshot.
GradedOver(row, c) ==
    [status |-> c.write.status, snapshot |-> row.snapshot, scored |-> c.write.scored,
     score |-> c.write.score, expiresAt |-> row.expiresAt,
     certificate |-> IF c.write.certificate = c.read.certificate
                     THEN row.certificate ELSE c.write.certificate]

Grades(w) ==
    /\ InPc(w, "grade")
    /\ graded < MaxEvents
    /\ graded' = graded + 1
    /\ attempt' = [attempt EXCEPT ![call[w].a] = GradedOver(attempt[call[w].a], call[w])]
    /\ Becomes(w, [Resting EXCEPT !.pc = "row", !.op = call[w].op, !.event = graded'])
    /\ Cross(w)
    /\ UNCHANGED <<rubric, outside, now, overlapped, spent>>

-----------------------------------------------------------------------------
(***************************************************************************)
(* announceGraded and deliverGradedEvent: the row, the request, and what   *)
(* came back.                                                              *)
(***************************************************************************)
\* A mutation: the row is made with its outcome, after the request.
MakesNoRow(w) ==
    /\ InPc(w, "row")
    /\ Goes(w, "send")
    /\ UNCHANGED <<table, outside, graded, now, crossed, overlapped, spent>>

MakesRow(w) ==
    /\ InPc(w, "row")
    /\ delivery' = [delivery EXCEPT ![call[w].event] = "PENDING"]
    /\ Goes(w, "send")
    /\ UNCHANGED <<table, received, lost, untold, graded, now, crossed, overlapped, spent>>

\* No row and no request: no consumer is configured, the audit or the reading
\* of the certificate threw before the delivery, or the upsert threw, whether
\* its row was made or not, which announceGraded catches and logs.
TellsNobody(w) ==
    /\ InPc(w, "row")
    /\ delivery' \in {delivery, [delivery EXCEPT ![call[w].event] = "PENDING"]}
    /\ untold' = untold \union {call[w].event}
    /\ Becomes(w, Resting)
    /\ UNCHANGED <<table, received, lost, graded, now, crossed, overlapped, spent>>

\* send: the consumer takes the event and says so, or its answer is no or
\* does not come, whether it took the event or not.
Sends(w) ==
    /\ InPc(w, "send")
    /\ \E ok \in BOOLEAN :
        /\ received' \in IF ok THEN {received \union {call[w].event}}
                         ELSE {received, received \union {call[w].event}}
        /\ Becomes(w, [call[w] EXCEPT !.pc = "settle", !.ok = ok])
    /\ UNCHANGED <<table, delivery, lost, untold, graded, now, crossed, overlapped, spent>>

\* The next row of a retry, or the end of the call.
NextOf(c) ==
    IF c.due = {} THEN {Resting}
    ELSE {[c EXCEPT !.pc = "send", !.event = n, !.due = @ \ {n}, !.ok = FALSE] : n \in c.due}

\* settle; an update that fails is logged, and that is all.
Settles(w) ==
    /\ InPc(w, "settle")
    /\ \/ /\ delivery' = [delivery EXCEPT ![call[w].event] =
                             IF call[w].ok THEN "DELIVERED" ELSE "FAILED"]
          /\ UNCHANGED lost
       \/ /\ lost' = lost \union {call[w].event}
          /\ UNCHANGED delivery
    /\ \E c \in NextOf(call[w]) : Becomes(w, c)
    /\ UNCHANGED <<table, received, untold, graded, now, crossed, overlapped, spent>>

\* retryPendingDeliveries: one listing, worked through.
RetryReads(w) ==
    /\ MayCall(w)
    /\ LET due == {n \in Events : delivery[n] \in {"PENDING", "FAILED"}} IN
        /\ due # {}
        /\ \E c \in NextOf([Resting EXCEPT !.due = due]) : Becomes(w, c)
    /\ UNCHANGED <<table, outside, graded, now, crossed, overlapped>>

-----------------------------------------------------------------------------
EditChecks ==
    /\ rubric < MaxRubric
    /\ rubric' = rubric + 1
    /\ UNCHANGED <<attempt, call, outside, graded, now, crossed, overlapped, spent>>

Tick ==
    /\ now < MaxTime
    /\ now' = now + 1
    /\ UNCHANGED <<table, call, outside, graded, crossed, overlapped, spent>>

StopServer ==
    /\ spent.stops < MaxStops
    /\ spent' = [spent EXCEPT !.stops = @ + 1]
    /\ call' = [w \in Calls |-> Resting]
    /\ lost' = lost \union ({call[w].event : w \in Calls} \ {None})
    /\ UNCHANGED <<table, delivery, received, untold, graded, now, crossed, overlapped>>

Begins(w) ==
    \/ StartReads(w) \/ RetryReads(w)
    \/ \E a \in Ids : RestartReads(w, a) \/ AbandonReads(w, a) \/ SubmitReads(w, a) \/ RegradeReads(w, a)
    \/ \E a \in Ids, work \in Works : AutosaveReads(w, a, work)

GoesOn(w) ==
    \/ StartCounts(w) \/ StartCreates(w) \/ Writes(w) \/ Grades(w)
    \/ MakesRow(w) \/ TellsNobody(w) \/ Sends(w) \/ Settles(w)

Next ==
    \/ \E w \in Calls : Begins(w) \/ GoesOn(w)
    \/ SweepExpired \/ EditChecks \/ Tick \/ StopServer

Spec == Init /\ [][Next]_vars

-----------------------------------------------------------------------------
(***************************************************************************)
(* A grade is of the work that is stored with it, an attempt that has one  *)
(* is graded or expired and is never taken up or given up again, and "a    *)
(* certificate cannot outlive its own result": unless two calls crossed on *)
(* the attempt.                                                            *)
(***************************************************************************)
GradeIsOfItsWork ==
    \A a \in Ids \ crossed :
        LET row == attempt[a] IN
        /\ row.score # "none" => row.status \in {"GRADED", "EXPIRED"} /\ row.scored = row.snapshot
        /\ row.certificate = "live" <=> row.score = "pass"

(***************************************************************************)
(* "Resume it rather than burning a second clock": the student never has   *)
(* two attempts running, unless two starts overlapped.                     *)
(***************************************************************************)
OneClock ==
    overlapped \/ Cardinality({a \in Ids : IsRunning(attempt[a])}) <= 1

(***************************************************************************)
(* "We told your consumer is a claim they can check": a row that says      *)
(* DELIVERED names an event the consumer took, only what was graded is     *)
(* ever sent and none of it before it has a row, and a grading whose       *)
(* calls are over has a row that says how it ended: unless one of them was *)
(* cut short, or it ended before the consumer was asked. The consumer has  *)
(* nothing of the latter without a row either.                             *)
(***************************************************************************)
InHand(n) == \E w \in Calls : call[w].event = n \/ n \in call[w].due

DeliveriesTellTheTruth ==
    \A n \in Events :
        /\ delivery[n] = "DELIVERED" => n \in received
        /\ n \in received => n <= graded /\ delivery[n] # "NONE"
        /\ n <= graded /\ ~InHand(n) /\ n \notin lost \union untold
              => delivery[n] \in {"DELIVERED", "FAILED"}
=============================================================================
