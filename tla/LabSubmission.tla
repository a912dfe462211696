--------------------------- MODULE LabSubmission ----------------------------
(***************************************************************************)
(* Handing a lab session in: completeLabSession (app/actions/lab.ts) and   *)
(* `ontrak session complete`, through SessionManager.complete, to the      *)
(* result, the write-up and the family's ledger (LabLedger).               *)
(*                                                                         *)
(* A call works on its own copy of the session row and saves the whole of  *)
(* it; the draft of the write-up, the results and the tickets are tables   *)
(* of their own.  Every read or write of them is a step.  Of the row only  *)
(* completedAt and the instance matter here, LabSessions has the rest.     *)
(***************************************************************************)
EXTENDS LabLedger

CONSTANTS
    WebCalls, CliCalls,     \* the calls in flight: server actions, and CLI commands
    Sids,                   \* the lab sessions
    HasForm,                \* whether their scenario asks for a write-up
    WriteUps,               \* what may be written: [score, submitted], score in tenths
    MachineMarks,           \* what the check script may find: [earned, total, critical]
    Weight,                 \* ticketForm.weight
    PassMark, FormPassMark, \* scenario.passScore and form.passScore
    MaxCalls,               \* bound on the calls made
    MaxCrashes              \* bound on the crashes

Calls == WebCalls \union CliCalls

\* The session key is prefixed, which keeps it out of the peers' namespace.
InAppSessionKey(s) == <<"in-app", s>>
InAppKeys == {InAppSessionKey(s) : s \in Sids}

ASSUME SubmissionBounds == {MaxCalls, MaxCrashes} \subseteq Nat
ASSUME ServerFiles == WebCalls \subseteq Writers /\ InAppKeys \subseteq Keys
ASSUME Marks ==
    /\ {Weight, PassMark, FormPassMark} \subseteq Percents
    /\ HasForm \in BOOLEAN
    /\ WriteUps \subseteq [score : Tenths, submitted : BOOLEAN]
    \* points earned of the points there are; whether a critical objective failed
    /\ MachineMarks \subseteq [earned : Nat, total : Nat \ {0}, critical : BOOLEAN]
    /\ \A m \in MachineMarks : m.earned <= m.total
\* Unfiled is nothing at all: no write-up and no session either.
ASSUME NothingIsNothing ==
    Unfiled \notin [score : Tenths, submitted : BOOLEAN] \union Sids

VARIABLES
    row,        \* row[s]: the session's row
    up,         \* up[s]: its machine is on the hypervisor
    draft,      \* draft[s]: the saved draft of its write-up
    results,    \* results[s]: the reports stored for it
    tickets,    \* tickets[s]: the write-ups stored with their marks
    call,       \* call[c]: what call c is doing
    calls, crashes      \* and the variables of LabLedger

session == <<row, up, draft, results, tickets>>
env     == <<calls, crashes>>
vars    == <<row, up, draft, results, tickets, call, calls, crashes,
             attempt, audited, announced, chained, writer, deliveries>>

-----------------------------------------------------------------------------
(***************************************************************************)
(* Types                                                                   *)
(***************************************************************************)
Blank   == [score |-> 0, submitted |-> FALSE]     \* the mark of no answers at all
Drafts  == WriteUps \union {Unfiled}
Tickets == WriteUps \union {Blank}

Row    == [completed : BOOLEAN, machine : BOOLEAN]
Report == [error : BOOLEAN, resolved : BOOLEAN, score : Tenths]
Failed == [error |-> TRUE, resolved |-> FALSE, score |-> 0]

Pcs == {"idle", "touch", "check", "grade", "graded", "draft", "mark", "finish",
        "result", "ticket", "clear", "destroy", "gone", "file"}

Call == [pc : Pcs, sid : Sids \union {Unfiled}, row : Row,
         values : Drafts,                       \* what the form carried, if anything
         report : Report,
         ticket : Tickets \union {Unfiled}]     \* the write-up with its mark

NoCall == [pc |-> "idle", sid |-> Unfiled, row |-> [completed |-> FALSE, machine |-> FALSE],
           values |-> Unfiled, report |-> Failed, ticket |-> Unfiled]

TypeOK ==
    /\ row \in [Sids -> Row]
    /\ up \in [Sids -> BOOLEAN]
    /\ draft \in [Sids -> Drafts]
    /\ results \in [Sids -> SUBSET Report]
    /\ tickets \in [Sids -> SUBSET Tickets]
    /\ call \in [Calls -> Call]
    /\ calls \in 0..MaxCalls
    /\ crashes \in 0..MaxCrashes
    /\ LedgerTypeOK

\* A session that has its machine, or one whose machine never came.
Init ==
    /\ row \in [Sids -> [completed : {FALSE}, machine : BOOLEAN]]
    /\ up = [s \in Sids |-> row[s].machine]
    /\ draft = [s \in Sids |-> Unfiled]
    /\ results = [s \in Sids |-> {}]
    /\ tickets = [s \in Sids |-> {}]
    /\ call = [c \in Calls |-> NoCall]
    /\ calls = 0 /\ crashes = 0
    /\ LedgerInit

-----------------------------------------------------------------------------
(***************************************************************************)
(* Calls                                                                   *)
(***************************************************************************)
At(c, pc) == call[c].pc = pc
Go(c, pc) == call' = [call EXCEPT ![c].pc = pc]
Return(c) == call' = [call EXCEPT ![c] = NoCall]
Save(c)   == row' = [row EXCEPT ![call[c].sid] = call[c].row]

\* Call c reads session s; its last call is over, the filing of it included.
Begin(c, s, pc, values) ==
    /\ At(c, "idle")
    /\ c \in WebCalls => writer[c].pc = "idle"
    /\ calls < MaxCalls
    /\ calls' = calls + 1
    /\ call' = [call EXCEPT ![c] = [NoCall EXCEPT !.pc = pc, !.sid = s, !.row = row[s],
                                                  !.values = values]]
    /\ UNCHANGED <<session, crashes, ledgerVars>>

\* The session page's heartbeat: touch saves the row it was given.
TouchRead(c, s) == Begin(c, s, "touch", Unfiled)

TouchSave(c) ==
    /\ At(c, "touch")
    /\ Save(c)
    /\ Return(c)
    /\ UNCHANGED <<up, draft, results, tickets, env, ledgerVars>>

(***************************************************************************)
(* The draft: saved, saved for a preview, or saved because the form that   *)
(* was to be handed in lacks a required field.                             *)
(***************************************************************************)
SaveTicketDraft(s, values) ==
    /\ HasForm
    /\ calls < MaxCalls
    /\ calls' = calls + 1
    /\ draft' = [draft EXCEPT ![s] = values]
    /\ UNCHANGED <<row, up, results, tickets, call, crashes, ledgerVars>>

(***************************************************************************)
(* completeLabSession and complete: refused on a completed session.  The   *)
(* portal's form carries the write-up if the scenario asks for one; a CLI  *)
(* command may leave it to the draft.                                      *)
(***************************************************************************)
Complete(c, s, values) ==
    /\ ~row[s].completed
    /\ values # Unfiled => HasForm
    /\ c \in WebCalls /\ HasForm => values # Unfiled
    /\ Begin(c, s, IF row[s].machine THEN "check" ELSE "draft", values)

\* runChecks, without a record of its own.
CheckSave(c) ==
    /\ At(c, "check")
    /\ Save(c)
    /\ Go(c, "grade")
    /\ UNCHANGED <<up, draft, results, tickets, env, ledgerVars>>

(***************************************************************************)
(* evaluate: the score is kept to a tenth of a percent, and the verdict is *)
(* taken on the points themselves, so as not to round them twice.          *)
(***************************************************************************)
Evaluate(m) ==
    [error |-> FALSE, score |-> RoundHalfEven(1000 * m.earned, m.total),
     resolved |-> ~m.critical /\ ClearedPassMark(m.earned, m.total, PassMark)]

Grade(c) ==
    /\ At(c, "grade")
    /\ \E report \in {Failed} \union (IF up[call[c].sid] THEN {Evaluate(m) : m \in MachineMarks}
                                      ELSE {}) :
        call' = [call EXCEPT ![c].pc = "graded", ![c].report = report]
    /\ UNCHANGED <<session, env, ledgerVars>>

GradedSave(c) ==
    /\ At(c, "graded")
    /\ Save(c)
    /\ Go(c, "draft")
    /\ UNCHANGED <<up, draft, results, tickets, env, ledgerVars>>

KeepValues(c) ==
    /\ At(c, "draft")
    /\ draft' = [draft EXCEPT ![call[c].sid] = IF call[c].values = Unfiled THEN @
                                               ELSE call[c].values]
    /\ Go(c, "mark")
    /\ UNCHANGED <<row, up, results, tickets, env, ledgerVars>>

(***************************************************************************)
(* The write-up, as the store has it now, is marked and blended in.  A     *)
(* machine that could not be graded leaves the write-up out of the number. *)
(***************************************************************************)
\* A mutation: blended whether or not the machine could be graded.
BlendAlways(report, ticket) ==
    [report EXCEPT !.score = Blend(report.score, ticket, Weight),
                   !.resolved = ClearedPassMark(Blend(report.score, ticket, Weight), 1000, PassMark)]

\* A mutation: the verdict is the machine's alone.
BlendScoreOnly(report, ticket) ==
    IF report.error THEN report
    ELSE [report EXCEPT !.score = Blend(report.score, ticket, Weight)]

BlendIn(report, ticket) ==
    IF report.error THEN report
    ELSE [report EXCEPT !.score = Blend(report.score, ticket, Weight),
                        !.resolved = @ /\ ticket.submitted
                                       /\ ClearedPassMark(ticket.score, 1000, FormPassMark)]

MarkWriteUp(c) ==
    /\ At(c, "mark")
    /\ LET handed == draft[call[c].sid]
           ticket == IF handed = Unfiled THEN Blank ELSE handed
       IN  call' = [call EXCEPT ![c].pc = "finish", ![c].row.completed = TRUE,
                        ![c].ticket = IF HasForm THEN ticket ELSE Unfiled,
                        ![c].report = IF HasForm THEN BlendIn(@, ticket) ELSE @]
    /\ UNCHANGED <<session, env, ledgerVars>>

\* finishSubmission, await by await.
FinishSave(c) ==
    /\ At(c, "finish")
    /\ Save(c)
    /\ Go(c, "result")
    /\ UNCHANGED <<up, draft, results, tickets, env, ledgerVars>>

\* A mutation: only a pass is kept.
AddPass(c) ==
    /\ At(c, "result")
    /\ results' = [results EXCEPT ![call[c].sid] =
                        @ \union (IF call[c].report.resolved THEN {call[c].report} ELSE {})]
    /\ Go(c, IF HasForm THEN "ticket" ELSE "destroy")
    /\ UNCHANGED <<row, up, draft, tickets, env, ledgerVars>>

\* A mutation: the draft is cleared and the write-up is not kept.
AddResultOnly(c) ==
    /\ At(c, "result")
    /\ results' = [results EXCEPT ![call[c].sid] = @ \union {call[c].report}]
    /\ Go(c, IF HasForm THEN "clear" ELSE "destroy")
    /\ UNCHANGED <<row, up, draft, tickets, env, ledgerVars>>

AddResult(c) ==
    /\ At(c, "result")
    /\ results' = [results EXCEPT ![call[c].sid] = @ \union {call[c].report}]
    /\ Go(c, IF HasForm THEN "ticket" ELSE "destroy")
    /\ UNCHANGED <<row, up, draft, tickets, env, ledgerVars>>

SaveTicket(c) ==
    /\ At(c, "ticket")
    /\ tickets' = [tickets EXCEPT ![call[c].sid] = @ \union {call[c].ticket}]
    /\ Go(c, "clear")
    /\ UNCHANGED <<row, up, draft, results, env, ledgerVars>>

ClearTicketDraft(c) ==
    /\ At(c, "clear")
    /\ draft' = [draft EXCEPT ![call[c].sid] = Unfiled]
    /\ Go(c, "destroy")
    /\ UNCHANGED <<row, up, results, tickets, env, ledgerVars>>

\* The hypervisor's refusal is logged and swallowed.
DestroyInstance(c) ==
    /\ At(c, "destroy")
    /\ up' \in {up, [up EXCEPT ![call[c].sid] = FALSE]}
    /\ call' = [call EXCEPT ![c].pc = "gone", ![c].row.machine = FALSE]
    /\ UNCHANGED <<row, draft, results, tickets, env, ledgerVars>>

\* The portal files what it graded; the CLI files nothing.
GoneSave(c) ==
    /\ At(c, "gone")
    /\ Save(c)
    /\ IF c \in WebCalls /\ ~call[c].report.error THEN Go(c, "file") ELSE Return(c)
    /\ UNCHANGED <<up, draft, results, tickets, env, ledgerVars>>

-----------------------------------------------------------------------------
(***************************************************************************)
(* Filing                                                                  *)
(***************************************************************************)

\* fileCompletion, unless the lab's catalogue has not been imported.
FileCompletion(c) ==
    /\ At(c, "file")
    /\ \/ Deliver(c, InAppSessionKey(call[c].sid), ScorePercent(call[c].report.score, 1000),
                         PassMark)
       \/ UNCHANGED ledgerVars
    /\ Return(c)
    /\ UNCHANGED <<session, env>>

\* POST /api/v1/lab/completions, from a peer that may have sent it before.
PeerReports(p, k, m) ==
    /\ Deliver(p, k, ScorePercent(Evaluate(m).score, 1000), PassMark)
    /\ UNCHANGED <<session, call, env>>

Filing(w) ==
    /\ FilingStep(w)
    /\ UNCHANGED <<session, call, env>>

-----------------------------------------------------------------------------
\* The server stops: its calls, and the filing for peers, end where they are.
WebCrash ==
    /\ crashes < MaxCrashes
    /\ crashes' = crashes + 1
    /\ call' = [c \in Calls |-> IF c \in WebCalls THEN NoCall ELSE call[c]]
    /\ LedgerRestart
    /\ UNCHANGED <<session, calls>>

\* A CLI command is interrupted.
CliCrash(c) ==
    /\ c \in CliCalls /\ ~At(c, "idle")
    /\ crashes < MaxCrashes
    /\ crashes' = crashes + 1
    /\ Return(c)
    /\ UNCHANGED <<session, calls, ledgerVars>>

Next ==
    \/ \E c \in Calls :
        \/ \E s \in Sids : TouchRead(c, s) \/ \E values \in Drafts : Complete(c, s, values)
        \/ TouchSave(c) \/ CheckSave(c) \/ Grade(c) \/ GradedSave(c) \/ KeepValues(c)
        \/ MarkWriteUp(c) \/ FinishSave(c) \/ AddResult(c) \/ SaveTicket(c)
        \/ ClearTicketDraft(c) \/ DestroyInstance(c) \/ GoneSave(c) \/ FileCompletion(c)
        \/ CliCrash(c)
    \/ \E s \in Sids, values \in WriteUps : SaveTicketDraft(s, values)
    \/ \E p \in Writers \ WebCalls, k \in Keys \ InAppKeys, m \in MachineMarks :
            PeerReports(p, k, m)
    \/ \E w \in Writers : Filing(w)
    \/ WebCrash

Spec == Init /\ [][Next]_vars

-----------------------------------------------------------------------------
(***************************************************************************)
(* Properties                                                              *)
(***************************************************************************)

(***************************************************************************)
(* complete: "a good write-up must not manufacture a passing score for an  *)
(* unverified machine", whatever other submission or draft is under way:   *)
(* what is stored for a machine that could not be graded is a zero.        *)
(***************************************************************************)
UngradedNeverPasses ==
    \A s \in Sids : \A r \in results[s] : r.error => ~r.resolved /\ r.score = 0

(***************************************************************************)
(* "The fix nobody recorded" is not a pass: while no process is lost, a    *)
(* stored pass of a scenario with a form has a write-up that clears the    *)
(* form's mark in the table of tickets, or on its way there.               *)
(***************************************************************************)
Clears(t) == t # Unfiled /\ t.submitted /\ ClearedPassMark(t.score, 1000, FormPassMark)

ResolvedIsDocumented ==
    HasForm /\ crashes = 0 =>
        \A s \in Sids : \A r \in results[s] : r.resolved =>
            \/ \E t \in tickets[s] : Clears(t)
            \/ \E c \in Calls : At(c, "ticket") /\ call[c].sid = s /\ Clears(call[c].ticket)

(***************************************************************************)
(* A student's draft only goes away once a write-up of the session has     *)
(* been stored with its mark: a submission that fails, or whose process is *)
(* lost, leaves it there.                                                  *)
(***************************************************************************)
DraftIsKept ==
    [][\A s \in Sids :
        draft[s] # Unfiled /\ draft'[s] = Unfiled => tickets[s] # {}]_draft

(***************************************************************************)
(* The family's copy is the lab's result: whatever calls and crashes there *)
(* are, an attempt filed for a session of this app carries the score of a  *)
(* report the lab has stored for that session, of a machine it graded.     *)
(***************************************************************************)
Backed(s, score) == \E r \in results[s] : ~r.error /\ ScorePercent(r.score, 1000) = score

FiledIsStored ==
    \A s \in Sids :
        attempt[InAppSessionKey(s)] # Unfiled => Backed(s, attempt[InAppSessionKey(s)].score)

\* FiledOnce, of LabLedger, holds of the whole as well.

-----------------------------------------------------------------------------
(***************************************************************************)
(* Why they hold.  A report is an honest one from the moment it is made; a *)
(* call that is past addResult has its report in the table, which nothing  *)
(* is ever taken out of, and only then files it.                           *)
(***************************************************************************)
PastResult == {"ticket", "clear", "destroy", "gone", "file"}

Honest(r) == r.error => ~r.resolved /\ r.score = 0

CallInv(c) ==
    /\ call[c].pc # "idle" => call[c].sid \in Sids
    /\ Honest(call[c].report)
    /\ call[c].pc \in PastResult => call[c].report \in results[call[c].sid]
    /\ call[c].pc = "file" => c \in WebCalls /\ ~call[c].report.error
    /\ call[c].pc = "ticket" \/ (call[c].pc \in {"finish", "result"} /\ HasForm) =>
            call[c].ticket # Unfiled
    /\ call[c].pc = "clear" => tickets[call[c].sid] # {}

WriterInv(w) ==
    \A s \in Sids : writer[w].key = InAppSessionKey(s) => Backed(s, writer[w].score)

SubmissionInv ==
    /\ TypeOK /\ LedgerInv
    /\ \A c \in Calls : CallInv(c)
    /\ \A w \in Writers : WriterInv(w)
    /\ UngradedNeverPasses
    /\ FiledIsStored

\* A verdict that a call carries to the tables goes with its write-up.
Documented(c) ==
    HasForm /\ call[c].pc \in {"finish", "result", "ticket"} /\ call[c].report.resolved =>
        Clears(call[c].ticket)

DocumentedInv == SubmissionInv /\ ResolvedIsDocumented /\ \A c \in Calls : Documented(c)
=============================================================================
