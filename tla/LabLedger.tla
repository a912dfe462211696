----------------------------- MODULE LabLedger ------------------------------
(***************************************************************************)
(* recordLabCompletion (src/src/lib/lab-completion-record.ts): the one     *)
(* write that files a finished lab session, whether the portal graded it   *)
(* itself or a peer lab reported it over HTTP.                             *)
(*                                                                         *)
(* A delivery looks for the attempt, resolves the learner and the task,    *)
(* inserts the attempt under the unique labSessionId, and only then        *)
(* audits, announces and certifies it.  Every one of these is an await, so *)
(* deliveries of one session overlap; a peer that got no answer delivers   *)
(* again.  Scores are whole percents, the scale of Attempt.score.          *)
(***************************************************************************)
EXTENDS LabScoring

CONSTANTS
    Writers,        \* the requests that may be filing at one time
    Keys,           \* the values of labSessionId
    Unfiled,        \* no attempt under a key
    MaxDeliveries   \* bound on the deliveries made

Attempts == [score : Percents, certificate : BOOLEAN]

ASSUME UnfiledIsNoAttempt == Unfiled \notin Attempts
ASSUME UnfiledIsNoKey == Unfiled \notin Keys
ASSUME MaxDeliveriesIsNat == MaxDeliveries \in Nat

VARIABLES
    attempt,        \* attempt[k]: the row whose labSessionId is k, or Unfiled
    audited,        \* audited[k]: audit entries attempt.lab_completion of k
    announced,      \* announced[k]: gradings of k sent to the webhook and the platform
    chained,        \* chained[k]: certificates of k sent to be signed and stored
    writer,         \* writer[w]: what request w is filing and how far it is
    deliveries      \* deliveries made so far

ledgerVars == <<attempt, audited, announced, chained, writer, deliveries>>

WriterPcs == {"idle", "find", "resolve", "create", "audit", "announce", "chain"}
Writing   == [pc : WriterPcs, key : Keys \union {Unfiled}, score : Percents, mark : Percents]
Resting   == [pc |-> "idle", key |-> Unfiled, score |-> 0, mark |-> 0]

LedgerTypeOK ==
    /\ attempt \in [Keys -> Attempts \union {Unfiled}]
    /\ audited \in [Keys -> Nat]
    /\ announced \in [Keys -> Nat]
    /\ chained \in [Keys -> Nat]
    /\ writer \in [Writers -> Writing]
    /\ \A w \in Writers : writer[w].pc # "idle" => writer[w].key \in Keys
    /\ deliveries \in 0..MaxDeliveries

LedgerInit ==
    /\ attempt = [k \in Keys |-> Unfiled]
    /\ audited = [k \in Keys |-> 0]
    /\ announced = [k \in Keys |-> 0]
    /\ chained = [k \in Keys |-> 0]
    /\ writer = [w \in Writers |-> Resting]
    /\ deliveries = 0

Writes(w, pc) == writer[w].pc = pc
Move(w, pc)   == writer' = [writer EXCEPT ![w].pc = pc]
Answer(w)     == writer' = [writer EXCEPT ![w] = Resting]

\* A completion of session k arrives, for the first time or again.
Deliver(w, k, score, mark) ==
    /\ Writes(w, "idle")
    /\ deliveries < MaxDeliveries
    /\ deliveries' = deliveries + 1
    /\ writer' = [writer EXCEPT ![w] = [pc |-> "find", key |-> k, score |-> score, mark |-> mark]]
    /\ UNCHANGED <<attempt, audited, announced, chained>>

\* Idempotency first: an attempt that is there is the answer.
Find(w) ==
    /\ Writes(w, "find")
    /\ IF attempt[writer[w].key] = Unfiled THEN Move(w, "resolve") ELSE Answer(w)
    /\ UNCHANGED <<attempt, audited, announced, chained, deliveries>>

(***************************************************************************)
(* The learner or the scenario is not known, or the scenario is not        *)
(* tagged `lab`: refused.  These rows belong to others, so either answer.  *)
(***************************************************************************)
Resolve(w) ==
    /\ Writes(w, "resolve")
    /\ Move(w, "create") \/ Answer(w)
    /\ UNCHANGED <<attempt, audited, announced, chained, deliveries>>

\* clearedPassMark decides on the certificate, which is stored with the attempt.
Graded(w) ==
    [score |-> writer[w].score, certificate |-> writer[w].score >= writer[w].mark]

\* A mutation: labSessionId is not unique, and the later delivery wins.
CreateAnyway(w) ==
    /\ Writes(w, "create")
    /\ attempt' = [attempt EXCEPT ![writer[w].key] = Graded(w)]
    /\ Move(w, "audit")
    /\ UNCHANGED <<audited, announced, chained, deliveries>>

(***************************************************************************)
(* The insert and its check rows are one transaction.  It fails as a whole *)
(* if the database does, and on P2002 the row that won is the answer.      *)
(***************************************************************************)
Create(w) ==
    /\ Writes(w, "create")
    /\ attempt[writer[w].key] = Unfiled
    /\ attempt' = [attempt EXCEPT ![writer[w].key] = Graded(w)]
    /\ Move(w, "audit")
    /\ UNCHANGED <<audited, announced, chained, deliveries>>

NotCreated(w) ==
    /\ Writes(w, "create")
    /\ Answer(w)
    /\ UNCHANGED <<attempt, audited, announced, chained, deliveries>>

\* recordAudit swallows its own failure, which is not followed further.
Audit(w) ==
    /\ Writes(w, "audit")
    /\ audited' = [audited EXCEPT ![writer[w].key] = @ + 1]
    /\ Move(w, "announce")
    /\ UNCHANGED <<attempt, announced, chained, deliveries>>

\* announceGraded never fails the submission; only a pass goes down the chain.
AnnounceGraded(w) ==
    /\ Writes(w, "announce")
    /\ announced' = [announced EXCEPT ![writer[w].key] = @ + 1]
    /\ IF Graded(w).certificate THEN Move(w, "chain") ELSE Answer(w)
    /\ UNCHANGED <<attempt, audited, chained, deliveries>>

SendCertificateDownChain(w) ==
    /\ Writes(w, "chain")
    /\ chained' = [chained EXCEPT ![writer[w].key] = @ + 1]
    /\ Answer(w)
    /\ UNCHANGED <<attempt, audited, announced, deliveries>>

\* The server stops: whatever was being filed is filed no further.
LedgerRestart ==
    /\ writer' = [w \in Writers |-> Resting]
    /\ UNCHANGED <<attempt, audited, announced, chained, deliveries>>

FilingStep(w) ==
    \/ Find(w) \/ Resolve(w) \/ Create(w) \/ NotCreated(w)
    \/ Audit(w) \/ AnnounceGraded(w) \/ SendCertificateDownChain(w)

LedgerNext ==
    \/ \E w \in Writers :
        \/ \E k \in Keys, score, mark \in Percents : Deliver(w, k, score, mark)
        \/ FilingStep(w)
    \/ LedgerRestart

LedgerSpec == LedgerInit /\ [][LedgerNext]_ledgerVars

-----------------------------------------------------------------------------
(***************************************************************************)
(* recordLabCompletion, "IDEMPOTENT BY `sessionId`": overlapping requests, *)
(* a peer's retries and restarts of the server file one attempt, which is  *)
(* never rewritten and is announced, and certified, at most once.          *)
(***************************************************************************)
Promise == INSTANCE Ledger WITH filed <- attempt

FiledOnce == Promise!Spec

(***************************************************************************)
(* Why it holds: whoever inserted the attempt of a session is the only one *)
(* between the insert and the end, nothing was announced or sent before,   *)
(* and what is sent is what was filed.                                     *)
(***************************************************************************)
Filed(w) == writer[w].pc \in {"audit", "announce", "chain"}

NothingBeforeFiling ==
    \A k \in Keys : attempt[k] = Unfiled => announced[k] = 0 /\ chained[k] = 0

FilerIsFirst ==
    \A w \in Writers : Filed(w) =>
        /\ attempt[writer[w].key] = Graded(w)
        /\ chained[writer[w].key] = 0
        /\ IF Writes(w, "chain") THEN Graded(w).certificate
                                 ELSE announced[writer[w].key] = 0

OneFiler ==
    \A v, w \in Writers : v # w /\ Filed(v) /\ Filed(w) => writer[v].key # writer[w].key

LedgerInv == LedgerTypeOK /\ NothingBeforeFiling /\ FilerIsFirst /\ OneFiler
=============================================================================
