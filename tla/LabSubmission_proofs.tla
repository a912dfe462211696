------------------------ MODULE LabSubmission_proofs ------------------------
(***************************************************************************)
(* Proofs about LabScoring, LabLedger and LabSubmission, for any calls,    *)
(* sessions, write-ups, marks, requests and keys and any number of calls,  *)
(* deliveries and crashes: what a lab grade is, that the ledger files a    *)
(* completion once, the types, that what is filed was stored, and that     *)
(* the whole still keeps the ledger's promise.                             *)
(***************************************************************************)
EXTENDS LabSubmission, TLAPS

-----------------------------------------------------------------------------
(***************************************************************************)
(* The arithmetic of a lab grade, for every mark and every weight.         *)
(***************************************************************************)

(***************************************************************************)
(* A larger factor makes a larger product.                                 *)
(***************************************************************************)
LEMMA TimesMonotone ==
    ASSUME NEW a \in Int, NEW b \in Int, NEW c \in Nat, a <= b
    PROVE  c * a <= c * b
OBVIOUS

(***************************************************************************)
(* What division by a positive number leaves.                              *)
(***************************************************************************)
LEMMA Division ==
    ASSUME NEW n \in Int, NEW d \in Int, d > 0
    PROVE  /\ n \div d \in Int /\ n % d \in Int
           /\ 0 <= n % d /\ n % d < d
           /\ n = d * (n \div d) + (n % d)
<1>1. n \div d \in Int /\ n % d \in Int
    OBVIOUS
<1>2. 0 <= n % d
    OBVIOUS
<1>3. n % d < d
    OBVIOUS
<1>4. n = d * (n \div d) + (n % d)
    OBVIOUS
<1> QED BY <1>1, <1>2, <1>3, <1>4

(***************************************************************************)
(* roundHalfEven stays between the whole numbers around the exact value.   *)
(***************************************************************************)
LEMMA RoundWithin ==
    ASSUME NEW n \in Int, NEW d \in Nat, d > 0, NEW lo \in Int, NEW hi \in Int,
           d * lo <= n, n <= d * hi
    PROVE  /\ RoundHalfEven(n, d) \in Int
           /\ lo <= RoundHalfEven(n, d) /\ RoundHalfEven(n, d) <= hi
<1> DEFINE q == n \div d
           r == n % d
<1>1. q \in Int /\ r \in Int /\ 0 <= r /\ r < d /\ n = d * q + r
    BY Division
<1>2. RoundHalfEven(n, d) = q \/ (RoundHalfEven(n, d) = q + 1 /\ 2 * r >= d)
    BY <1>1 DEF RoundHalfEven
<1> HIDE DEF q, r
<1>3. q >= lo
  <2> SUFFICES ASSUME q + 1 <= lo PROVE FALSE
    BY <1>1
  <2>1. d * (q + 1) <= d * lo
    BY <1>1, TimesMonotone
  <2>2. d * (q + 1) = d * q + d
    BY <1>1
  <2> QED BY <1>1, <2>1, <2>2
<1>4. q <= hi
  <2> SUFFICES ASSUME hi + 1 <= q PROVE FALSE
    BY <1>1
  <2>1. d * (hi + 1) <= d * q
    BY <1>1, TimesMonotone
  <2>2. d * (hi + 1) = d * hi + d
    OBVIOUS
  <2> QED BY <1>1, <2>1, <2>2
<1>5. q = hi => r = 0
  <2> SUFFICES ASSUME q = hi PROVE r = 0
    OBVIOUS
  <2> QED BY <1>1
<1>6. CASE RoundHalfEven(n, d) = q
    BY <1>1, <1>3, <1>4, <1>6
<1>7. CASE RoundHalfEven(n, d) = q + 1 /\ 2 * r >= d
  <2>1. q # hi
     BY <1>1, <1>5, <1>7
  <2> QED BY <1>1, <1>3, <1>4, <1>7, <2>1
<1> QED BY <1>2, <1>6, <1>7

(***************************************************************************)
(* scoring.ts evaluate: whatever the objectives weigh, points earned of    *)
(* points there are make a mark.                                           *)
(***************************************************************************)
LEMMA PointsAreAMark ==
    ASSUME NEW earned \in Nat, NEW total \in Nat, total > 0, earned <= total
    PROVE  RoundHalfEven(1000 * earned, total) \in Tenths
<1> DEFINE exact == 1000 * earned
           least == 0
           most  == 1000
<1>1. exact \in Int /\ total * least <= exact /\ exact <= total * most
    OBVIOUS
<1>2. least \in Int /\ most \in Int
    OBVIOUS
<1> HIDE DEF exact, least, most
<1>3. /\ RoundHalfEven(exact, total) \in Int
      /\ least <= RoundHalfEven(exact, total) /\ RoundHalfEven(exact, total) <= most
    BY <1>1, <1>2, RoundWithin
<1> QED BY <1>3 DEF Tenths, exact, least, most

(***************************************************************************)
(* tickets.ts blend: the grade is a mark, between the machine's mark and   *)
(* the write-up's, whatever weight a scenario declares.                    *)
(***************************************************************************)
THEOREM BlendIsBetween ==
    ASSUME NEW machine \in Tenths, NEW writeUp \in [score : Tenths, submitted : BOOLEAN],
           NEW weight \in Percents, NEW lo \in Tenths, NEW hi \in Tenths,
           lo <= machine, machine <= hi,
           lo <= (IF writeUp.submitted THEN writeUp.score ELSE 0),
           (IF writeUp.submitted THEN writeUp.score ELSE 0) <= hi
    PROVE  /\ Blend(machine, writeUp, weight) \in Tenths
           /\ lo <= Blend(machine, writeUp, weight) /\ Blend(machine, writeUp, weight) <= hi
<1> DEFINE share == Share(weight)
           rest  == 100 - Share(weight)
           mark  == IF writeUp.submitted THEN writeUp.score ELSE 0
           exact == machine * rest + mark * share
<1>1. share \in Nat /\ rest \in Nat /\ share + rest = 100
    BY DEF Share, MaxTicketWeight, Percents
<1>2. machine \in Nat /\ mark \in Nat /\ lo \in Nat /\ hi \in Nat /\ hi <= 1000
    <2>1. mark \in Tenths
        <3>1. writeUp.score \in Tenths /\ 0 \in Tenths
            BY DEF Tenths
        <3> QED BY <3>1
    <2> HIDE DEF mark
    <2> QED BY <2>1 DEF Tenths
<1> HIDE DEF share, rest, mark
<1>3. rest * lo <= rest * machine /\ share * lo <= share * mark
    BY <1>1, <1>2, TimesMonotone DEF mark
<1>4. rest * machine <= rest * hi /\ share * mark <= share * hi
    BY <1>1, <1>2, TimesMonotone DEF mark
<1>5. rest * lo + share * lo = 100 * lo /\ rest * hi + share * hi = 100 * hi
    BY <1>1, <1>2
<1>6. rest * machine \in Nat /\ share * mark \in Nat
    BY <1>1, <1>2
<1>7. rest * lo \in Nat /\ share * lo \in Nat /\ rest * hi \in Nat /\ share * hi \in Nat
    BY <1>1, <1>2
<1>8. machine * rest = rest * machine /\ mark * share = share * mark
    BY <1>1, <1>2
<1>9. exact \in Nat /\ 100 * lo <= exact /\ exact <= 100 * hi
    BY <1>2, <1>3, <1>4, <1>5, <1>6, <1>7, <1>8
<1>10. Blend(machine, writeUp, weight) = RoundHalfEven(exact, 100)
    BY DEF Blend, share, rest, mark, exact
<1> HIDE DEF exact
<1>11. /\ RoundHalfEven(exact, 100) \in Int
       /\ lo <= RoundHalfEven(exact, 100) /\ RoundHalfEven(exact, 100) <= hi
    BY <1>2, <1>9, RoundWithin
<1>12. \A grade \in Int : lo <= grade /\ grade <= hi => grade \in Tenths
    BY <1>2 DEF Tenths
<1> QED BY <1>10, <1>11, <1>12

(***************************************************************************)
(* The grade is a mark from 0 to 100 percent.                              *)
(***************************************************************************)
THEOREM BlendIsAMark ==
    ASSUME NEW machine \in Tenths, NEW writeUp \in [score : Tenths, submitted : BOOLEAN],
           NEW weight \in Percents
    PROVE  Blend(machine, writeUp, weight) \in Tenths
<1>1. 0 \in Tenths /\ 1000 \in Tenths
    BY DEF Tenths
<1>2. 0 <= machine /\ machine <= 1000
    BY DEF Tenths
<1>3. /\ 0 <= (IF writeUp.submitted THEN writeUp.score ELSE 0)
      /\ (IF writeUp.submitted THEN writeUp.score ELSE 0) <= 1000
    BY DEF Tenths
<1> QED BY <1>1, <1>2, <1>3, BlendIsBetween

(***************************************************************************)
(* "No submission means the ticket contributes zero": a write-up that was  *)
(* not handed in never raises the grade above the machine's mark.          *)
(***************************************************************************)
THEOREM UnsubmittedNeverHelps ==
    ASSUME NEW machine \in Tenths, NEW writeUp \in [score : Tenths, submitted : BOOLEAN],
           NEW weight \in Percents, ~writeUp.submitted
    PROVE  Blend(machine, writeUp, weight) <= machine
<1>1. 0 \in Tenths /\ 0 <= machine /\ machine <= machine
    BY DEF Tenths
<1> QED BY <1>1, BlendIsBetween

(***************************************************************************)
(* The percent that is filed, and compared with a pass mark, is a percent. *)
(***************************************************************************)
LEMMA ScorePercentIsPercent ==
    ASSUME NEW mark \in Tenths
    PROVE  ScorePercent(mark, 1000) \in Percents
BY DEF ScorePercent, Tenths, Percents

-----------------------------------------------------------------------------
(***************************************************************************)
(* The ledger: it is well typed, LedgerInv is inductive, and it implements *)
(* Ledger.                                                                 *)
(***************************************************************************)

(***************************************************************************)
(* The invariant holds before anything is delivered.                       *)
(***************************************************************************)
LEMMA InvInitially == LedgerInit => LedgerInv
BY UnfiledIsNoAttempt, MaxDeliveriesIsNat
   DEF LedgerInit, LedgerInv, LedgerTypeOK, NothingBeforeFiling, FilerIsFirst, OneFiler,
       Writing, WriterPcs, Percents, Resting, Filed

(***************************************************************************)
(* A request's mark of its completion is an attempt, hence not Unfiled.    *)
(***************************************************************************)
LEMMA GradedIsAttempt ==
    ASSUME LedgerTypeOK, NEW w \in Writers
    PROVE  Graded(w) \in Attempts /\ Graded(w) # Unfiled
<1>1. Graded(w) \in Attempts
    BY DEF LedgerTypeOK, Graded, Attempts, Writing
<1> QED BY <1>1, UnfiledIsNoAttempt

(***************************************************************************)
(* A request that only moves on, or answers, changes no other request, and *)
(* its own record stays one.                                               *)
(***************************************************************************)
LEMMA MoveWriter ==
    ASSUME LedgerTypeOK, NEW w \in Writers, NEW pc \in WriterPcs, pc # "idle",
           writer[w].pc # "idle", Move(w, pc)
    PROVE  /\ writer' \in [Writers -> Writing]
           /\ \A v \in Writers : writer'[v].pc # "idle" => writer'[v].key \in Keys
           /\ \A v \in Writers \ {w} : writer'[v] = writer[v] /\ Graded(v)' = Graded(v)
           /\ writer'[w].pc = pc
           /\ writer'[w].key = writer[w].key
           /\ Graded(w)' = Graded(w)
BY DEF LedgerTypeOK, Writing, Move, Graded

LEMMA AnswerWriter ==
    ASSUME LedgerTypeOK, NEW w \in Writers, Answer(w)
    PROVE  /\ writer' \in [Writers -> Writing]
           /\ \A v \in Writers : writer'[v].pc # "idle" => writer'[v].key \in Keys
           /\ \A v \in Writers \ {w} : writer'[v] = writer[v] /\ Graded(v)' = Graded(v)
           /\ writer'[w].pc = "idle"
BY DEF LedgerTypeOK, Writing, WriterPcs, Percents, Answer, Resting, Graded

(***************************************************************************)
(* A request that stops keeps the invariant, whatever it had done.         *)
(***************************************************************************)
LEMMA AnswerKeeps ==
    ASSUME LedgerInv, NEW w \in Writers, Answer(w),
           UNCHANGED <<attempt, audited, announced, chained, deliveries>>
    PROVE  LedgerInv'
<1>1. LedgerTypeOK /\ NothingBeforeFiling /\ FilerIsFirst /\ OneFiler
    BY DEF LedgerInv
<1>2. /\ writer' \in [Writers -> Writing]
      /\ \A v \in Writers : writer'[v].pc # "idle" => writer'[v].key \in Keys
      /\ \A v \in Writers \ {w} : writer'[v] = writer[v] /\ Graded(v)' = Graded(v)
      /\ writer'[w].pc = "idle"
    BY <1>1, AnswerWriter
<1>3. \A v \in Writers : Filed(v)' => v # w /\ Filed(v)
    BY <1>2 DEF Filed
<1>4. LedgerTypeOK'
    BY <1>1, <1>2 DEF LedgerTypeOK
<1>5. NothingBeforeFiling'
    BY <1>1 DEF NothingBeforeFiling
<1>6. FilerIsFirst'
    BY <1>1, <1>2, <1>3 DEF FilerIsFirst, Writes
<1>7. OneFiler'
    BY <1>1, <1>2, <1>3 DEF OneFiler
<1> QED BY <1>4, <1>5, <1>6, <1>7 DEF LedgerInv

(***************************************************************************)
(* What the one who inserted an attempt does next concerns its key alone,  *)
(* which no other request that inserted one shares.                        *)
(***************************************************************************)
LEMMA FilerKeeps ==
    ASSUME LedgerInv, NEW w \in Writers, Filed(w),
           UNCHANGED <<attempt, deliveries>>,
           {audited', announced', chained'} \subseteq [Keys -> Nat],
           \A j \in Keys \ {writer[w].key} :
                announced'[j] = announced[j] /\ chained'[j] = chained[j],
           writer' \in [Writers -> Writing],
           \A v \in Writers : writer'[v].pc # "idle" => writer'[v].key \in Keys,
           \A v \in Writers \ {w} : writer'[v] = writer[v] /\ Graded(v)' = Graded(v),
           Filed(w)' =>
                /\ writer'[w].key = writer[w].key /\ Graded(w)' = Graded(w)
                /\ chained'[writer[w].key] = 0
                /\ IF Writes(w, "chain")' THEN Graded(w).certificate
                                          ELSE announced'[writer[w].key] = 0
    PROVE  LedgerInv'
<1> DEFINE k == writer[w].key
<1>1. LedgerTypeOK /\ NothingBeforeFiling /\ FilerIsFirst /\ OneFiler
    BY DEF LedgerInv
<1>2. k \in Keys /\ attempt[k] = Graded(w) /\ attempt[k] # Unfiled
    BY <1>1, GradedIsAttempt DEF LedgerTypeOK, FilerIsFirst, Filed
<1>3. \A v \in Writers \ {w} : Filed(v)' => Filed(v) /\ writer[v].key \in Keys \ {k}
    BY <1>1 DEF Filed, OneFiler, LedgerTypeOK
<1>4. LedgerTypeOK'
    BY <1>1 DEF LedgerTypeOK
<1>5. NothingBeforeFiling'
    BY <1>1, <1>2 DEF NothingBeforeFiling
<1>6. FilerIsFirst'
    <2>1. ASSUME NEW v \in Writers \ {w}, Filed(v)'
          PROVE  /\ attempt'[writer'[v].key] = Graded(v)'
                 /\ chained'[writer'[v].key] = 0
                 /\ IF Writes(v, "chain")' THEN Graded(v)'.certificate
                                           ELSE announced'[writer'[v].key] = 0
        BY <1>1, <1>3, <2>1 DEF FilerIsFirst, Writes
    <2> QED BY <1>2, <2>1 DEF FilerIsFirst
<1>7. OneFiler'
    BY <1>1, <1>3 DEF OneFiler
<1> QED BY <1>4, <1>5, <1>6, <1>7 DEF LedgerInv

(***************************************************************************)
(* Every step of recordLabCompletion, a delivery and a restart of the      *)
(* server keep the invariant.                                              *)
(***************************************************************************)
LEMMA InvStep ==
    ASSUME LedgerInv, [LedgerNext]_ledgerVars
    PROVE  LedgerInv'
<1>0. LedgerTypeOK /\ NothingBeforeFiling /\ FilerIsFirst /\ OneFiler
    BY DEF LedgerInv
<1>1. ASSUME NEW w \in Writers, NEW k \in Keys, NEW score \in Percents, NEW mark \in Percents,
             Deliver(w, k, score, mark)
      PROVE  LedgerInv'
    <2> USE <1>1 DEF Deliver, Writes
    <2>1. /\ writer' \in [Writers -> Writing]
          /\ \A v \in Writers : writer'[v].pc # "idle" => writer'[v].key \in Keys
          /\ \A v \in Writers \ {w} : writer'[v] = writer[v] /\ Graded(v)' = Graded(v)
          /\ writer'[w].pc = "find"
        BY <1>0 DEF LedgerTypeOK, Writing, WriterPcs, Graded
    <2>2. LedgerTypeOK'
        BY <1>0, <2>1, MaxDeliveriesIsNat DEF LedgerTypeOK
    <2>3. NothingBeforeFiling'
        BY <1>0 DEF NothingBeforeFiling
    <2>4. \A v \in Writers : Filed(v)' => v # w /\ Filed(v)
        BY <2>1 DEF Filed
    <2>5. FilerIsFirst'
        BY <1>0, <2>1, <2>4 DEF FilerIsFirst
    <2>6. OneFiler'
        BY <1>0, <2>1, <2>4 DEF OneFiler
    <2> QED BY <2>2, <2>3, <2>5, <2>6 DEF LedgerInv
<1>2. ASSUME NEW w \in Writers, NEW pc \in {"resolve", "create"}, writer[w].pc # "idle",
             ~Filed(w), Move(w, pc),
             UNCHANGED <<attempt, audited, announced, chained, deliveries>>
      PROVE  LedgerInv'
    <2>1. /\ writer' \in [Writers -> Writing]
          /\ \A v \in Writers : writer'[v].pc # "idle" => writer'[v].key \in Keys
          /\ \A v \in Writers \ {w} : writer'[v] = writer[v] /\ Graded(v)' = Graded(v)
          /\ writer'[w].pc = pc
        BY <1>0, <1>2, MoveWriter DEF WriterPcs
    <2>2. LedgerTypeOK'
        BY <1>0, <1>2, <2>1 DEF LedgerTypeOK
    <2>3. NothingBeforeFiling'
        BY <1>0, <1>2 DEF NothingBeforeFiling
    <2>4. \A v \in Writers : Filed(v)' => v # w /\ Filed(v)
        BY <2>1 DEF Filed
    <2>5. FilerIsFirst'
        BY <1>0, <1>2, <2>1, <2>4 DEF FilerIsFirst, Writes
    <2>6. OneFiler'
        BY <1>0, <2>1, <2>4 DEF OneFiler
    <2> QED BY <2>2, <2>3, <2>5, <2>6 DEF LedgerInv
<1>3. ASSUME NEW w \in Writers, Create(w) PROVE LedgerInv'
    <2> USE <1>3 DEF Create, Writes
    <2> DEFINE k == writer[w].key
    <2>0. k \in Keys /\ Graded(w) \in Attempts /\ Graded(w) # Unfiled
        BY <1>0, GradedIsAttempt DEF LedgerTypeOK
    <2>1. /\ writer' \in [Writers -> Writing]
          /\ \A v \in Writers : writer'[v].pc # "idle" => writer'[v].key \in Keys
          /\ \A v \in Writers \ {w} : writer'[v] = writer[v] /\ Graded(v)' = Graded(v)
          /\ writer'[w].pc = "audit" /\ writer'[w].key = k /\ Graded(w)' = Graded(w)
        BY <1>0, MoveWriter DEF WriterPcs
    <2>2. /\ attempt' \in [Keys -> Attempts \union {Unfiled}]
          /\ attempt'[k] = Graded(w)
          /\ \A j \in Keys \ {k} : attempt'[j] = attempt[j]
        BY <1>0, <2>0 DEF LedgerTypeOK
    <2>3. \A v \in Writers \ {w} : Filed(v)' => Filed(v) /\ writer[v].key \in Keys \ {k}
        BY <1>0, <2>1, GradedIsAttempt DEF Filed, FilerIsFirst, LedgerTypeOK
    <2>4. LedgerTypeOK'
        BY <1>0, <2>1, <2>2 DEF LedgerTypeOK
    <2>5. NothingBeforeFiling'
        BY <1>0, <2>0, <2>2 DEF NothingBeforeFiling
    <2>6. announced[k] = 0 /\ chained[k] = 0
        BY <1>0, <2>0 DEF NothingBeforeFiling
    <2>7. FilerIsFirst'
        <3>1. ASSUME NEW v \in Writers \ {w}, Filed(v)'
              PROVE  /\ attempt'[writer'[v].key] = Graded(v)'
                     /\ chained'[writer'[v].key] = 0
                     /\ IF Writes(v, "chain")' THEN Graded(v)'.certificate
                                               ELSE announced'[writer'[v].key] = 0
            BY <1>0, <2>1, <2>2, <2>3, <3>1 DEF FilerIsFirst
        <3> QED BY <2>1, <2>2, <2>6, <3>1 DEF FilerIsFirst
    <2>8. OneFiler'
        BY <1>0, <2>1, <2>3 DEF OneFiler
    <2> QED BY <2>4, <2>5, <2>7, <2>8 DEF LedgerInv
<1>4. ASSUME NEW w \in Writers, Audit(w) PROVE LedgerInv'
    <2> USE <1>4 DEF Audit, Writes
    <2>1. Filed(w) /\ "announce" \in WriterPcs
        BY DEF Filed, WriterPcs
    <2>2. writer[w].key \in Keys /\ announced[writer[w].key] = 0 /\ chained[writer[w].key] = 0
        BY <1>0, <2>1 DEF LedgerTypeOK, FilerIsFirst
    <2>3. {audited', announced', chained'} \subseteq [Keys -> Nat]
        BY <1>0 DEF LedgerTypeOK
    <2> QED BY <1>0, <2>1, <2>2, <2>3, MoveWriter, FilerKeeps
<1>5. ASSUME NEW w \in Writers, AnnounceGraded(w) PROVE LedgerInv'
    <2> USE <1>5 DEF AnnounceGraded, Writes
    <2>1. Filed(w) /\ "chain" \in WriterPcs
        BY DEF Filed, WriterPcs
    <2>2. writer[w].key \in Keys /\ chained[writer[w].key] = 0
        BY <1>0, <2>1 DEF LedgerTypeOK, FilerIsFirst
    <2>3. /\ {audited', announced', chained'} \subseteq [Keys -> Nat]
          /\ \A j \in Keys \ {writer[w].key} : announced'[j] = announced[j]
        BY <1>0 DEF LedgerTypeOK
    <2>4. CASE Graded(w).certificate
        BY <1>0, <2>1, <2>2, <2>3, <2>4, MoveWriter, FilerKeeps
    <2>5. CASE ~Graded(w).certificate
        <3>1. ~Filed(w)'
            BY <1>0, <2>5, AnswerWriter DEF Filed
        <3> QED BY <1>0, <2>1, <2>3, <2>5, <3>1, AnswerWriter, FilerKeeps
    <2> QED BY <2>4, <2>5
<1>6. ASSUME NEW w \in Writers, SendCertificateDownChain(w) PROVE LedgerInv'
    <2> USE <1>6 DEF SendCertificateDownChain, Writes
    <2>1. Filed(w)
        BY DEF Filed
    <2>2. /\ {audited', announced', chained'} \subseteq [Keys -> Nat]
          /\ \A j \in Keys \ {writer[w].key} : chained'[j] = chained[j]
        BY <1>0 DEF LedgerTypeOK
    <2>3. ~Filed(w)'
        BY <1>0, AnswerWriter DEF Filed
    <2> QED BY <1>0, <2>1, <2>2, <2>3, AnswerWriter, FilerKeeps
<1>7. CASE LedgerRestart
    <2> USE <1>7 DEF LedgerRestart
    <2>1. \A v \in Writers : ~Filed(v)'
        BY DEF Filed, Resting
    <2>2. LedgerTypeOK'
        BY <1>0 DEF LedgerTypeOK, Resting, Writing, WriterPcs, Percents
    <2> QED BY <1>0, <2>1, <2>2
            DEF LedgerInv, NothingBeforeFiling, FilerIsFirst, OneFiler
<1>8. CASE UNCHANGED ledgerVars
    BY <1>0, <1>8 DEF ledgerVars, LedgerInv, LedgerTypeOK, NothingBeforeFiling, FilerIsFirst,
                      OneFiler, Filed, Writes, Graded
<1>9. ASSUME NEW w \in Writers, Find(w) \/ Resolve(w) \/ NotCreated(w) PROVE LedgerInv'
    BY <1>2, <1>9, AnswerKeeps DEF Find, Resolve, NotCreated, Filed, Writes
<1> QED
    BY <1>1, <1>3, <1>4, <1>5, <1>6, <1>7, <1>8, <1>9 DEF LedgerNext, FilingStep

(***************************************************************************)
(* The inductive invariant, and with it the types.                         *)
(***************************************************************************)
THEOREM LedgerInvariant == LedgerSpec => []LedgerInv
BY InvInitially, InvStep, PTL DEF LedgerSpec

(***************************************************************************)
(* recordLabCompletion keeps the ledger's promise, for any number of       *)
(* requests, retries, races and restarts: a session is filed once and      *)
(* never rewritten, announced at most once, and its certificate, if it has *)
(* one, goes down the chain at most once.                                  *)
(***************************************************************************)
THEOREM LedgerKeepsItsPromise == LedgerSpec => FiledOnce
<1>1. LedgerInit => Promise!Init
    BY DEF LedgerInit, Promise!Init
<1>2. ASSUME LedgerInv, [LedgerNext]_ledgerVars
      PROVE  [Promise!Next]_<<attempt, announced, chained>>
    <2> USE DEF Promise!Next, Promise!File, Promise!Announce, Promise!SendCertificate, Writes
    <2>0. LedgerTypeOK /\ FilerIsFirst
        BY <1>2 DEF LedgerInv
    <2>1. ASSUME NEW w \in Writers, Create(w)
          PROVE  \E k \in Keys : Promise!File(k)
        <3>1. Graded(w) \in Attempts /\ writer[w].key \in Keys
            BY <2>0, <2>1, GradedIsAttempt DEF Create, LedgerTypeOK
        <3> QED BY <2>0, <2>1, <3>1 DEF Create, LedgerTypeOK
    <2>2. ASSUME NEW w \in Writers, AnnounceGraded(w)
          PROVE  \E k \in Keys : Promise!Announce(k)
        <3>1. /\ writer[w].key \in Keys /\ attempt[writer[w].key] # Unfiled
              /\ announced[writer[w].key] = 0
            BY <2>0, <2>2, GradedIsAttempt
               DEF AnnounceGraded, LedgerTypeOK, FilerIsFirst, Filed
        <3>2. announced' = [announced EXCEPT ![writer[w].key] = 1]
            BY <2>0, <2>2, <3>1 DEF AnnounceGraded, LedgerTypeOK
        <3> QED BY <2>2, <3>1, <3>2 DEF AnnounceGraded
    <2>3. ASSUME NEW w \in Writers, SendCertificateDownChain(w)
          PROVE  \E k \in Keys : Promise!SendCertificate(k)
        <3>1. /\ writer[w].key \in Keys /\ attempt[writer[w].key] # Unfiled
              /\ attempt[writer[w].key].certificate /\ chained[writer[w].key] = 0
            BY <2>0, <2>3, GradedIsAttempt
               DEF SendCertificateDownChain, LedgerTypeOK, FilerIsFirst, Filed
        <3>2. chained' = [chained EXCEPT ![writer[w].key] = 1]
            BY <2>0, <2>3, <3>1 DEF SendCertificateDownChain, LedgerTypeOK
        <3> QED BY <2>3, <3>1, <3>2 DEF SendCertificateDownChain
    <2> QED
        BY <1>2, <2>1, <2>2, <2>3
           DEF LedgerNext, FilingStep, ledgerVars, Deliver, Find, Resolve, NotCreated, Audit,
               LedgerRestart
<1> QED
    BY <1>1, <1>2, LedgerInvariant, PTL DEF LedgerSpec, FiledOnce, Promise!Spec

-----------------------------------------------------------------------------
(***************************************************************************)
(* The submission: its calls, and the ledger behind them.                  *)
(***************************************************************************)

(***************************************************************************)
(* Everything that only moves one call on keeps what is said of the        *)
(* others: results and tickets are only ever added to.                     *)
(***************************************************************************)
LEMMA OthersKeep ==
    ASSUME NEW c \in Calls, CallInv(c), call'[c] = call[c],
           \A s \in Sids : results[s] \subseteq results'[s] /\ tickets[s] \subseteq tickets'[s]
    PROVE  CallInv(c)'
BY DEF CallInv, Honest, PastResult

LEMMA StillBacked ==
    ASSUME NEW s \in Sids, NEW score, Backed(s, score), results[s] \subseteq results'[s]
    PROVE  Backed(s, score)'
BY DEF Backed

LEMMA SessionKeysDiffer ==
    ASSUME NEW s, NEW t, InAppSessionKey(s) = InAppSessionKey(t)
    PROVE  s = t
BY DEF InAppSessionKey

(***************************************************************************)
(* The report a call makes of the machine, and of machine and write-up.    *)
(***************************************************************************)
LEMMA EvaluateIsAReport ==
    ASSUME NEW m \in MachineMarks
    PROVE  Evaluate(m) \in Report /\ Honest(Evaluate(m))
<1> DEFINE score   == RoundHalfEven(1000 * m.earned, m.total)
           verdict == ~m.critical /\ ClearedPassMark(m.earned, m.total, PassMark)
<1>1. /\ m.earned \in Nat /\ m.total \in Nat /\ m.total > 0
      /\ m.earned <= m.total
    BY Marks
<1>2. score \in Tenths
    BY <1>1, PointsAreAMark
<1>3. verdict \in BOOLEAN
    OBVIOUS
<1>4. Evaluate(m) = [error |-> FALSE, score |-> score, resolved |-> verdict]
    BY DEF Evaluate
<1> HIDE DEF score, verdict
<1>5. Evaluate(m) \in Report
    BY <1>2, <1>3, <1>4 DEF Report
<1>6. Evaluate(m).error = FALSE
    BY <1>4
<1> QED BY <1>5, <1>6 DEF Honest

LEMMA BlendInIsAReport ==
    ASSUME NEW report \in Report, NEW ticket \in Tickets, Honest(report)
    PROVE  BlendIn(report, ticket) \in Report /\ Honest(BlendIn(report, ticket))
<1>1. report.score \in Tenths /\ ticket \in [score : Tenths, submitted : BOOLEAN]
    <2>1. Blank \in [score : Tenths, submitted : BOOLEAN]
        BY DEF Blank, Tenths
    <2> QED BY <2>1, Marks DEF Report, Tickets
<1>2. Blend(report.score, ticket, Weight) \in Tenths
    BY <1>1, BlendIsAMark, Marks
<1>3. CASE report.error
    BY <1>3 DEF BlendIn
<1>4. CASE ~report.error
    BY <1>2, <1>4 DEF BlendIn, Report, Honest
<1> QED BY <1>3, <1>4

LEMMA FailedIsAReport == Failed \in Report /\ Honest(Failed)
BY DEF Failed, Report, Honest, Tenths

LEMMA NoCallIsACall == NoCall \in Call
BY FailedIsAReport DEF NoCall, Call, Pcs, Drafts, Row

(***************************************************************************)
(* The invariant holds at first.                                           *)
(***************************************************************************)
LEMMA SubmissionInitially == Init => SubmissionInv
<1> SUFFICES ASSUME Init PROVE SubmissionInv
    OBVIOUS
<1> USE DEF Init
<1>1. LedgerInv
    BY InvInitially
<1>2. TypeOK
    <2>1. row \in [Sids -> Row] /\ up \in [Sids -> BOOLEAN]
        BY DEF Row
    <2>2. calls \in 0..MaxCalls /\ crashes \in 0..MaxCrashes
        BY SubmissionBounds
    <2> QED BY <1>1, <2>1, <2>2, NoCallIsACall DEF TypeOK, LedgerInv, Drafts
<1>3. \A c \in Calls : CallInv(c)
    BY FailedIsAReport DEF CallInv, NoCall, PastResult
<1>4. \A w \in Writers : WriterInv(w)
    BY ServerFiles, UnfiledIsNoKey DEF LedgerInit, Resting, WriterInv, InAppKeys
<1>5. UngradedNeverPasses
    BY DEF UngradedNeverPasses
<1>6. FiledIsStored
    BY ServerFiles DEF FiledIsStored, LedgerInit, InAppKeys
<1> QED BY <1>1, <1>2, <1>3, <1>4, <1>5, <1>6 DEF SubmissionInv

(***************************************************************************)
(* A step of one call that leaves the ledger alone.                        *)
(***************************************************************************)
LEMMA CallMoves ==
    ASSUME SubmissionInv, NEW c \in Calls,
           UNCHANGED <<crashes, ledgerVars>>, calls' \in 0..MaxCalls,
           call' \in [Calls -> Call], \A d \in Calls \ {c} : call'[d] = call[d],
           row' \in [Sids -> Row], up' \in [Sids -> BOOLEAN], draft' \in [Sids -> Drafts],
           results' \in [Sids -> SUBSET Report], tickets' \in [Sids -> SUBSET Tickets],
           \A s \in Sids : results[s] \subseteq results'[s] /\ tickets[s] \subseteq tickets'[s],
           \A s \in Sids : \A r \in results'[s] : Honest(r),
           CallInv(c)'
    PROVE  SubmissionInv'
<1>1. LedgerInv'
    BY InvStep DEF SubmissionInv
<1>2. TypeOK'
    BY <1>1 DEF SubmissionInv, TypeOK, LedgerInv
<1>3. \A d \in Calls : CallInv(d)'
    BY OthersKeep DEF SubmissionInv
<1>4. \A w \in Writers : WriterInv(w)'
    BY StillBacked DEF SubmissionInv, WriterInv, ledgerVars
<1>5. UngradedNeverPasses'
    BY DEF UngradedNeverPasses, Honest
<1>6. FiledIsStored'
    BY StillBacked DEF SubmissionInv, FiledIsStored, ledgerVars
<1> QED BY <1>1, <1>2, <1>3, <1>4, <1>5, <1>6 DEF SubmissionInv

(***************************************************************************)
(* What one call knows of itself when it moves on.                         *)
(***************************************************************************)
LEMMA CallFacts ==
    ASSUME SubmissionInv, NEW c \in Calls
    PROVE  /\ call \in [Calls -> Call] /\ call[c] \in Call /\ CallInv(c)
           /\ calls \in 0..MaxCalls /\ row \in [Sids -> Row] /\ up \in [Sids -> BOOLEAN]
           /\ draft \in [Sids -> Drafts] /\ results \in [Sids -> SUBSET Report]
           /\ tickets \in [Sids -> SUBSET Tickets]
           /\ \A s \in Sids : \A r \in results[s] : Honest(r)
BY DEF SubmissionInv, TypeOK, UngradedNeverPasses, Honest

(***************************************************************************)
(* The beginning of a call: a touch, or handing a session in.              *)
(***************************************************************************)
LEMMA BeginKeeps ==
    ASSUME SubmissionInv, NEW c \in Calls, NEW s \in Sids, NEW values \in Drafts,
           NEW pc \in {"touch", "check", "draft"}, Begin(c, s, pc, values)
    PROVE  SubmissionInv'
<1> DEFINE x == [NoCall EXCEPT !.pc = pc, !.sid = s, !.row = row[s], !.values = values]
<1>1. x \in Call
    BY CallFacts, NoCallIsACall DEF Call, Pcs, NoCall
<1>2. x.pc = pc /\ x.sid = s /\ x.report = Failed
    BY DEF NoCall
<1>3. call' = [call EXCEPT ![c] = x]
    BY DEF Begin
<1> HIDE DEF x
<1>4. /\ call' \in [Calls -> Call] /\ call'[c] = x
      /\ \A d \in Calls \ {c} : call'[d] = call[d]
    BY <1>1, <1>3, CallFacts
<1>5. CallInv(c)'
    BY <1>2, <1>4, FailedIsAReport DEF CallInv, PastResult
<1>6. calls' \in 0..MaxCalls
    BY CallFacts, SubmissionBounds DEF Begin
<1> QED BY <1>4, <1>5, <1>6, CallFacts, CallMoves DEF Begin, session, ledgerVars

(***************************************************************************)
(* The steps of a call up to the file step, one after the other.           *)
(***************************************************************************)
LEMMA CallStepKeeps ==
    ASSUME SubmissionInv, NEW c \in Calls,
           \/ TouchSave(c) \/ CheckSave(c) \/ Grade(c) \/ GradedSave(c) \/ KeepValues(c)
           \/ MarkWriteUp(c) \/ FinishSave(c) \/ AddResult(c) \/ SaveTicket(c)
           \/ ClearTicketDraft(c) \/ DestroyInstance(c) \/ GoneSave(c)
    PROVE  SubmissionInv'
<1> USE DEF env, At
<1>1. /\ call \in [Calls -> Call] /\ call[c] \in Call /\ CallInv(c)
      /\ calls \in 0..MaxCalls /\ row \in [Sids -> Row] /\ up \in [Sids -> BOOLEAN]
      /\ draft \in [Sids -> Drafts] /\ results \in [Sids -> SUBSET Report]
      /\ tickets \in [Sids -> SUBSET Tickets]
      /\ \A s \in Sids : \A r \in results[s] : Honest(r)
    BY CallFacts
<1>2. call[c].pc # "idle" => call[c].sid \in Sids
    BY <1>1 DEF CallInv
<1>3. call[c].row \in Row /\ call[c].report \in Report /\ Honest(call[c].report)
    BY <1>1 DEF Call, CallInv
<1>4. ASSUME call[c].pc # "idle", Save(c)
      PROVE  row' \in [Sids -> Row]
    BY <1>1, <1>2, <1>3, <1>4 DEF Save
<1>5. ASSUME NEW pc \in Pcs, Go(c, pc)
      PROVE  /\ call' \in [Calls -> Call] /\ \A d \in Calls \ {c} : call'[d] = call[d]
             /\ call'[c] = [call[c] EXCEPT !.pc = pc] /\ call'[c].pc = pc
             /\ call'[c].sid = call[c].sid /\ call'[c].report = call[c].report
             /\ call'[c].ticket = call[c].ticket
    BY <1>1, <1>5 DEF Go, Call
<1>6. ASSUME Return(c)
      PROVE  /\ call' \in [Calls -> Call] /\ \A d \in Calls \ {c} : call'[d] = call[d]
             /\ CallInv(c)'
    <2>1. call'[c] = NoCall
        BY <1>1, <1>6 DEF Return
    <2>2. CallInv(c)'
        BY <2>1, FailedIsAReport DEF CallInv, NoCall, PastResult
    <2> QED BY <1>1, <1>6, <2>2, NoCallIsACall DEF Return
<1>7. CASE TouchSave(c)
    BY <1>1, <1>4, <1>6, <1>7, CallMoves DEF TouchSave
<1>8. ASSUME NEW pc \in {"grade", "draft"}, call[c].pc \in {"check", "graded"}, Save(c), Go(c, pc),
             UNCHANGED <<up, draft, results, tickets, calls, crashes, ledgerVars>>
      PROVE  SubmissionInv'
    <2>1. CallInv(c)'
        BY <1>2, <1>3, <1>5, <1>8 DEF CallInv, PastResult, Pcs
    <2> QED BY <1>1, <1>4, <1>5, <1>8, <2>1, CallMoves DEF Pcs
<1>9. CASE Grade(c)
    <2>1. PICK report \in Report :
            /\ Honest(report)
            /\ call' = [call EXCEPT ![c].pc = "graded", ![c].report = report]
        BY <1>9, FailedIsAReport, EvaluateIsAReport DEF Grade
    <2>2. /\ call' \in [Calls -> Call] /\ \A d \in Calls \ {c} : call'[d] = call[d]
          /\ call'[c].pc = "graded" /\ call'[c].report = report /\ call'[c].sid = call[c].sid
        BY <1>1, <2>1 DEF Call, Pcs
    <2>3. CallInv(c)'
        BY <1>2, <1>9, <2>1, <2>2 DEF CallInv, PastResult, Grade
    <2> QED BY <1>1, <1>9, <2>2, <2>3, CallMoves DEF Grade, session
<1>10. CASE KeepValues(c)
    <2>1. draft' \in [Sids -> Drafts]
        BY <1>1, <1>2, <1>10 DEF KeepValues, Call
    <2>2. CallInv(c)'
        BY <1>2, <1>3, <1>5, <1>10 DEF KeepValues, CallInv, PastResult, Pcs
    <2> QED BY <1>1, <1>5, <1>10, <2>1, <2>2, CallMoves DEF KeepValues, Pcs
<1>11. CASE MarkWriteUp(c)
    <2> DEFINE handed == draft[call[c].sid]
               ticket == IF handed = Unfiled THEN Blank ELSE handed
               report == IF HasForm THEN BlendIn(call[c].report, ticket) ELSE call[c].report
               kept   == IF HasForm THEN ticket ELSE Unfiled
    <2>1. call[c].sid \in Sids /\ handed \in Drafts
        BY <1>1, <1>2, <1>11 DEF MarkWriteUp
    <2>2. ticket \in Tickets
        BY <2>1 DEF Drafts, Tickets
    <2>3. report \in Report /\ Honest(report)
        BY <1>3, <2>2, BlendInIsAReport
    <2>4. kept \in Tickets \union {Unfiled}
        BY <2>2
    <2>5. call' = [call EXCEPT ![c].pc = "finish", ![c].row.completed = TRUE,
                               ![c].ticket = kept, ![c].report = report]
        BY <1>11 DEF MarkWriteUp
    <2> HIDE DEF report, kept
    <2>6. /\ call' \in [Calls -> Call] /\ \A d \in Calls \ {c} : call'[d] = call[d]
          /\ call'[c].pc = "finish" /\ call'[c].report = report /\ call'[c].sid = call[c].sid
          /\ call'[c].ticket = kept
        BY <1>1, <2>3, <2>4, <2>5 DEF Call, Pcs, Row
    <2>7. HasForm => kept # Unfiled
        <3>1. Blank \in [score : Tenths, submitted : BOOLEAN]
            BY DEF Blank, Tenths
        <3>2. Blank # Unfiled
            BY <3>1, NothingIsNothing
        <3> QED BY <3>2 DEF kept
    <2>8. CallInv(c)'
        BY <2>1, <2>3, <2>6, <2>7 DEF CallInv, PastResult
    <2> QED BY <1>1, <1>11, <2>6, <2>8, CallMoves DEF MarkWriteUp, session
<1>12. CASE FinishSave(c)
    <2>1. CallInv(c)'
        BY <1>1, <1>2, <1>3, <1>5, <1>12 DEF FinishSave, CallInv, PastResult, Pcs
    <2> QED BY <1>1, <1>4, <1>5, <1>12, <2>1, CallMoves DEF FinishSave, Pcs
<1>13. CASE AddResult(c)
    <2> DEFINE s == call[c].sid
               r == call[c].report
    <2>1. /\ s \in Sids
          /\ results' = [results EXCEPT ![s] = results[s] \union {r}]
        BY <1>2, <1>13 DEF AddResult
    <2>2. /\ results' \in [Sids -> SUBSET Report]
          /\ \A t \in Sids : results[t] \subseteq results'[t]
          /\ \A t \in Sids : \A q \in results'[t] : Honest(q)
          /\ r \in results'[s]
        BY <1>1, <1>3, <2>1
    <2>3. Go(c, IF HasForm THEN "ticket" ELSE "destroy")
        BY <1>13 DEF AddResult
    <2>4. CallInv(c)'
        <3>1. HasForm => call[c].ticket # Unfiled
            BY <1>1, <1>13 DEF AddResult, CallInv
        <3> QED BY <1>3, <1>5, <2>1, <2>2, <2>3, <3>1 DEF CallInv, PastResult, Pcs
    <2> QED BY <1>1, <1>5, <1>13, <2>2, <2>3, <2>4, CallMoves DEF AddResult, Pcs
<1>14. CASE SaveTicket(c)
    <2> DEFINE s == call[c].sid
               t == call[c].ticket
    <2>1. s \in Sids /\ t \in Tickets
        BY <1>1, <1>2, <1>14 DEF SaveTicket, CallInv, Call
    <2>2. tickets' = [tickets EXCEPT ![s] = tickets[s] \union {t}]
        BY <1>14 DEF SaveTicket
    <2>3. /\ tickets' \in [Sids -> SUBSET Tickets]
          /\ \A q \in Sids : tickets[q] \subseteq tickets'[q]
          /\ tickets'[s] # {}
        BY <1>1, <2>1, <2>2
    <2>4. CallInv(c)'
        BY <1>1, <1>3, <1>5, <1>14, <2>1, <2>3 DEF SaveTicket, CallInv, PastResult, Pcs
    <2> QED BY <1>1, <1>5, <1>14, <2>3, <2>4, CallMoves DEF SaveTicket, Pcs
<1>15. CASE ClearTicketDraft(c)
    <2>1. draft' \in [Sids -> Drafts]
        BY <1>1, <1>2, <1>15 DEF ClearTicketDraft, Drafts
    <2>2. CallInv(c)'
        BY <1>1, <1>2, <1>3, <1>5, <1>15 DEF ClearTicketDraft, CallInv, PastResult, Pcs
    <2> QED BY <1>1, <1>5, <1>15, <2>1, <2>2, CallMoves DEF ClearTicketDraft, Pcs
<1>16. CASE DestroyInstance(c)
    <2>1. up' \in [Sids -> BOOLEAN]
        BY <1>1, <1>16 DEF DestroyInstance
    <2>2. /\ call' \in [Calls -> Call] /\ \A d \in Calls \ {c} : call'[d] = call[d]
          /\ call'[c].pc = "gone" /\ call'[c].report = call[c].report
          /\ call'[c].sid = call[c].sid
        BY <1>1, <1>16 DEF DestroyInstance, Call, Pcs, Row
    <2>3. CallInv(c)'
        BY <1>1, <1>2, <1>3, <1>16, <2>2 DEF DestroyInstance, CallInv, PastResult
    <2> QED BY <1>1, <1>16, <2>1, <2>2, <2>3, CallMoves DEF DestroyInstance
<1>17. CASE GoneSave(c)
    <2>1. row' \in [Sids -> Row]
        BY <1>4, <1>17 DEF GoneSave
    <2>2. CASE c \in WebCalls /\ ~call[c].report.error
        <3>1. Go(c, "file")
            BY <1>17, <2>2 DEF GoneSave
        <3>2. CallInv(c)'
            BY <1>1, <1>2, <1>3, <1>5, <1>17, <2>2, <3>1 DEF GoneSave, CallInv, PastResult, Pcs
        <3> QED BY <1>1, <1>5, <1>17, <2>1, <3>1, <3>2, CallMoves DEF GoneSave, Pcs
    <2>3. CASE ~(c \in WebCalls /\ ~call[c].report.error)
        <3>1. Return(c)
            BY <1>17, <2>3 DEF GoneSave
        <3> QED BY <1>1, <1>6, <1>17, <2>1, <3>1, CallMoves DEF GoneSave
    <2> QED BY <2>2, <2>3
<1>18. CASE CheckSave(c)
    BY <1>8, <1>18 DEF CheckSave
<1>19. CASE GradedSave(c)
    BY <1>8, <1>19 DEF GradedSave
<1> QED BY <1>7, <1>9, <1>10, <1>11, <1>12, <1>13, <1>14, <1>15, <1>16, <1>17, <1>18, <1>19

(***************************************************************************)
(* The app and its peers file through one door: every step is a step of    *)
(* the ledger, or leaves it alone.                                         *)
(***************************************************************************)
LEMMA MarkedPercents ==
    ASSUME SubmissionInv, NEW c \in Calls, At(c, "file")
    PROVE  /\ c \in Writers /\ call[c].sid \in Sids
           /\ InAppSessionKey(call[c].sid) \in Keys
           /\ ScorePercent(call[c].report.score, 1000) \in Percents /\ PassMark \in Percents
           /\ Backed(call[c].sid, ScorePercent(call[c].report.score, 1000))
<1>1. call[c] \in Call /\ CallInv(c)
    BY CallFacts
<1>2. c \in WebCalls /\ call[c].sid \in Sids /\ ~call[c].report.error
      /\ call[c].report \in results[call[c].sid]
    BY <1>1 DEF CallInv, At, PastResult
<1>3. call[c].report.score \in Tenths
    BY <1>1 DEF Call, Report
<1> QED BY <1>2, <1>3, ScorePercentIsPercent, ServerFiles, Marks DEF InAppKeys, Backed

LEMMA LedgerStep ==
    ASSUME SubmissionInv, [Next]_vars
    PROVE  [LedgerNext]_ledgerVars
<1>1. CASE UNCHANGED vars
    BY <1>1 DEF vars, ledgerVars
<1>2. ASSUME NEW c \in Calls, FileCompletion(c)
      PROVE  [LedgerNext]_ledgerVars
    BY <1>2, MarkedPercents DEF FileCompletion, LedgerNext
<1>3. ASSUME NEW p \in Writers, NEW k \in Keys, NEW m \in MachineMarks, PeerReports(p, k, m)
      PROVE  [LedgerNext]_ledgerVars
    <2>1. ScorePercent(Evaluate(m).score, 1000) \in Percents /\ PassMark \in Percents
        BY EvaluateIsAReport, ScorePercentIsPercent, Marks DEF Report
    <2> QED BY <1>3, <2>1 DEF PeerReports, LedgerNext
<1>4. ASSUME NEW w \in Writers, Filing(w)
      PROVE  [LedgerNext]_ledgerVars
    BY <1>4 DEF Filing, LedgerNext
<1>5. CASE WebCrash
    BY <1>5 DEF WebCrash, LedgerNext
<1>6. ASSUME NEW c \in Calls, NEW s \in Sids, NEW values, TouchRead(c, s) \/ Complete(c, s, values)
      PROVE  UNCHANGED ledgerVars
    BY <1>6 DEF TouchRead, Complete, Begin
<1>7. ASSUME NEW c \in Calls,
             \/ TouchSave(c) \/ CheckSave(c) \/ Grade(c) \/ GradedSave(c) \/ KeepValues(c)
             \/ MarkWriteUp(c) \/ FinishSave(c) \/ AddResult(c) \/ SaveTicket(c)
             \/ ClearTicketDraft(c) \/ DestroyInstance(c) \/ GoneSave(c) \/ CliCrash(c)
      PROVE  UNCHANGED ledgerVars
    BY <1>7 DEF TouchSave, CheckSave, Grade, GradedSave, KeepValues, MarkWriteUp, FinishSave,
                AddResult, SaveTicket, ClearTicketDraft, DestroyInstance, GoneSave, CliCrash
<1>8. ASSUME NEW s \in Sids, NEW values \in WriteUps, SaveTicketDraft(s, values)
      PROVE  UNCHANGED ledgerVars
    BY <1>8 DEF SaveTicketDraft
<1> QED BY <1>1, <1>2, <1>3, <1>4, <1>5, <1>6, <1>7, <1>8 DEF Next

(***************************************************************************)
(* A step of the ledger's own keeps what is said of the submissions, if    *)
(* whatever it writes down as an attempt of this app is a stored report.   *)
(***************************************************************************)
LEMMA LedgerMoves ==
    ASSUME SubmissionInv, [LedgerNext]_ledgerVars, UNCHANGED <<session, calls>>,
           call' \in [Calls -> Call], crashes' \in 0..MaxCrashes,
           \A c \in Calls : call'[c] = call[c] \/ call'[c] = NoCall,
           \A w \in Writers : WriterInv(w)',
           \A k \in Keys : \/ attempt'[k] = attempt[k]
                           \/ \E w \in Writers : /\ writer[w].key = k
                                                 /\ attempt'[k] = Graded(w)
    PROVE  SubmissionInv'
<1> USE DEF session
<1>1. LedgerInv'
    BY InvStep DEF SubmissionInv
<1>2. TypeOK'
    BY <1>1 DEF SubmissionInv, TypeOK, LedgerInv
<1>3. ASSUME NEW c \in Calls
      PROVE  CallInv(c)'
    <2>1. CASE call'[c] = call[c]
        BY <2>1, CallFacts, OthersKeep
    <2>2. CASE call'[c] = NoCall
        BY <2>2, FailedIsAReport DEF CallInv, NoCall, PastResult
    <2> QED BY <2>1, <2>2
<1>4. UngradedNeverPasses'
    BY DEF SubmissionInv, UngradedNeverPasses
<1>5. ASSUME NEW s \in Sids, attempt'[InAppSessionKey(s)] # Unfiled
      PROVE  Backed(s, attempt[InAppSessionKey(s)].score)'
    <2> DEFINE k == InAppSessionKey(s)
    <2>1. k \in Keys
        BY ServerFiles DEF InAppKeys
    <2>2. CASE attempt'[k] = attempt[k]
        BY <1>5, <2>2, StillBacked DEF SubmissionInv, FiledIsStored
    <2>3. ASSUME NEW w \in Writers, writer[w].key = k, attempt'[k] = Graded(w)
          PROVE  Backed(s, attempt[k].score)'
        BY <2>3, StillBacked DEF SubmissionInv, WriterInv, Graded
    <2> QED BY <2>1, <2>2, <2>3
<1> QED BY <1>1, <1>2, <1>3, <1>4, <1>5 DEF SubmissionInv, FiledIsStored

\* A delivery that is backed by the session it is for keeps it so.
LEMMA DeliverKeeps ==
    ASSUME SubmissionInv, NEW w \in Writers, NEW k \in Keys, NEW score, NEW mark,
           Deliver(w, k, score, mark), UNCHANGED results,
           \A s \in Sids : k = InAppSessionKey(s) => Backed(s, score)
    PROVE  \A v \in Writers : WriterInv(v)'
<1>1. writer \in [Writers -> Writing]
    BY DEF SubmissionInv, TypeOK, LedgerTypeOK
<1>2. writer'[w].key = k /\ writer'[w].score = score
      /\ \A v \in Writers \ {w} : writer'[v] = writer[v]
    BY <1>1 DEF Deliver
<1> QED BY <1>2, StillBacked DEF SubmissionInv, WriterInv

LEMMA FilingKeeps ==
    ASSUME SubmissionInv, NEW w \in Writers, FilingStep(w), UNCHANGED results
    PROVE  /\ \A v \in Writers : WriterInv(v)'
           /\ \A k \in Keys : \/ attempt'[k] = attempt[k]
                              \/ \E v \in Writers : writer[v].key = k /\ attempt'[k] = Graded(v)
<1>1. writer \in [Writers -> Writing] /\ attempt \in [Keys -> Attempts \union {Unfiled}]
    BY DEF SubmissionInv, TypeOK, LedgerTypeOK
<1>2. \/ writer' = [writer EXCEPT ![w] = Resting]
      \/ \E pc \in WriterPcs : Move(w, pc)
    BY DEF FilingStep, Find, Resolve, Create, NotCreated, Audit, AnnounceGraded,
           SendCertificateDownChain, Answer, WriterPcs
<1>3. \A v \in Writers :
            \/ /\ writer'[v].key = writer[v].key
               /\ writer'[v].score = writer[v].score
            \/ writer'[v] = Resting
    BY <1>1, <1>2 DEF Move, Writing
<1>4. \A s \in Sids : Resting.key # InAppSessionKey(s)
    BY ServerFiles, UnfiledIsNoKey DEF Resting, InAppKeys
<1>5. \A v \in Writers : WriterInv(v)'
    BY <1>3, <1>4, StillBacked DEF SubmissionInv, WriterInv
<1>6. CASE Create(w)
    BY <1>1, <1>5, <1>6 DEF Create
<1>7. CASE ~Create(w)
    BY <1>5, <1>7 DEF FilingStep, Find, Resolve, NotCreated, Audit, AnnounceGraded,
                      SendCertificateDownChain
<1> QED BY <1>6, <1>7

(***************************************************************************)
(* Every step keeps the invariant.                                         *)
(***************************************************************************)
LEMMA SubmissionStep ==
    ASSUME SubmissionInv, [Next]_vars
    PROVE  SubmissionInv'
<1>0. [LedgerNext]_ledgerVars
    BY LedgerStep
<1>1. CASE UNCHANGED vars
    <2>1. \A w \in Writers : WriterInv(w)'
        BY <1>1, StillBacked DEF vars, SubmissionInv, WriterInv
    <2>2. UNCHANGED <<session, calls, crashes, call, attempt>>
        BY <1>1 DEF vars, session
    <2> QED BY <1>0, <2>1, <2>2, LedgerMoves DEF SubmissionInv, TypeOK
<1>2. ASSUME NEW c \in Calls, NEW s \in Sids, TouchRead(c, s)
      PROVE  SubmissionInv'
    BY <1>2, BeginKeeps DEF TouchRead, Drafts
<1>3. ASSUME NEW c \in Calls, NEW s \in Sids, NEW values \in Drafts, Complete(c, s, values)
      PROVE  SubmissionInv'
    BY <1>3, BeginKeeps DEF Complete
<1>4. ASSUME NEW c \in Calls,
             \/ TouchSave(c) \/ CheckSave(c) \/ Grade(c) \/ GradedSave(c) \/ KeepValues(c)
             \/ MarkWriteUp(c) \/ FinishSave(c) \/ AddResult(c) \/ SaveTicket(c)
             \/ ClearTicketDraft(c) \/ DestroyInstance(c) \/ GoneSave(c)
      PROVE  SubmissionInv'
    BY <1>4, CallStepKeeps
<1>5. ASSUME NEW c \in Calls, FileCompletion(c)
      PROVE  SubmissionInv'
    <2>1. /\ c \in Writers /\ call[c].sid \in Sids /\ InAppSessionKey(call[c].sid) \in Keys
          /\ Backed(call[c].sid, ScorePercent(call[c].report.score, 1000))
        BY <1>5, MarkedPercents DEF FileCompletion
    <2>2. /\ UNCHANGED <<session, calls, crashes, attempt>>
          /\ \A d \in Calls : call'[d] = call[d] \/ call'[d] = NoCall
          /\ call' \in [Calls -> Call]
        BY <1>5, CallFacts, NoCallIsACall DEF FileCompletion, Deliver, Return, env, session,
                                               ledgerVars
    <2>3. \A w \in Writers : WriterInv(w)'
        <3>1. CASE Deliver(c, InAppSessionKey(call[c].sid),
                           ScorePercent(call[c].report.score, 1000), PassMark)
            BY <2>1, <2>2, <3>1, SessionKeysDiffer, DeliverKeeps DEF session
        <3>2. CASE UNCHANGED ledgerVars
            BY <2>2, <3>2, StillBacked DEF SubmissionInv, WriterInv, ledgerVars, session
        <3> QED BY <1>5, <3>1, <3>2 DEF FileCompletion
    <2> QED BY <1>0, <2>2, <2>3, LedgerMoves DEF SubmissionInv, TypeOK
<1>6. ASSUME NEW p \in Writers, NEW k \in Keys \ InAppKeys, NEW m \in MachineMarks,
             PeerReports(p, k, m)
      PROVE  SubmissionInv'
    <2>1. UNCHANGED <<session, calls, crashes, call, attempt>>
        BY <1>6 DEF PeerReports, Deliver, env
    <2>2. \A w \in Writers : WriterInv(w)'
        BY <1>6, <2>1, DeliverKeeps DEF PeerReports, InAppKeys, session
    <2> QED BY <1>0, <2>1, <2>2, LedgerMoves DEF SubmissionInv, TypeOK
<1>7. ASSUME NEW w \in Writers, Filing(w)
      PROVE  SubmissionInv'
    <2>1. UNCHANGED <<session, calls, crashes, call>> /\ UNCHANGED results
        BY <1>7 DEF Filing, env, session
    <2> QED BY <1>0, <1>7, <2>1, FilingKeeps, LedgerMoves DEF Filing, SubmissionInv, TypeOK
<1>8. CASE WebCrash
    <2>1. /\ UNCHANGED <<session, calls, attempt>> /\ crashes' \in 0..MaxCrashes
          /\ call' \in [Calls -> Call]
          /\ \A c \in Calls : call'[c] = call[c] \/ call'[c] = NoCall
        BY <1>8, CallFacts, NoCallIsACall, SubmissionBounds
           DEF WebCrash, LedgerRestart, SubmissionInv, TypeOK
    <2>2. \A w \in Writers : WriterInv(w)'
        BY <1>8, ServerFiles, UnfiledIsNoKey DEF WebCrash, LedgerRestart, Resting, WriterInv,
                                                 InAppKeys
    <2> QED BY <1>0, <2>1, <2>2, LedgerMoves
<1>9. ASSUME NEW c \in Calls, CliCrash(c)
      PROVE  SubmissionInv'
    <2>1. /\ UNCHANGED <<session, calls, attempt, writer>> /\ crashes' \in 0..MaxCrashes
          /\ call' \in [Calls -> Call]
          /\ \A d \in Calls : call'[d] = call[d] \/ call'[d] = NoCall
        BY <1>9, CallFacts, NoCallIsACall, SubmissionBounds
           DEF CliCrash, Return, ledgerVars, SubmissionInv, TypeOK
    <2>2. \A w \in Writers : WriterInv(w)'
        BY <2>1, StillBacked DEF SubmissionInv, WriterInv, session
    <2> QED BY <1>0, <2>1, <2>2, LedgerMoves
<1>10. ASSUME NEW s \in Sids, NEW values \in WriteUps, SaveTicketDraft(s, values)
       PROVE  SubmissionInv'
    <2>1. draft' \in [Sids -> Drafts] /\ calls' \in 0..MaxCalls
        <3>1. draft \in [Sids -> Drafts] /\ calls \in 0..MaxCalls
            BY DEF SubmissionInv, TypeOK
        <3>2. calls' \in 0..MaxCalls
            BY <1>10, <3>1, SubmissionBounds DEF SaveTicketDraft
        <3> QED BY <1>10, <3>1, <3>2 DEF SaveTicketDraft, Drafts
    <2>2. TypeOK' /\ LedgerInv'
        BY <1>10, <2>1 DEF SaveTicketDraft, SubmissionInv, TypeOK, LedgerInv, ledgerVars,
                           LedgerTypeOK, NothingBeforeFiling, FilerIsFirst, OneFiler, Filed,
                           Writes, Graded
    <2>3. \A c \in Calls : CallInv(c)'
        BY <1>10, OthersKeep DEF SaveTicketDraft, SubmissionInv
    <2>4. \A w \in Writers : WriterInv(w)'
        BY <1>10, StillBacked DEF SaveTicketDraft, SubmissionInv, WriterInv, ledgerVars
    <2>5. UngradedNeverPasses' /\ FiledIsStored'
        BY <1>10, StillBacked DEF SaveTicketDraft, SubmissionInv, UngradedNeverPasses,
                                  FiledIsStored, ledgerVars
    <2> QED BY <2>2, <2>3, <2>4, <2>5 DEF SubmissionInv
<1> QED BY <1>1, <1>2, <1>3, <1>4, <1>5, <1>6, <1>7, <1>8, <1>9, <1>10 DEF Next

(***************************************************************************)
(* The types, for any calls, sessions, write-ups, marks and bounds.        *)
(***************************************************************************)
THEOREM SubmissionInvariant == Spec => []SubmissionInv
BY SubmissionInitially, SubmissionStep, PTL DEF Spec

THEOREM SubmissionTypeCorrect == Spec => []TypeOK
<1>1. SubmissionInv => TypeOK
    BY DEF SubmissionInv
<1> QED BY <1>1, SubmissionInvariant, PTL

(***************************************************************************)
(* A machine that could not be graded never has a pass, or a number, in    *)
(* the table of results, whatever the write-up was worth.                  *)
(***************************************************************************)
THEOREM UngradedNeverGetsAPass == Spec => []UngradedNeverPasses
<1>1. SubmissionInv => UngradedNeverPasses
    BY DEF SubmissionInv
<1> QED BY <1>1, SubmissionInvariant, PTL

(***************************************************************************)
(* An attempt filed for a session of this app always has the score of a    *)
(* report that is stored for the session, across overlapping submissions   *)
(* and crashes.                                                            *)
(***************************************************************************)
THEOREM FiledIsAlwaysStored == Spec => []FiledIsStored
<1>1. SubmissionInv => FiledIsStored
    BY DEF SubmissionInv
<1> QED BY <1>1, SubmissionInvariant, PTL

(***************************************************************************)
(* The draft of a write-up is only ever taken away from a session that has *)
(* its write-up stored: only ClearTicketDraft does, and by then the call   *)
(* has stored one, which nobody removes.                                   *)
(***************************************************************************)
THEOREM DraftIsAlwaysKept == Spec => DraftIsKept
<1> DEFINE Cleared == \A s \in Sids :
                        draft[s] # Unfiled /\ draft'[s] = Unfiled => tickets[s] # {}
<1>1. ASSUME SubmissionInv, [Next]_vars
      PROVE  [Cleared]_draft
    <2> SUFFICES ASSUME NEW s \in Sids, draft[s] # Unfiled, draft'[s] = Unfiled
                 PROVE  tickets[s] # {}
        OBVIOUS
    <2>1. draft # draft' /\ draft \in [Sids -> Drafts]
        BY <1>1, CallFacts DEF SubmissionInv, TypeOK
    <2>2. ASSUME NEW c \in Calls, KeepValues(c)
          PROVE  FALSE
        BY <1>1, <2>1, <2>2, CallFacts DEF KeepValues
    <2>3. ASSUME NEW c \in Calls, ClearTicketDraft(c)
          PROVE  tickets[s] # {}
        BY <1>1, <2>1, <2>3, CallFacts DEF ClearTicketDraft, CallInv, At
    <2>4. ASSUME NEW t \in Sids, NEW values \in WriteUps, SaveTicketDraft(t, values)
          PROVE  FALSE
        BY <2>1, <2>4, NothingIsNothing, Marks DEF SaveTicketDraft
    <2>5. ASSUME NEW c \in Calls, NEW t \in Sids, NEW values,
                 TouchRead(c, t) \/ Complete(c, t, values)
          PROVE  FALSE
        BY <2>1, <2>5 DEF TouchRead, Complete, Begin, session
    <2>6. ASSUME NEW c \in Calls,
                 \/ TouchSave(c) \/ CheckSave(c) \/ Grade(c) \/ GradedSave(c)
                 \/ MarkWriteUp(c) \/ FinishSave(c) \/ AddResult(c) \/ SaveTicket(c)
                 \/ DestroyInstance(c) \/ GoneSave(c) \/ FileCompletion(c) \/ CliCrash(c)
          PROVE  FALSE
        BY <2>1, <2>6 DEF TouchSave, CheckSave, Grade, GradedSave, MarkWriteUp, FinishSave,
                          AddResult, SaveTicket, DestroyInstance, GoneSave, FileCompletion,
                          CliCrash, session
    <2>7. CASE WebCrash \/ (\E w \in Writers : Filing(w)) \/ UNCHANGED vars
               \/ \E p \in Writers, k \in Keys, m \in MachineMarks : PeerReports(p, k, m)
        BY <2>1, <2>7 DEF WebCrash, Filing, PeerReports, session, vars
    <2> QED BY <1>1, <2>2, <2>3, <2>4, <2>5, <2>6, <2>7 DEF Next
<1> QED BY <1>1, SubmissionInvariant, PTL DEF Spec, DraftIsKept

(***************************************************************************)
(* Verdict and write-up travel together: the steps that do not store       *)
(* either keep ResolvedIsDocumented if no call loses its write-up.         *)
(***************************************************************************)
LEMMA StillDocumented ==
    ASSUME ResolvedIsDocumented, UNCHANGED <<results, tickets>>,
           crashes' = 0 => crashes = 0,
           \A d \in Calls : At(d, "ticket") => call'[d] = call[d]
    PROVE  ResolvedIsDocumented'
BY DEF ResolvedIsDocumented, At

LEMMA BlendInIsDocumented ==
    ASSUME NEW report \in Report, NEW ticket \in Tickets, BlendIn(report, ticket).resolved,
           Honest(report), ticket # Unfiled
    PROVE  Clears(ticket)
<1>1. ~report.error
    BY DEF BlendIn, Honest
<1>2. BlendIn(report, ticket) =
        [report EXCEPT !.score = Blend(report.score, ticket, Weight),
                       !.resolved = report.resolved /\ ticket.submitted
                                       /\ ClearedPassMark(ticket.score, 1000, FormPassMark)]
    BY <1>1 DEF BlendIn
<1>3. ticket.submitted /\ ClearedPassMark(ticket.score, 1000, FormPassMark)
    BY <1>2 DEF Report
<1> QED BY <1>3 DEF Clears

LEMMA DocumentedStep ==
    ASSUME DocumentedInv, [Next]_vars
    PROVE  DocumentedInv'
<1> USE DEF At
<1>0. /\ SubmissionInv /\ SubmissionInv' /\ ResolvedIsDocumented
      /\ \A d \in Calls : Documented(d)
      /\ call \in [Calls -> Call] /\ crashes \in 0..MaxCrashes
    BY SubmissionStep DEF DocumentedInv, SubmissionInv, TypeOK
\* What keeps a call documented, and a step that only moves such a call.
<1>1. ASSUME NEW d \in Calls,
             \/ call'[d] = call[d]
             \/ call'[d].pc \notin {"finish", "result", "ticket"}
             \/ /\ call[d].pc \in {"finish", "result"}
                /\ call'[d].report = call[d].report /\ call'[d].ticket = call[d].ticket
      PROVE  Documented(d)'
    BY <1>0, <1>1 DEF Documented, Clears
<1>2. ASSUME UNCHANGED <<results, tickets, crashes>>, NEW c \in Calls, call[c].pc # "ticket",
             \A d \in Calls \ {c} : call'[d] = call[d], Documented(c)'
      PROVE  DocumentedInv'
    BY <1>0, <1>1, <1>2, StillDocumented DEF DocumentedInv
<1>3. ASSUME NEW c \in Calls, NEW pc \in Pcs, Go(c, pc)
      PROVE  /\ \A d \in Calls \ {c} : call'[d] = call[d]
             /\ call'[c].pc = pc /\ call'[c].sid = call[c].sid
             /\ call'[c].report = call[c].report /\ call'[c].ticket = call[c].ticket
    BY <1>0, <1>3 DEF Go, Call
<1>4. ASSUME NEW c \in Calls, Return(c)
      PROVE  /\ \A d \in Calls \ {c} : call'[d] = call[d]
             /\ call'[c].pc = "idle" /\ Documented(c)'
    BY <1>0, <1>1, <1>4 DEF Return, NoCall
<1>5. ASSUME NEW c \in Calls, NEW s \in Sids, NEW values \in Drafts, NEW pc \in {"touch", "check", "draft"},
             Begin(c, s, pc, values)
      PROVE  DocumentedInv'
    <2>1. call'[c].pc = pc /\ \A d \in Calls \ {c} : call'[d] = call[d]
        BY <1>0, <1>5 DEF Begin, NoCall
    <2> QED BY <1>1, <1>2, <1>5, <2>1 DEF Begin, session
<1>6. ASSUME NEW c \in Calls, NEW s \in Sids,
             TouchRead(c, s) \/ \E values \in Drafts : Complete(c, s, values)
      PROVE  DocumentedInv'
    BY <1>5, <1>6 DEF TouchRead, Complete, Drafts
<1>7. ASSUME NEW c \in Calls, CheckSave(c) \/ GradedSave(c) \/ KeepValues(c) \/ FinishSave(c)
                              \/ ClearTicketDraft(c)
      PROVE  DocumentedInv'
    <2>1. PICK pc \in {"grade", "draft", "mark", "result", "destroy"} :
            Go(c, pc) /\ (pc = "result" => call[c].pc = "finish")
        BY <1>7 DEF CheckSave, GradedSave, KeepValues, FinishSave, ClearTicketDraft
    <2>2. Documented(c)'
        BY <1>1, <1>3, <2>1 DEF Pcs
    <2>3. UNCHANGED <<results, tickets, crashes>> /\ call[c].pc # "ticket"
        BY <1>7 DEF CheckSave, GradedSave, KeepValues, FinishSave, ClearTicketDraft, env
    <2> QED BY <1>2, <1>3, <2>1, <2>2, <2>3 DEF Pcs
<1>8. ASSUME NEW c \in Calls, TouchSave(c) \/ FileCompletion(c)
      PROVE  DocumentedInv'
    BY <1>2, <1>4, <1>8 DEF TouchSave, FileCompletion, env, session
<1>9. ASSUME NEW c \in Calls, GoneSave(c)
      PROVE  DocumentedInv'
    <2>1. CASE Go(c, "file")
        BY <1>1, <1>2, <1>3, <1>9, <2>1 DEF GoneSave, env, Pcs
    <2>2. CASE Return(c)
        BY <1>2, <1>4, <1>9, <2>2 DEF GoneSave, env
    <2> QED BY <1>9, <2>1, <2>2 DEF GoneSave
<1>10. ASSUME NEW c \in Calls, Grade(c) \/ DestroyInstance(c)
       PROVE  DocumentedInv'
    <2>1. /\ call'[c].pc \in {"graded", "gone"} /\ \A d \in Calls \ {c} : call'[d] = call[d]
          /\ call[c].pc # "ticket"
        BY <1>0, <1>10 DEF Grade, DestroyInstance, Call
    <2> QED BY <1>1, <1>2, <1>10, <2>1 DEF Grade, DestroyInstance, env, session
<1>11. ASSUME NEW c \in Calls, MarkWriteUp(c)
       PROVE  DocumentedInv'
    <2> DEFINE handed == draft[call[c].sid]
               ticket == IF handed = Unfiled THEN Blank ELSE handed
               report == IF HasForm THEN BlendIn(call[c].report, ticket) ELSE call[c].report
               kept   == IF HasForm THEN ticket ELSE Unfiled
    <2>1. /\ call' = [call EXCEPT ![c].pc = "finish", ![c].row.completed = TRUE,
                                  ![c].ticket = kept, ![c].report = report]
          /\ call[c].pc = "mark" /\ UNCHANGED <<session, crashes>>
        BY <1>11 DEF MarkWriteUp, env
    <2>2. HasForm /\ report.resolved => Clears(kept)
        <3>1. call[c].report \in Report /\ Honest(call[c].report) /\ call[c].sid \in Sids
            BY <1>0, <2>1, CallFacts DEF CallInv, Call
        <3>2. Blank \in [score : Tenths, submitted : BOOLEAN]
            BY DEF Blank, Tenths
        <3>3. handed \in Drafts /\ ticket \in Tickets /\ ticket # Unfiled
            BY <1>0, <3>1, <3>2, CallFacts, NothingIsNothing DEF Drafts, Tickets
        <3> HIDE DEF ticket
        <3> QED BY <3>1, <3>3, BlendInIsDocumented
    <2> HIDE DEF report, kept
    <2>3. /\ call'[c].report = report /\ call'[c].ticket = kept
          /\ \A d \in Calls \ {c} : call'[d] = call[d]
        BY <1>0, <2>1 DEF Call
    <2>4. Documented(c)'
        BY <2>2, <2>3 DEF Documented, Clears
    <2> QED BY <1>2, <2>1, <2>3, <2>4 DEF session
<1>12. ASSUME NEW c \in Calls, AddResult(c)
       PROVE  DocumentedInv'
    <2>1. PICK pc \in {"ticket", "destroy"} : Go(c, pc) /\ (HasForm => pc = "ticket")
        BY <1>12 DEF AddResult
    <2>2. /\ \A d \in Calls \ {c} : call'[d] = call[d]
          /\ call'[c].pc = pc /\ call'[c].sid = call[c].sid
          /\ call'[c].report = call[c].report /\ call'[c].ticket = call[c].ticket
        BY <1>3, <2>1 DEF Pcs
    <2>3. \A d \in Calls : Documented(d)'
        BY <1>1, <1>12, <2>2 DEF AddResult
    <2>4. ResolvedIsDocumented'
        <3> SUFFICES ASSUME HasForm, crashes' = 0, NEW s \in Sids, NEW r \in results'[s], r.resolved
                     PROVE  \/ \E t \in tickets'[s] : Clears(t)
                            \/ \E d \in Calls : call'[d].pc = "ticket" /\ call'[d].sid = s
                                               /\ Clears(call'[d].ticket)
            BY DEF ResolvedIsDocumented, Clears
        <3>1. CASE r \in results[s]
            BY <1>0, <1>12, <2>2, <3>1 DEF ResolvedIsDocumented, AddResult, env
        <3>2. CASE r \notin results[s]
            <4>1. call[c].sid = s /\ r = call[c].report
                BY <1>0, <1>12, <3>2, CallFacts DEF AddResult
            <4>2. Clears(call[c].ticket)
                BY <1>0, <1>12, <4>1 DEF AddResult, Documented
            <4> QED BY <2>1, <2>2, <4>1, <4>2
        <3> QED BY <3>1, <3>2
    <2> QED BY <1>0, <2>3, <2>4 DEF DocumentedInv
<1>13. ASSUME NEW c \in Calls, SaveTicket(c)
       PROVE  DocumentedInv'
    <2>1. /\ \A d \in Calls \ {c} : call'[d] = call[d]
          /\ call'[c].pc = "clear"
        BY <1>3, <1>13 DEF SaveTicket, Pcs
    <2>2. \A d \in Calls : Documented(d)'
        BY <1>1, <2>1
    <2>3. call[c].sid \in Sids /\ tickets \in [Sids -> SUBSET Tickets]
        BY <1>0, <1>13, CallFacts DEF SaveTicket, CallInv
    <2>4. /\ call[c].ticket \in tickets'[call[c].sid]
          /\ \A s \in Sids : tickets[s] \subseteq tickets'[s]
        BY <1>13, <2>3 DEF SaveTicket
    <2>5. ResolvedIsDocumented'
        <3> SUFFICES ASSUME HasForm, crashes' = 0, NEW s \in Sids, NEW r \in results'[s], r.resolved
                     PROVE  \/ \E t \in tickets'[s] : Clears(t)
                            \/ \E d \in Calls : call'[d].pc = "ticket" /\ call'[d].sid = s
                                               /\ Clears(call'[d].ticket)
            BY DEF ResolvedIsDocumented, Clears
        <3>1. \/ \E t \in tickets[s] : Clears(t)
              \/ \E d \in Calls : call[d].pc = "ticket" /\ call[d].sid = s
                                 /\ Clears(call[d].ticket)
            BY <1>0, <1>13 DEF SaveTicket, ResolvedIsDocumented, env
        <3>2. ASSUME NEW d \in Calls, call[d].pc = "ticket", call[d].sid = s,
                     Clears(call[d].ticket)
              PROVE  \/ \E t \in tickets'[s] : Clears(t)
                     \/ \E e \in Calls : call'[e].pc = "ticket" /\ call'[e].sid = s
                                        /\ Clears(call'[e].ticket)
            <4>1. CASE d = c
                BY <2>4, <3>2, <4>1
            <4>2. CASE d # c
                BY <2>1, <3>2, <4>2
            <4> QED BY <4>1, <4>2
        <3> QED BY <2>4, <3>1, <3>2
    <2> QED BY <1>0, <2>2, <2>5 DEF DocumentedInv
<1>14. CASE WebCrash \/ \E c \in Calls : CliCrash(c)
    <2>1. crashes' # 0
        BY <1>0, <1>14 DEF WebCrash, CliCrash
    <2>2. \A d \in Calls : call'[d] = call[d] \/ call'[d] = NoCall
        BY <1>0, <1>14 DEF WebCrash, CliCrash, Return
    <2>3. \A d \in Calls : Documented(d)'
        BY <1>1, <2>2 DEF NoCall
    <2> QED BY <1>0, <2>1, <2>3 DEF DocumentedInv, ResolvedIsDocumented
<1>15. CASE \/ UNCHANGED vars
            \/ \E s \in Sids, values \in WriteUps : SaveTicketDraft(s, values)
            \/ \E p \in Writers, k \in Keys, m \in MachineMarks : PeerReports(p, k, m)
            \/ \E w \in Writers : Filing(w)
    <2>1. UNCHANGED <<call, results, tickets, crashes>>
        BY <1>15 DEF vars, SaveTicketDraft, PeerReports, Filing, session, env
    <2>2. ResolvedIsDocumented' /\ \A d \in Calls : Documented(d)'
        BY <1>0, <1>1, <2>1, StillDocumented
    <2> QED BY <1>0, <2>2 DEF DocumentedInv
<1> QED BY <1>6, <1>7, <1>8, <1>9, <1>10, <1>11, <1>12, <1>13, <1>14, <1>15 DEF Next

(***************************************************************************)
(* As long as no process is lost, every stored pass of a scenario with a   *)
(* form has a write-up that clears the form's mark stored, or about to be, *)
(* whatever drafts are saved while it is being marked.                     *)
(***************************************************************************)
THEOREM ResolvedIsAlwaysDocumented == Spec => []ResolvedIsDocumented
<1>1. Init => DocumentedInv
    <2> SUFFICES ASSUME Init PROVE DocumentedInv
        OBVIOUS
    <2>1. ResolvedIsDocumented /\ \A c \in Calls : Documented(c)
        BY DEF Init, ResolvedIsDocumented, Documented, NoCall
    <2> QED BY <2>1, SubmissionInitially DEF DocumentedInv
<1>2. DocumentedInv => ResolvedIsDocumented
    BY DEF DocumentedInv
<1> QED BY <1>1, <1>2, DocumentedStep, PTL DEF Spec

(***************************************************************************)
(* Submissions, retries, peers and crashes together are a ledger that      *)
(* keeps its promise: each session is filed once and never rewritten,      *)
(* announced at most once, and certified only if it passed, once.          *)
(***************************************************************************)
THEOREM SubmissionsAreFiledOnce == Spec => FiledOnce
<1>1. Init => LedgerInit
    BY DEF Init
<1>2. Spec => LedgerSpec
    BY <1>1, LedgerStep, SubmissionInvariant, PTL DEF Spec, LedgerSpec
<1> QED BY <1>2, LedgerKeepsItsPromise
=============================================================================
