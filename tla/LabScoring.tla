----------------------------- MODULE LabScoring -----------------------------
(***************************************************************************)
(* The arithmetic of a lab grade (scoring.ts, tickets.ts, score-rules.ts). *)
(* A mark is a percentage kept to one decimal, so an integer of tenths     *)
(* here: 0..1000.  Pass marks and the write-up's weight are whole percents. *)
(***************************************************************************)
EXTENDS Integers

Tenths   == 0..1000
Percents == 0..100

MaxTicketWeight == 60

\* roundHalfEven(n / d) for naturals, to a whole number.
RoundHalfEven(n, d) ==
    LET q == n \div d
        r == n % d
    IN  IF 2 * r < d \/ (2 * r = d /\ q % 2 = 0) THEN q ELSE q + 1

\* Math.round of a score to a whole percent of what it is out of.
ScorePercent(score, maxScore) == (200 * score + maxScore) \div (2 * maxScore)

ClearedPassMark(score, maxScore, passScore) ==
    maxScore > 0 /\ ScorePercent(score, maxScore) >= passScore

Share(weight) == IF weight < MaxTicketWeight THEN weight ELSE MaxTicketWeight

\* The write-up's share of the grade; one that was not handed in counts as zero.
Blend(machine, writeUp, weight) ==
    RoundHalfEven(machine * (100 - Share(weight))
                  + (IF writeUp.submitted THEN writeUp.score ELSE 0) * Share(weight), 100)
=============================================================================
