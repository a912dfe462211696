------------------------------- MODULE Ledger -------------------------------
(***************************************************************************)
(* What the family's one ledger promises of a graded lab session, however  *)
(* often and from wherever it is reported: it is filed at most once and    *)
(* never rewritten, a filed one is announced at most once, and only one    *)
(* that carries a certificate is sent down the chain of trust, once.       *)
(***************************************************************************)
EXTENDS Naturals

CONSTANTS
    Keys,           \* the ids completions are filed under
    Attempts,       \* what may be filed: records with a `certificate` field
    Unfiled         \* not an attempt

VARIABLES
    filed,          \* filed[k]: the attempt under k, or Unfiled
    announced,      \* how often k's grading was announced
    chained         \* how often k's certificate was sent for signing

Init ==
    /\ filed = [k \in Keys |-> Unfiled]
    /\ announced = [k \in Keys |-> 0]
    /\ chained = [k \in Keys |-> 0]

File(k) ==
    /\ filed[k] = Unfiled
    /\ filed'[k] \in Attempts
    /\ filed' = [filed EXCEPT ![k] = filed'[k]]
    /\ UNCHANGED <<announced, chained>>

Announce(k) ==
    /\ filed[k] # Unfiled
    /\ announced[k] = 0
    /\ announced' = [announced EXCEPT ![k] = 1]
    /\ UNCHANGED <<filed, chained>>

SendCertificate(k) ==
    /\ filed[k] # Unfiled /\ filed[k].certificate
    /\ chained[k] = 0
    /\ chained' = [chained EXCEPT ![k] = 1]
    /\ UNCHANGED <<filed, announced>>

Next == \E k \in Keys : File(k) \/ Announce(k) \/ SendCertificate(k)

Spec == Init /\ [][Next]_<<filed, announced, chained>>
=============================================================================
