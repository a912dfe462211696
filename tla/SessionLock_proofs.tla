------------------------- MODULE SessionLock_proofs -------------------------
(***************************************************************************)
(* Proofs about the per-session lock, for any callers, any keys and any    *)
(* bound on the chain: types, mutual exclusion, and that the chain of      *)
(* promises implements the queue of FifoLock.                              *)
(***************************************************************************)
EXTENDS MCSessionLock, FiniteSetTheorems, FunctionTheorems, SequenceTheorems, TLAPS

(***************************************************************************)
(* Every variable of the lock keeps its type: no call ever carries a gate  *)
(* number beyond its chain's bound, and none in flight carries none.       *)
(***************************************************************************)
THEOREM LockTypeCorrect == LockSpec => []LockTypeOK
<1>1. LockInit => LockTypeOK
  BY MaxLinksIsNat DEF LockInit, LockTypeOK
<1>2. LockTypeOK /\ [LockNext]_lockVars => LockTypeOK'
  <2> SUFFICES ASSUME LockTypeOK, [LockNext]_lockVars
               PROVE  LockTypeOK'
    OBVIOUS
  <2> USE MaxLinksIsNat DEF LockTypeOK
  <2>1. ASSUME NEW c \in Callers, NEW k \in Keys, Request(c, k)
        PROVE  LockTypeOK'
    <3> USE DEF Request, Links
    <3>1. chain[k] + 1 \in Links /\ Links \subseteq 0..MaxLinks
      BY <2>1
    <3>2. /\ chain' \in [Keys -> 0..MaxLinks]
          /\ place' \in [Callers -> 0..MaxLinks]
      BY <2>1, <3>1
    <3>3. \A d \in Callers : at'[d] # "out" => place'[d] \in Links
      BY <2>1, <3>1
    <3>4. QED
      BY <2>1, <3>2, <3>3
  <2>2. ASSUME NEW c \in Callers, Enter(c)
        PROVE  LockTypeOK'
    BY <2>2 DEF Enter
  <2>3. ASSUME NEW c \in Callers, Leave(c)
        PROVE  LockTypeOK'
    BY <2>3 DEF Leave
  <2>4. CASE Restart
    BY <2>4 DEF Restart
  <2>5. CASE UNCHANGED lockVars
    BY <2>5 DEF lockVars
  <2>6. QED
    BY <2>1, <2>2, <2>3, <2>4, <2>5 DEF LockNext
<1>3. QED
  BY <1>1, <1>2, PTL DEF LockSpec

(***************************************************************************)
(* The strengthening that makes mutual exclusion inductive.                *)
(***************************************************************************)
LEMMA LockInvariant == LockSpec => []LockInv
<1>1. LockInit => LockInv
  BY DEF LockInit, LockInv
<1>2. LockTypeOK /\ LockInv /\ [LockNext]_lockVars => LockInv'
  <2> SUFFICES ASSUME LockTypeOK, LockInv, [LockNext]_lockVars
               PROVE  LockInv'
    OBVIOUS
  <2> USE MaxLinksIsNat DEF LockTypeOK, LockInv
  <2>1. ASSUME NEW c \in Callers, NEW k \in Keys, Request(c, k)
        PROVE  LockInv'
    <3> USE <2>1 DEF Request
    <3>1. chain[k] \in Nat /\ chain'[k] = chain[k] + 1
      OBVIOUS
    <3>2. \A d \in Callers : at'[d] # "out" => place'[d] \in 1..chain'[key'[d]]
      BY <3>1
    <3>3. \A d \in Callers : at'[d] # "out" => place'[d] \notin gates'[key'[d]]
      BY <3>1
    <3>4. ASSUME NEW j \in Keys, NEW n \in gates'[j]
          PROVE  n <= chain'[j]
      <4>1. n \in Nat /\ chain[j] \in Nat /\ n <= chain[j]
        BY DEF Links
      <4>2. chain'[j] = chain[j] \/ chain'[j] = chain[j] + 1
        BY <3>1
      <4>3. QED
        BY <4>1, <4>2
    <3>5. \A d, e \in Callers :
            at'[d] # "out" /\ at'[e] # "out" /\ key'[d] = key'[e] /\ place'[d] = place'[e]
              => d = e
      BY <3>1
    <3>6. \A d \in Callers : at'[d] = "working" => PreviousResolved(d)'
      BY DEF PreviousResolved
    <3>7. QED
      BY <3>2, <3>3, <3>4, <3>5, <3>6
  <2>2. ASSUME NEW c \in Callers, Enter(c)
        PROVE  LockInv'
    <3> USE <2>2 DEF Enter
    <3>1. \A d \in Callers : at'[d] = "working" => PreviousResolved(d)'
      BY DEF PreviousResolved
    <3>2. \A d \in Callers : at'[d] # "out" <=> at[d] # "out"
      OBVIOUS
    <3>3. QED
      BY <3>1, <3>2
  <2>3. ASSUME NEW c \in Callers, Leave(c)
        PROVE  LockInv'
    <3> USE <2>3 DEF Leave
    <3>1. \A d \in Callers : at'[d] # "out" => at[d] # "out" /\ d # c
      OBVIOUS
    <3>2. \A d \in Callers : at'[d] # "out" => place'[d] \notin gates'[key'[d]]
      BY <3>1
    <3>3. \A k \in Keys : \A n \in gates'[k] : n <= chain'[k]
      OBVIOUS
    <3>4. \A d \in Callers : at'[d] = "working" => PreviousResolved(d)'
      BY DEF PreviousResolved
    <3>5. QED
      BY <3>1, <3>2, <3>3, <3>4
  <2>4. CASE Restart
    BY <2>4 DEF Restart
  <2>5. CASE UNCHANGED lockVars
    BY <2>5 DEF lockVars, PreviousResolved
  <2>6. QED
    BY <2>1, <2>2, <2>3, <2>4, <2>5 DEF LockNext
<1>3. QED
  BY <1>1, <1>2, LockTypeCorrect, PTL DEF LockSpec

(***************************************************************************)
(* Two calls are never inside the work of one session together: of two     *)
(* calls at work on a key, the gate of the earlier would have to be open   *)
(* for the later one to have entered, and the gate of a call in flight is  *)
(* shut.                                                                   *)
(***************************************************************************)
THEOREM LockExcludes == LockSpec => []MutualExclusion
<1>1. LockTypeOK /\ LockInv => MutualExclusion
  <2> SUFFICES ASSUME LockTypeOK, LockInv,
                      NEW c \in Callers, NEW d \in Callers,
                      at[c] = "working", at[d] = "working", key[c] = key[d], c # d
               PROVE  FALSE
    BY DEF MutualExclusion
  <2>1. place[c] \in Links /\ place[d] \in Links
    BY MaxLinksIsNat DEF LockTypeOK, LockInv, Links
  <2>2. place[c] # place[d]
    BY DEF LockInv
  <2>3. CASE place[c] < place[d]
    BY <2>1, <2>3 DEF LockInv, PreviousResolved
  <2>4. CASE place[d] < place[c]
    BY <2>1, <2>4 DEF LockInv, PreviousResolved
  <2>5. QED
    BY <2>1, <2>2, <2>3, <2>4, MaxLinksIsNat DEF Links
<1>2. QED
  BY <1>1, LockTypeCorrect, LockInvariant, PTL

-----------------------------------------------------------------------------
(***************************************************************************)
(* First come, first served.  The calls in flight on a key are in line:    *)
(* the gates that are open are the first ones, and each later one belongs  *)
(* to a call that is still there.  So the queue of FifoLock, which ranks   *)
(* the calls by the numbers of their gates, begins right after the last    *)
(* open gate and has no holes.                                             *)
(***************************************************************************)
InLine(k, m) ==
    /\ m \in 0..chain[k]
    /\ gates[k] = 1..m
    /\ \A n \in (m + 1)..chain[k] : \E c \in InFlight(k) : place[c] = n

LineInv == \A k \in Keys : \E m \in Nat : InLine(k, m)

\* The members of S have the numbers from m + 1 to n, each of them once.
Numbered(S, number, m, n) ==
    /\ m \in Nat /\ n \in Nat /\ m <= n
    /\ \A c \in S : number[c] \in (m + 1)..n
    /\ \A c, d \in S : number[c] = number[d] => c = d
    /\ \A p \in (m + 1)..n : \E c \in S : number[c] = p

\* So there are n - m of them.
LEMMA AsManyAsNumbers ==
    ASSUME NEW m, NEW n, NEW S, NEW number, Numbered(S, number, m, n)
    PROVE  Cardinality(S) = n - m
<1> USE DEF Numbered
<1> DEFINE holder == [p \in (m + 1)..n |-> CHOOSE c \in S : number[c] = p]
<1>1. \A p \in (m + 1)..n : holder[p] \in S /\ number[holder[p]] = p
  OBVIOUS
<1>2. holder \in [(m + 1)..n -> S]
  BY <1>1
<1> HIDE DEF holder
<1>3. holder \in Injection((m + 1)..n, S)
  BY <1>1, <1>2, Fun_IsInj
<1>4. \A c \in S : \E p \in (m + 1)..n : holder[p] = c
  BY <1>1
<1>5. holder \in Surjection((m + 1)..n, S)
  BY <1>2, <1>4, Fun_IsSurj
<1>6. ExistsBijection((m + 1)..n, S)
  BY <1>3, <1>5 DEF ExistsBijection, Bijection
<1>7. IsFiniteSet((m + 1)..n) /\ Cardinality((m + 1)..n) = n - m
  <2>1. m + 1 \in Int /\ n \in Int
    OBVIOUS
  <2>2. /\ IsFiniteSet((m + 1)..n)
        /\ Cardinality((m + 1)..n) = IF m + 1 > n THEN 0 ELSE n - (m + 1) + 1
    BY ONLY <2>1, FS_Interval, Zenon
  <2>3. QED
    BY <2>2
<1>8. QED
  BY <1>6, <1>7, FS_Bijection

\* The i-th of them is the one with number m + i.
LEMMA RankedInLine ==
    ASSUME NEW m, NEW n, NEW S, NEW number, Numbered(S, number, m, n)
    PROVE  /\ Ranked(S, number) \in [1..(n - m) -> S]
           /\ \A i \in 1..(n - m) : number[Ranked(S, number)[i]] = m + i
<1> USE DEF Numbered
<1> DEFINE before(c) == {d \in S : number[d] <= number[c]}
           ranked == Ranked(S, number)
<1>1. Cardinality(S) = n - m
  BY AsManyAsNumbers
<1>2. ASSUME NEW c \in S
      PROVE  Cardinality(before(c)) = number[c] - m
  <2>1. number[c] \in Nat /\ m <= number[c] /\ number[c] <= n
    OBVIOUS
  <2>2. \A d \in before(c) : number[d] \in (m + 1)..number[c]
    BY <2>1
  <2>3. \A p \in (m + 1)..number[c] : \E d \in before(c) : number[d] = p
    BY <2>1
  <2>4. \A d, e \in before(c) : number[d] = number[e] => d = e
    OBVIOUS
  <2> HIDE DEF before
  <2>5. Numbered(before(c), number, m, number[c])
    BY <2>1, <2>2, <2>3, <2>4
  <2> HIDE DEF Numbered
  <2>6. QED
    BY <2>5, AsManyAsNumbers
<1>3. ranked = [i \in 1..(n - m) |-> CHOOSE c \in S : Cardinality(before(c)) = i]
  BY <1>1 DEF Ranked
<1> HIDE DEF ranked, before
<1>4. ASSUME NEW i \in 1..(n - m)
      PROVE  ranked[i] \in S /\ number[ranked[i]] = m + i
  <2>1. PICK c \in S : number[c] = m + i
    OBVIOUS
  <2>2. Cardinality(before(c)) = i
    BY <1>2, <2>1
  <2>3. ranked[i] \in S /\ Cardinality(before(ranked[i])) = i
    BY <1>3, <2>2
  <2>4. number[ranked[i]] - m = i /\ number[ranked[i]] \in (m + 1)..n
    BY <1>2, <2>3
  <2>5. QED
    BY <2>3, <2>4
<1>5. QED
  BY <1>3, <1>4 DEF ranked

\* Whoever is at work, or has all the gates before its own open, is the first in line.
LEMMA HeadIsNext ==
    ASSUME LockTypeOK, LockInv, NEW c \in Callers, at[c] # "out", PreviousResolved(c),
           NEW m \in Nat, InLine(key[c], m)
    PROVE  place[c] = m + 1
<1>1. place[c] \in 1..chain[key[c]] /\ place[c] \notin 1..m
  BY DEF LockInv, InLine
<1>2. chain[key[c]] \in 0..MaxLinks
  BY DEF LockTypeOK
<1>3. place[c] > m
  BY <1>1, <1>2, MaxLinksIsNat
<1>4. m + 1 < place[c] => m + 1 \in 1..m
  BY <1>1, <1>2, MaxLinksIsNat DEF PreviousResolved, InLine, Links
<1>5. QED
  BY <1>1, <1>2, <1>3, <1>4, MaxLinksIsNat

\* The queue of k, when m gates of it are open: who is i-th has gate m + i.
QueueFrom(k, m) ==
    /\ chain[k] - m \in Nat
    /\ ByPlace(k) \in [1..(chain[k] - m) -> InFlight(k)]
    /\ \A i \in 1..(chain[k] - m) : place[ByPlace(k)[i]] = m + i
    /\ \A c \in InFlight(k) : place[c] - m \in 1..(chain[k] - m)
    /\ \A c, d \in InFlight(k) : place[c] = place[d] => c = d

QueuesFollow ==
    LockTypeOK /\ LockInv => \A k \in Keys, m \in Nat : InLine(k, m) => QueueFrom(k, m)

LEMMA QueuesAreInLine == QueuesFollow
<1> SUFFICES ASSUME LockTypeOK, LockInv, NEW k \in Keys, NEW m \in Nat, InLine(k, m)
             PROVE  QueueFrom(k, m)
  BY DEF QueuesFollow
<1> DEFINE S == InFlight(k)
           n == chain[k]
<1>1. n \in Nat /\ m <= n
  BY MaxLinksIsNat DEF LockTypeOK, InLine
<1>2. \A c \in S : c \in Callers /\ at[c] # "out" /\ key[c] = k
  BY DEF InFlight, Queued
<1>3. ASSUME NEW c \in S
      PROVE  place[c] \in (m + 1)..n /\ place[c] - m \in 1..(n - m)
  <2>1. place[c] \in 1..n /\ place[c] \notin 1..m
    BY <1>2 DEF LockInv, InLine
  <2>2. QED
    BY <1>1, <2>1
<1>4. \A c, d \in S : place[c] = place[d] => c = d
  BY <1>2 DEF LockInv
<1>5. \A p \in (m + 1)..n : \E c \in S : place[c] = p
  BY DEF InLine
<1> HIDE DEF S, n
<1>6. Numbered(S, place, m, n)
  BY <1>1, <1>3, <1>4, <1>5 DEF Numbered
<1>7. /\ Ranked(S, place) \in [1..(n - m) -> S]
      /\ \A i \in 1..(n - m) : place[Ranked(S, place)[i]] = m + i
  BY <1>6, RankedInLine
<1>8. n - m \in Nat
  BY <1>1
<1>9. QED
  BY <1>3, <1>4, <1>7, <1>8 DEF QueueFrom, ByPlace, S, n

LEMMA QueuesAreInLineNext == QueuesFollow'
  BY QueuesAreInLine, PTL

LEMMA LineInvariant == LockSpec => []LineInv
<1>1. LockInit => LineInv
  <2> SUFFICES ASSUME LockInit, NEW k \in Keys
               PROVE  \E m \in Nat : InLine(k, m)
    BY DEF LineInv
  <2>1. InLine(k, 0)
    BY DEF LockInit, InLine
  <2>2. QED
    BY <2>1
<1>2. LockTypeOK /\ LockInv /\ LineInv /\ [LockNext]_lockVars => LineInv'
  <2> SUFFICES ASSUME LockTypeOK, LockInv, LineInv, [LockNext]_lockVars
               PROVE  LineInv'
    OBVIOUS
  <2> USE MaxLinksIsNat
  <2>1. ASSUME NEW c \in Callers, NEW k \in Keys, Request(c, k)
        PROVE  LineInv'
    <3> SUFFICES ASSUME NEW j \in Keys
                 PROVE  (\E m \in Nat : InLine(j, m))'
      BY DEF LineInv
    <3>1. PICK m \in Nat : InLine(j, m)
      BY DEF LineInv
    <3>2. InLine(j, m)'
      <4>1. m \in 0..chain'[j] /\ gates'[j] = 1..m
        BY <2>1, <3>1 DEF Request, InLine, LockTypeOK
      <4>2. ASSUME NEW n \in (m + 1)..chain'[j]
            PROVE  \E d \in InFlight(j)' : place'[d] = n
        <5>1. CASE n \in (m + 1)..chain[j]
          <6>1. PICK d \in InFlight(j) : place[d] = n
            BY <3>1, <5>1 DEF InLine
          <6>2. d # c /\ d \in InFlight(j)' /\ place'[d] = n
            BY <2>1, <6>1 DEF Request, InFlight, Queued, LockTypeOK
          <6>3. QED
            BY <6>2
        <5>2. CASE n \notin (m + 1)..chain[j]
          <6>1. j = k /\ n = chain[k] + 1
            BY <2>1, <5>2 DEF Request, LockTypeOK
          <6>2. c \in InFlight(j)' /\ place'[c] = n
            BY <2>1, <6>1 DEF Request, InFlight, Queued, LockTypeOK
          <6>3. QED
            BY <6>2
        <5>3. QED
          BY <5>1, <5>2
      <4>3. QED
        BY <4>1, <4>2 DEF InLine
    <3>3. QED
      BY <3>2
  <2>2. ASSUME NEW c \in Callers, Enter(c)
        PROVE  LineInv'
    <3>1. \A j \in Keys : InFlight(j)' = InFlight(j)
      BY <2>2 DEF Enter, InFlight, Queued, LockTypeOK
    <3>2. QED
      BY <2>2, <3>1 DEF Enter, LineInv, InLine
  <2>3. ASSUME NEW c \in Callers, Leave(c)
        PROVE  LineInv'
    <3> SUFFICES ASSUME NEW j \in Keys
                 PROVE  (\E m \in Nat : InLine(j, m))'
      BY DEF LineInv
    <3>1. PICK m \in Nat : InLine(j, m)
      BY DEF LineInv
    <3>2. CASE j # key[c]
      <4>1. InFlight(j)' = InFlight(j) /\ gates'[j] = gates[j]
        BY <2>3, <3>2 DEF Leave, InFlight, Queued, LockTypeOK
      <4>2. InLine(j, m)'
        BY <2>3, <3>1, <4>1 DEF Leave, InLine
      <4>3. QED
        BY <4>2
    <3>3. CASE j = key[c]
      <4>1. place[c] = m + 1
        BY <2>3, <3>1, <3>3, HeadIsNext DEF Leave, LockInv
      <4>2. m + 1 \in 0..chain'[j] /\ gates'[j] = 1..(m + 1)
        <5>1. place[c] \in 1..chain[j] /\ gates[j] = 1..m
          BY <2>3, <3>1, <3>3 DEF Leave, LockInv, InLine
        <5>2. gates'[j] = gates[j] \union {place[c]} /\ chain' = chain
          BY <2>3, <3>3 DEF Leave, LockTypeOK
        <5>3. chain[j] \in Nat
          BY DEF LockTypeOK
        <5>4. QED
          BY <4>1, <5>1, <5>2, <5>3
      <4>3. ASSUME NEW n \in (m + 2)..chain'[j]
            PROVE  \E d \in InFlight(j)' : place'[d] = n
        <5>1. n \in (m + 1)..chain[j] /\ n # m + 1
          BY <2>3 DEF Leave, LockTypeOK
        <5>2. PICK d \in InFlight(j) : place[d] = n
          BY <3>1, <5>1 DEF InLine
        <5>3. d # c /\ d \in InFlight(j)' /\ place'[d] = n
          BY <2>3, <4>1, <5>1, <5>2 DEF Leave, InFlight, Queued, LockTypeOK
        <5>4. QED
          BY <5>3
      <4>4. InLine(j, m + 1)'
        BY <4>2, <4>3 DEF InLine
      <4>5. QED
        BY <4>4
    <3>4. QED
      BY <3>2, <3>3
  <2>4. CASE Restart
    <3> SUFFICES ASSUME NEW k \in Keys
                 PROVE  (\E m \in Nat : InLine(k, m))'
      BY DEF LineInv
    <3>1. InLine(k, 0)'
      BY <2>4 DEF Restart, InLine
    <3>2. QED
      BY <3>1
  <2>5. CASE UNCHANGED lockVars
    BY <2>5 DEF lockVars, LineInv, InLine, InFlight, Queued
  <2>6. QED
    BY <2>1, <2>2, <2>3, <2>4, <2>5 DEF LockNext
<1>3. QED
  BY <1>1, <1>2, LockTypeCorrect, LockInvariant, PTL DEF LockSpec

-----------------------------------------------------------------------------
(***************************************************************************)
(* Every step of the chained promises is one of FifoLock.                  *)
(***************************************************************************)
Queues == [k \in Keys |-> ByPlace(k)]
Inside == [k \in Keys |-> \E c \in InFlight(k) : at[c] = "working"]

InOrder == LockTypeOK /\ LockInv /\ LineInv

LEMMA GatesTell ==
    ASSUME NEW m \in Nat, NEW n \in Nat, 1..m = 1..n
    PROVE  m = n
<1>1. m < n => n \in 1..m
  OBVIOUS
<1>2. n < m => m \in 1..n
  OBVIOUS
<1>3. QED
  BY <1>1, <1>2

\* The line of k before and after a step.
LEMMA LinesOf ==
    ASSUME InOrder, InOrder', NEW k \in Keys
    PROVE  \E m, n \in Nat : /\ gates[k] = 1..m /\ QueueFrom(k, m)
                             /\ gates'[k] = 1..n /\ QueueFrom(k, n)'
<1>1. PICK m \in Nat : InLine(k, m)
  BY DEF InOrder, LineInv
<1>2. PICK n \in Nat : InLine(k, n)'
  BY DEF InOrder, LineInv
<1>3. QueueFrom(k, m)
  BY <1>1, QueuesAreInLine DEF InOrder, QueuesFollow
<1>4. QueueFrom(k, n)'
  BY <1>2, QueuesAreInLineNext DEF InOrder, QueuesFollow
<1>5. gates[k] = 1..m /\ gates'[k] = 1..n
  BY <1>1, <1>2 DEF InLine
<1>6. QED
  BY <1>3, <1>4, <1>5

LEMMA SameQueue ==
    ASSUME InOrder, InOrder', NEW k \in Keys, InFlight(k)' = InFlight(k),
           gates'[k] = gates[k], chain'[k] = chain[k],
           \A c \in InFlight(k) : place'[c] = place[c]
    PROVE  ByPlace(k)' = ByPlace(k)
<1>1. PICK m, n \in Nat : /\ gates[k] = 1..m /\ QueueFrom(k, m)
                          /\ gates'[k] = 1..n /\ QueueFrom(k, n)'
  BY LinesOf
<1>2. m = n
  BY <1>1, GatesTell
<1>3. \A i \in 1..(chain[k] - m) : ByPlace(k)'[i] = ByPlace(k)[i]
  BY <1>1, <1>2 DEF QueueFrom
<1>4. QED
  BY <1>1, <1>2, <1>3 DEF QueueFrom

LEMMA RequestArrives ==
    ASSUME InOrder, InOrder', NEW c \in Callers, NEW k \in Keys, Request(c, k)
    PROVE  Promise!Arrive(c, k)
<1> USE MaxLinksIsNat
<1>1. \A j \in Keys : c \notin InFlight(j)
  BY DEF Request, InFlight, Queued
<1>2. \A j \in Keys \ {k} : InFlight(j)' = InFlight(j)
  BY DEF Request, InFlight, Queued, InOrder, LockTypeOK
<1>3. InFlight(k)' = InFlight(k) \union {c}
  BY DEF Request, InFlight, Queued, InOrder, LockTypeOK
<1>4. \A j \in Keys : \A d \in InFlight(j) : place'[d] = place[d]
  BY <1>1 DEF Request, InFlight, InOrder, LockTypeOK
<1>5. ASSUME NEW j \in Keys \ {k}
      PROVE  ByPlace(j)' = ByPlace(j)
  BY <1>2, <1>4, SameQueue DEF Request, InOrder, LockTypeOK
<1>6. ByPlace(k)' = Append(ByPlace(k), c)
  <2>1. PICK m, n \in Nat : /\ gates[k] = 1..m /\ QueueFrom(k, m)
                            /\ gates'[k] = 1..n /\ QueueFrom(k, n)'
    BY LinesOf
  <2>2. m = n /\ chain'[k] = chain[k] + 1 /\ place'[c] = chain[k] + 1 /\ chain[k] \in Nat
    BY <2>1, GatesTell DEF Request, InOrder, LockTypeOK
  <2> DEFINE len == chain[k] - m
  <2>3. /\ len \in Nat /\ chain'[k] - n = len + 1
        /\ ByPlace(k) \in [1..len -> InFlight(k)]
        /\ ByPlace(k)' \in [1..(len + 1) -> InFlight(k)']
    BY <2>1, <2>2 DEF QueueFrom
  <2>4. \A i \in 1..len : ByPlace(k)'[i] = ByPlace(k)[i]
    BY <1>3, <1>4, <2>1, <2>2 DEF QueueFrom
  <2>5. ByPlace(k)'[len + 1] = c
    BY <1>3, <2>1, <2>2 DEF QueueFrom
  <2> HIDE DEF len
  <2>6. ByPlace(k) \in Seq(InFlight(k)) /\ Len(ByPlace(k)) = len
    BY <2>3
  <2>7. ByPlace(k)' \in Seq(InFlight(k) \union {c}) /\ Len(ByPlace(k)') = len + 1
    BY <1>3, <2>3
  <2>8. /\ Append(ByPlace(k), c) \in Seq(InFlight(k) \union {c})
        /\ Len(Append(ByPlace(k), c)) = len + 1
        /\ \A i \in 1..(len + 1) : Append(ByPlace(k), c)[i] = IF i <= len THEN ByPlace(k)[i] ELSE c
    BY <2>3, <2>6
  <2>9. \A i \in 1..(len + 1) : ByPlace(k)'[i] = Append(ByPlace(k), c)[i]
    BY <2>3, <2>4, <2>5, <2>8
  <2>10. QED
    BY <2>7, <2>8, <2>9, SeqEqual
<1>7. ~Promise!Waiting(c)
  <2> SUFFICES ASSUME NEW j \in Keys, NEW i \in DOMAIN ByPlace(j), ByPlace(j)[i] = c
               PROVE  FALSE
    BY DEF Promise!Waiting
  <2>1. PICK m \in Nat : QueueFrom(j, m)
    BY LinesOf
  <2>2. ByPlace(j)[i] \in InFlight(j)
    BY <2>1 DEF QueueFrom
  <2>3. QED
    BY <1>1, <2>2
<1>8. Queues' = [Queues EXCEPT ![k] = Append(@, c)]
  BY <1>5, <1>6 DEF Queues
<1>9. \A j \in Keys : (\E d \in InFlight(j) : at[d] = "working")'
                        <=> \E d \in InFlight(j) : at[d] = "working"
  BY <1>2, <1>3 DEF Request, InFlight, InOrder, LockTypeOK
<1>10. Inside' = Inside
  BY <1>9, Zenon DEF Inside
<1>11. QED
  BY <1>7, <1>8, <1>10 DEF Promise!Arrive, Queues, Inside

\* Of a session's calls in flight only one is at work, and it is first in line.
LEMMA OneAtWork ==
    ASSUME InOrder, NEW c \in Callers, at[c] # "out", PreviousResolved(c),
           NEW k \in Keys, key[c] = k
    PROVE  \A d \in InFlight(k) : at[d] = "working" => d = c
<1>1. PICK m \in Nat : InLine(k, m)
  BY DEF InOrder, LineInv
<1>2. place[c] = m + 1
  BY <1>1, HeadIsNext DEF InOrder
<1>3. ASSUME NEW d \in InFlight(k), at[d] = "working"
      PROVE  d = c
  <2>1. d \in Callers /\ key[d] = k /\ PreviousResolved(d)
    BY <1>3 DEF InFlight, Queued, InOrder, LockInv
  <2>2. place[d] = m + 1
    BY <1>1, <1>3, <2>1, HeadIsNext DEF InOrder
  <2>3. QED
    BY <1>2, <1>3, <2>1, <2>2 DEF InOrder, LockInv
<1>4. QED
  BY <1>3

LEMMA EnterStarts ==
    ASSUME InOrder, InOrder', NEW c \in Callers, Enter(c), NEW k \in Keys, key[c] = k
    PROVE  Promise!Start(k)
<1>1. c \in InFlight(k)
  BY DEF Enter, InFlight, Queued, InOrder, LockTypeOK
<1>2. \A j \in Keys : InFlight(j)' = InFlight(j)
  BY DEF Enter, InFlight, Queued, InOrder, LockTypeOK
<1>3. \A j \in Keys : ByPlace(j)' = ByPlace(j)
  BY <1>2, SameQueue DEF Enter
<1>4. \A d \in InFlight(k) : at[d] = "working" => d = c
  BY OneAtWork DEF Enter
<1>5. ByPlace(k) # <<>>
  <2>1. PICK m \in Nat : QueueFrom(k, m)
    BY <1>1, LinesOf
  <2>2. 1 \in DOMAIN ByPlace(k)
    BY <1>1, <2>1 DEF QueueFrom
  <2>3. QED
    BY <2>2
<1>6. ~ \E d \in InFlight(k) : at[d] = "working"
  BY <1>4 DEF Enter
<1>7. (\E d \in InFlight(k) : at[d] = "working")'
  BY <1>1, <1>2 DEF Enter, InFlight, InOrder, LockTypeOK
<1>8. ASSUME NEW j \in Keys \ {k}
      PROVE  (\E d \in InFlight(j) : at[d] = "working")'
                <=> \E d \in InFlight(j) : at[d] = "working"
  BY <1>2 DEF Enter, InFlight, Queued, InOrder, LockTypeOK
<1>9. Inside' = [Inside EXCEPT ![k] = TRUE]
  BY <1>1, <1>7, <1>8, Zenon DEF Inside
<1>10. Queues' = Queues
  BY <1>3 DEF Queues
<1>11. QED
  BY <1>1, <1>5, <1>6, <1>9, <1>10 DEF Promise!Start, Queues, Inside

LEMMA LeaveFinishes ==
    ASSUME InOrder, InOrder', NEW c \in Callers, Leave(c), NEW k \in Keys, key[c] = k
    PROVE  Promise!Finish(k)
<1> USE MaxLinksIsNat
<1>1. c \in InFlight(k) /\ at[c] = "working" /\ PreviousResolved(c)
  BY DEF Leave, InFlight, Queued, InOrder, LockTypeOK, LockInv
<1>2. \A j \in Keys \ {k} : InFlight(j)' = InFlight(j)
  BY DEF Leave, InFlight, Queued, InOrder, LockTypeOK
<1>3. InFlight(k)' = InFlight(k) \ {c}
  BY DEF Leave, InFlight, Queued, InOrder, LockTypeOK
<1>4. ASSUME NEW j \in Keys \ {k}
      PROVE  ByPlace(j)' = ByPlace(j)
  BY <1>2, SameQueue DEF Leave, InOrder, LockTypeOK
<1>5. ByPlace(k)' = Tail(ByPlace(k))
  <2>1. PICK m, n \in Nat : /\ gates[k] = 1..m /\ QueueFrom(k, m)
                            /\ gates'[k] = 1..n /\ QueueFrom(k, n)'
    BY <1>1, LinesOf
  <2>2. PICK o \in Nat : InLine(k, o)
    BY <1>1 DEF InOrder, LineInv
  <2>3. o = m
    BY <2>1, <2>2, GatesTell DEF InLine
  <2>4. place[c] = m + 1
    BY <1>1, <2>2, <2>3, HeadIsNext DEF InOrder
  <2>5. gates'[k] = 1..(m + 1) /\ chain' = chain /\ place' = place
    <3>1. gates'[k] = gates[k] \union {m + 1} /\ chain' = chain /\ place' = place
      BY <1>1, <2>4 DEF Leave, InOrder, LockTypeOK
    <3>2. (1..m) \union {m + 1} = 1..(m + 1)
      OBVIOUS
    <3>3. QED
      BY <2>1, <3>1, <3>2
  <2>6. n = m + 1
    BY <2>1, <2>5, GatesTell
  <2> DEFINE len == chain[k] - m
  <2>7. len \in Nat /\ len >= 1 /\ chain[k] \in Nat
    BY <1>1, <2>1 DEF QueueFrom, InOrder, LockTypeOK
  <2>8. /\ ByPlace(k) \in [1..len -> InFlight(k)]
        /\ ByPlace(k)' \in [1..(len - 1) -> InFlight(k)']
    <3>1. chain'[k] - n = len - 1
      BY <2>5, <2>6, <2>7
    <3>2. QED
      BY <2>1, <3>1 DEF QueueFrom
  <2>9. ASSUME NEW i \in 1..(len - 1)
        PROVE  ByPlace(k)'[i] = ByPlace(k)[i + 1]
    <3>1. i + 1 \in 1..len /\ chain'[k] - n = len - 1 /\ n + i = m + (i + 1)
      BY <2>5, <2>6, <2>7
    <3>2. ByPlace(k)'[i] \in InFlight(k) /\ place[ByPlace(k)'[i]] = n + i
      BY <1>3, <2>1, <2>5, <3>1 DEF QueueFrom
    <3>3. ByPlace(k)[i + 1] \in InFlight(k) /\ place[ByPlace(k)[i + 1]] = m + (i + 1)
      BY <2>1, <3>1 DEF QueueFrom
    <3>4. QED
      BY <2>1, <3>1, <3>2, <3>3 DEF QueueFrom
  <2> HIDE DEF len
  <2>10. /\ ByPlace(k) \in Seq(InFlight(k)) /\ Len(ByPlace(k)) = len
         /\ ByPlace(k) # <<>>
    BY <2>7, <2>8
  <2>11. ByPlace(k)' \in Seq(InFlight(k)) /\ Len(ByPlace(k)') = len - 1
    BY <1>3, <2>7, <2>8
  <2>12. /\ Tail(ByPlace(k)) \in Seq(InFlight(k))
         /\ Len(Tail(ByPlace(k))) = len - 1
         /\ \A i \in 1..(len - 1) : Tail(ByPlace(k))[i] = ByPlace(k)[i + 1]
    BY <2>10, HeadTailProperties
  <2>13. \A i \in 1..(len - 1) : ByPlace(k)'[i] = Tail(ByPlace(k))[i]
    BY <2>9, <2>12
  <2>14. QED
    BY <2>11, <2>12, <2>13, SeqEqual
<1>6. \A d \in InFlight(k) : at[d] = "working" => d = c
  BY <1>1, OneAtWork
<1>7. ~ (\E d \in InFlight(k) : at[d] = "working")'
  BY <1>3, <1>6 DEF Leave, InFlight, InOrder, LockTypeOK
<1>8. ASSUME NEW j \in Keys \ {k}
      PROVE  (\E d \in InFlight(j) : at[d] = "working")'
                <=> \E d \in InFlight(j) : at[d] = "working"
  BY <1>2 DEF Leave, InFlight, Queued, InOrder, LockTypeOK
<1>9. \E d \in InFlight(k) : at[d] = "working"
  BY <1>1
<1>10. Inside' = [Inside EXCEPT ![k] = FALSE]
  BY <1>1, <1>7, <1>8, Zenon DEF Inside
<1>11. Queues' = [Queues EXCEPT ![k] = Tail(@)]
  BY <1>1, <1>4, <1>5 DEF Queues
<1>12. QED
  BY <1>1, <1>9, <1>10, <1>11 DEF Promise!Finish, Queues, Inside

\* With nobody in flight the queues are empty.
NobodyInFlight == \A c \in Callers : at[c] = "out"

EmptyQueues ==
    NobodyInFlight => Queues = [k \in Keys |-> <<>>] /\ Inside = [k \in Keys |-> FALSE]

LEMMA NobodyQueues == EmptyQueues
<1> SUFFICES ASSUME NobodyInFlight
             PROVE  Queues = [k \in Keys |-> <<>>] /\ Inside = [k \in Keys |-> FALSE]
  BY DEF EmptyQueues
<1>1. \A k \in Keys : InFlight(k) = {}
  BY DEF NobodyInFlight, InFlight, Queued
<1>2. \A number : Ranked({}, number) = <<>>
  BY FS_EmptySet DEF Ranked
<1>3. QED
  BY <1>1, <1>2 DEF Queues, Inside, ByPlace

(***************************************************************************)
(* Calls on a session are served one at a time and in the order they were  *)
(* made, whoever throws and however often the process is lost: the chain   *)
(* of promises implements the queue of FifoLock.                           *)
(***************************************************************************)
THEOREM LockServesInOrder == LockSpec => ServedInOrder
<1>1. LockInit => Promise!FifoInit
  <2>1. LockInit => NobodyInFlight
    BY DEF LockInit, NobodyInFlight
  <2>2. QED
    BY <2>1, NobodyQueues DEF EmptyQueues, Promise!FifoInit, Queues, Inside
<1>2. InOrder /\ InOrder' /\ [LockNext]_lockVars => [Promise!FifoNext]_(Promise!fifoVars)
  <2> SUFFICES ASSUME InOrder, InOrder', [LockNext]_lockVars
               PROVE  Promise!FifoNext \/ UNCHANGED Promise!fifoVars
    OBVIOUS
  <2>1. ASSUME NEW c \in Callers, NEW k \in Keys, Request(c, k)
        PROVE  Promise!FifoNext
    BY <2>1, RequestArrives DEF Promise!FifoNext
  <2>2. \A c \in Callers : key[c] \in Keys
    BY DEF InOrder, LockTypeOK
  <2>3. ASSUME NEW c \in Callers, Enter(c)
        PROVE  Promise!FifoNext
    BY <2>2, <2>3, EnterStarts DEF Promise!FifoNext
  <2>4. ASSUME NEW c \in Callers, Leave(c)
        PROVE  Promise!FifoNext
    BY <2>2, <2>4, LeaveFinishes DEF Promise!FifoNext
  <2>5. CASE Restart
    <3>1. NobodyInFlight'
      BY <2>5 DEF Restart, NobodyInFlight
    <3>2. EmptyQueues'
      BY NobodyQueues, PTL
    <3>3. Promise!Forget
      BY <3>1, <3>2 DEF EmptyQueues, Promise!Forget, Queues, Inside
    <3>4. QED
      BY <3>3 DEF Promise!FifoNext
  <2>6. CASE UNCHANGED lockVars
    <3>1. \A k \in Keys : InFlight(k)' = InFlight(k)
      BY <2>6 DEF lockVars, InFlight, Queued
    <3>2. \A k \in Keys : ByPlace(k)' = ByPlace(k)
      BY <2>6, <3>1, SameQueue DEF lockVars
    <3>3. Queues' = Queues
      BY <3>2 DEF Queues
    <3>4. Inside' = Inside
      BY <2>6, <3>1 DEF lockVars, Inside
    <3>5. QED
      BY <3>3, <3>4 DEF Promise!fifoVars, Queues, Inside
  <2>7. QED
    BY <2>1, <2>3, <2>4, <2>5, <2>6 DEF LockNext
<1>3. LockSpec => []InOrder
  BY LockTypeCorrect, LockInvariant, LineInvariant, PTL DEF InOrder
<1>4. QED
  BY <1>1, <1>2, <1>3, PTL DEF LockSpec, ServedInOrder, Promise!FifoSpec
=============================================================================
