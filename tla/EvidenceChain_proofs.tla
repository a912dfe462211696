------------------------ MODULE EvidenceChain_proofs ------------------------
(***************************************************************************)
(* What Sentinel's evidence chain guarantees for any processes, any        *)
(* appends in flight in each of them, any events and any length: types,    *)
(* the cache that is never ahead of the table, and the unbroken chain.     *)
(***************************************************************************)
EXTENDS EvidenceChain, SequenceTheorems, FiniteSetTheorems, TLAPS

\* An append that has stored its record finds it in the table, right after
\* the chain it extended.
AdvanceStored ==
    \A w \in Writers : At(w, "advance") =>
        /\ Len(writer[w].chain) < Len(rows)
        /\ rows[Len(writer[w].chain) + 1] = NextRow(writer[w].chain, writer[w].event)

\* The inductive invariant.
ChainInv == ChainTypeOK /\ ChainVerifies /\ CacheNotAhead /\ AdvanceStored

-----------------------------------------------------------------------------
(***************************************************************************)
(* A beginning of the table agrees with it place by place.                 *)
(***************************************************************************)
LEMMA BeginsPointwise ==
    ASSUME NEW chain \in Seq(Rows), rows \in Seq(Rows)
    PROVE  Begins(chain) <=>
              /\ Len(chain) <= Len(rows)
              /\ \A i \in 1..Len(chain) : chain[i] = rows[i]
<1> DEFINE first == SubSeq(rows, 1, Len(chain))
<1>1. Len(chain) \in Nat /\ Len(rows) \in Nat
  BY LenProperties
<1>2. ASSUME Len(chain) <= Len(rows)
      PROVE  /\ first \in Seq(Rows)
             /\ Len(first) = Len(chain)
             /\ \A i \in 1..Len(chain) : first[i] = rows[i]
  <2>1. \A i \in 1..Len(chain) : rows[i] \in Rows
    BY <1>1, <1>2, ElementOfSeq
  <2>2. /\ first \in Seq(Rows)
        /\ Len(first) = IF 1 <= Len(chain) THEN Len(chain) - 1 + 1 ELSE 0
        /\ \A i \in 1..(Len(chain) - 1 + 1) : first[i] = rows[1 + i - 1]
    BY <1>1, <2>1, SubSeqProperties
  <2>3. QED
    BY <1>1, <2>2
<1>3. ASSUME Len(chain) <= Len(rows), \A i \in 1..Len(chain) : chain[i] = rows[i]
      PROVE  chain = first
  BY <1>2, <1>3, SeqEqual
<1>4. QED
  BY <1>2, <1>3 DEF Begins

\* The table has lost nothing, and what began it begins it still.
Grown == rows' \in Seq(Rows) /\ Len(rows) <= Len(rows') /\ \A i \in 1..Len(rows) : rows'[i] = rows[i]

LEMMA BeginsStill ==
    ASSUME NEW chain \in Seq(Rows), rows \in Seq(Rows), Grown, Begins(chain)
    PROVE  Len(chain) <= Len(rows') /\ chain = SubSeq(rows', 1, Len(chain))
<1>1. Len(chain) <= Len(rows) /\ \A i \in 1..Len(chain) : chain[i] = rows[i]
  BY BeginsPointwise
<1>2. Len(chain) \in Nat /\ Len(rows) \in Nat /\ Len(rows') \in Nat
  BY LenProperties DEF Grown
<1>3. Len(chain) <= Len(rows') /\ \A i \in 1..Len(chain) : chain[i] = rows'[i]
  BY <1>1, <1>2 DEF Grown
<1>4. \A i \in 1..Len(chain) : rows'[i] \in Rows
  BY <1>2, <1>3, ElementOfSeq DEF Grown
<1>5. /\ SubSeq(rows', 1, Len(chain)) \in Seq(Rows)
      /\ Len(SubSeq(rows', 1, Len(chain))) = IF 1 <= Len(chain) THEN Len(chain) - 1 + 1 ELSE 0
      /\ \A i \in 1..(Len(chain) - 1 + 1) : SubSeq(rows', 1, Len(chain))[i] = rows'[1 + i - 1]
  BY <1>2, <1>4, SubSeqProperties
<1>6. /\ Len(SubSeq(rows', 1, Len(chain))) = Len(chain)
      /\ \A i \in 1..Len(chain) : SubSeq(rows', 1, Len(chain))[i] = chain[i]
  BY <1>2, <1>3, <1>5
<1>7. QED
  BY <1>3, <1>5, <1>6, SeqEqual

\* What an append adds is a row, whatever chain it holds.
LEMMA NextRowIsARow ==
    ASSUME NEW chain \in Seq(Rows), NEW event \in Events
    PROVE  NextRow(chain, event) \in Rows
<1>1. Len(chain) \in Nat
  BY LenProperties
<1>2. HeadOf(chain) \in Digests
  <2>1. CASE chain = <<>>
    BY <2>1 DEF HeadOf, Digests
  <2>2. CASE chain # <<>>
    <3>1. Len(chain) \in 1..Len(chain)
      BY <1>1, <2>2, EmptySeq
    <3>2. chain[Len(chain)] \in Rows
      BY <3>1, ElementOfSeq
    <3>3. QED
      BY <2>2, <3>2 DEF HeadOf, Digest, Rows, Digests
  <2>3. QED
    BY <2>1, <2>2
<1>3. QED
  BY <1>1, <1>2 DEF NextRow, Rows

(***************************************************************************)
(* The record an append links to all there is keeps the chain unbroken.    *)
(***************************************************************************)
LEMMA LinkedVerifies ==
    ASSUME NEW chain \in Seq(Rows), NEW event \in Events, Verifies(chain)
    PROVE  Verifies(Append(chain, NextRow(chain, event)))
<1> DEFINE row == NextRow(chain, event)
           more == Append(chain, row)
<1>1. row \in Rows
  BY NextRowIsARow
<1> HIDE DEF row
<1>2. /\ more \in Seq(Rows) /\ Len(more) = Len(chain) + 1
      /\ \A i \in 1..Len(chain) : more[i] = chain[i]
      /\ more[Len(chain) + 1] = row
  BY <1>1, AppendProperties
<1>3. Len(chain) \in Nat /\ DOMAIN chain = 1..Len(chain) /\ DOMAIN more = 1..(Len(chain) + 1)
  BY <1>2, LenProperties
<1> HIDE DEF more
<1>4. SUFFICES ASSUME NEW i \in 1..(Len(chain) + 1)
               PROVE  /\ more[i].seq = i
                      /\ more[i].prev = IF i = 1 THEN Genesis ELSE Digest(more[i - 1])
  BY <1>3 DEF Verifies, more, row
<1>5. CASE i <= Len(chain)
  <2>1. more[i] = chain[i] /\ (i # 1 => more[i - 1] = chain[i - 1])
    BY <1>2, <1>3, <1>5
  <2>2. QED
    BY <1>3, <1>5, <2>1 DEF Verifies
<1>6. CASE i = Len(chain) + 1
  <2>1. row.seq = i /\ row.prev = HeadOf(chain)
    BY <1>6 DEF row, NextRow
  <2>2. CASE chain = <<>>
    BY <1>2, <1>6, <2>1, <2>2, EmptySeq DEF HeadOf
  <2>3. CASE chain # <<>>
    <3>1. Len(chain) \in 1..Len(chain) /\ i # 1 /\ i - 1 = Len(chain)
      BY <1>3, <1>6, <2>3, EmptySeq
    <3>2. more[i - 1] = chain[Len(chain)]
      BY <1>2, <3>1
    <3>3. QED
      BY <1>2, <1>6, <2>1, <2>3, <3>1, <3>2 DEF HeadOf
  <2>4. QED
    BY <2>2, <2>3
<1>7. QED
  BY <1>3, <1>5, <1>6

(***************************************************************************)
(* A place that is free is the next one: an append the database does not   *)
(* refuse holds the whole table.                                           *)
(***************************************************************************)
LEMMA FreePlaceIsNext ==
    ASSUME ChainInv, NEW w \in Writers,
           ~SeqTaken(Len(writer[w].chain) + 1)
    PROVE  writer[w].chain = rows
<1> DEFINE chain == writer[w].chain
<1>1. chain \in Seq(Rows) /\ rows \in Seq(Rows) /\ Begins(chain)
  BY DEF ChainInv, ChainTypeOK, Appending, CacheNotAhead
<1>2. Len(chain) <= Len(rows) /\ \A i \in 1..Len(chain) : chain[i] = rows[i]
  BY <1>1, BeginsPointwise
<1>3. Len(chain) \in Nat /\ Len(rows) \in Nat /\ DOMAIN rows = 1..Len(rows)
  BY <1>1, LenProperties
<1>4. \A i \in 1..Len(rows) : rows[i].seq = i
  BY <1>3 DEF ChainInv, ChainVerifies, Verifies
<1>5. Len(chain) = Len(rows)
  BY <1>2, <1>3, <1>4 DEF SeqTaken
<1>6. QED
  BY <1>1, <1>2, <1>5, SeqEqual

-----------------------------------------------------------------------------
LEMMA ChainInitially == ChainInit => ChainInv
<1> SUFFICES ASSUME ChainInit PROVE ChainInv
  OBVIOUS
<1>1. <<>> \in Seq(Rows) /\ Len(<<>>) = 0
  BY EmptySeq
<1>2. ChainTypeOK
  BY <1>1 DEF ChainInit, ChainTypeOK, Heads, NoHead, Appending, NoAppend, WriterPcs
<1>3. ChainVerifies
  BY DEF ChainInit, ChainVerifies, Verifies
<1>4. CacheNotAhead
  <2>1. SubSeq(rows, 1, 0) = <<>>
    BY SubSeqEmpty
  <2>2. Begins(<<>>)
    BY <1>1, <2>1 DEF Begins, ChainInit
  <2>3. QED
    BY <2>2 DEF ChainInit, CacheNotAhead, NoHead, NoAppend
<1>5. AdvanceStored
  BY DEF ChainInit, AdvanceStored, At, NoAppend
<1>6. QED
  BY <1>2, <1>3, <1>4, <1>5 DEF ChainInv

(***************************************************************************)
(* What is common to all steps: the table grows or stays as it is, and     *)
(* whatever chain or append is new is as the invariant has it.             *)
(***************************************************************************)
Held(chain)   == Len(chain) <= Len(rows) /\ chain = SubSeq(rows, 1, Len(chain))
Stored(c)     == /\ Len(c.chain) < Len(rows)
                 /\ rows[Len(c.chain) + 1] = NextRow(c.chain, c.event)
InOrder(c)    == /\ c.pc # "idle" => c.event \in Events
                 /\ Held(c.chain)
                 /\ c.pc = "advance" => Stored(c)

LEMMA ChainStepKeeps ==
    ASSUME ChainInv, Grown, Verifies(rows'),
           heads' \in [Procs -> Heads], writer' \in [Writers -> Appending],
           \A p \in Procs : heads'[p] = heads[p] \/ Held(heads[p].chain)',
           \A w \in Writers : writer'[w] = writer[w] \/ InOrder(writer[w])'
    PROVE  ChainInv'
<1> USE DEF ChainInv
<1>1. /\ rows \in Seq(Rows) /\ rows' \in Seq(Rows)
      /\ Len(rows) \in Nat /\ Len(rows') \in Nat
  BY LenProperties DEF ChainTypeOK, Grown
<1>2. \A p \in Procs : heads[p].chain \in Seq(Rows) /\ Begins(heads[p].chain)
  BY DEF ChainTypeOK, Heads, CacheNotAhead
<1>3. \A w \in Writers : writer[w].chain \in Seq(Rows) /\ Begins(writer[w].chain)
  BY DEF ChainTypeOK, Appending, CacheNotAhead
<1>4. \A p \in Procs : Begins(heads[p].chain)'
  <2> SUFFICES ASSUME NEW p \in Procs PROVE Begins(heads[p].chain)'
    OBVIOUS
  <2>1. CASE heads'[p] = heads[p]
    <3>1. Len(heads[p].chain) <= Len(rows') /\ heads[p].chain = SubSeq(rows', 1, Len(heads[p].chain))
      BY <1>1, <1>2, BeginsStill
    <3>2. QED
      BY <2>1, <3>1 DEF Begins
  <2>2. CASE Held(heads[p].chain)'
    BY <2>2 DEF Held, Begins
  <2>3. QED
    BY <2>1, <2>2
<1>5. \A w \in Writers : Begins(writer[w].chain)'
  <2> SUFFICES ASSUME NEW w \in Writers PROVE Begins(writer[w].chain)'
    OBVIOUS
  <2>1. CASE writer'[w] = writer[w]
    <3>1. Len(writer[w].chain) <= Len(rows') /\ writer[w].chain = SubSeq(rows', 1, Len(writer[w].chain))
      BY <1>1, <1>3, BeginsStill
    <3>2. QED
      BY <2>1, <3>1 DEF Begins
  <2>2. CASE InOrder(writer[w])'
    BY <2>2 DEF InOrder, Held, Begins
  <2>3. QED
    BY <2>1, <2>2
<1>6. AdvanceStored'
  <2> SUFFICES ASSUME NEW w \in Writers, At(w, "advance")'
               PROVE  /\ Len(writer'[w].chain) < Len(rows')
                      /\ rows'[Len(writer'[w].chain) + 1] = NextRow(writer'[w].chain, writer'[w].event)
    BY DEF AdvanceStored
  <2>1. CASE writer'[w] = writer[w]
    <3>1. /\ Len(writer[w].chain) < Len(rows)
          /\ rows[Len(writer[w].chain) + 1] = NextRow(writer[w].chain, writer[w].event)
      BY <2>1 DEF AdvanceStored, At
    <3>2. Len(writer[w].chain) + 1 \in 1..Len(rows)
      BY <1>1, <1>3, <3>1, LenProperties
    <3>3. QED
      BY <1>1, <2>1, <3>1, <3>2 DEF Grown
  <2>2. CASE InOrder(writer[w])'
    BY <2>2 DEF InOrder, Stored, At
  <2>3. QED
    BY <2>1, <2>2
<1>7. \A w \in Writers : writer'[w].pc # "idle" => writer'[w].event \in Events
  BY DEF InOrder, ChainTypeOK
<1>8. QED
  BY <1>1, <1>4, <1>5, <1>6, <1>7 DEF ChainTypeOK, CacheNotAhead, ChainVerifies

(***************************************************************************)
(* Steps that leave the table alone, and steps that add the record of an   *)
(* append to it.                                                           *)
(***************************************************************************)
LEMMA TableStays ==
    ASSUME ChainInv, UNCHANGED rows
    PROVE  /\ Grown /\ Verifies(rows')
           /\ \A p \in Procs : Held(heads[p].chain)
           /\ \A w \in Writers : Held(writer[w].chain) /\ (At(w, "advance") => Stored(writer[w]))
<1>1. rows \in Seq(Rows) /\ Len(rows) \in Nat
  BY LenProperties DEF ChainInv, ChainTypeOK
<1>2. QED
  BY <1>1 DEF ChainInv, Grown, ChainVerifies, CacheNotAhead, AdvanceStored, Begins, Held, Stored

LEMMA RecordStored ==
    ASSUME ChainInv, NEW w \in Writers, At(w, "create"),
           ~SeqTaken(Len(writer[w].chain) + 1),
           rows' = Append(rows, NextRow(writer[w].chain, writer[w].event))
    PROVE  /\ Grown /\ Verifies(rows')
           /\ Len(writer[w].chain) <= Len(rows')
           /\ writer[w].chain = SubSeq(rows', 1, Len(writer[w].chain))
           /\ Len(writer[w].chain) < Len(rows')
           /\ rows'[Len(writer[w].chain) + 1] = NextRow(writer[w].chain, writer[w].event)
<1> DEFINE row == NextRow(writer[w].chain, writer[w].event)
<1>1. writer[w].chain = rows
  BY FreePlaceIsNext
<1>2. rows \in Seq(Rows) /\ Len(rows) \in Nat /\ writer[w].event \in Events
  BY LenProperties DEF ChainInv, ChainTypeOK, At
<1>3. row \in Rows
  BY <1>1, <1>2, NextRowIsARow
<1>4. Verifies(rows')
  BY <1>1, <1>2, LinkedVerifies DEF ChainInv, ChainVerifies
<1> HIDE DEF row
<1>5. /\ rows' \in Seq(Rows) /\ Len(rows') = Len(rows) + 1
      /\ \A i \in 1..Len(rows) : rows'[i] = rows[i]
      /\ rows'[Len(rows) + 1] = row
  BY <1>2, <1>3, AppendProperties DEF row
<1>6. Grown
  BY <1>2, <1>5 DEF Grown
<1>7. Begins(writer[w].chain)
  BY DEF ChainInv, CacheNotAhead
<1>8. /\ Len(writer[w].chain) <= Len(rows')
      /\ writer[w].chain = SubSeq(rows', 1, Len(writer[w].chain))
  BY <1>1, <1>2, <1>6, <1>7, BeginsStill
<1>9. QED
  BY <1>1, <1>2, <1>4, <1>5, <1>6, <1>8 DEF row

-----------------------------------------------------------------------------
(***************************************************************************)
(* No step of an append, and no stop, breaks the invariant.                *)
(***************************************************************************)
LEMMA ChainStep == ChainInv /\ [ChainNext]_chainVars => ChainInv'
<1> SUFFICES ASSUME ChainInv, [ChainNext]_chainVars
             PROVE  ChainInv'
  OBVIOUS
<1>1. /\ rows \in Seq(Rows)
      /\ heads \in [Procs -> Heads]
      /\ writer \in [Writers -> Appending]
      /\ \A w \in Writers : writer[w].pc # "idle" => writer[w].event \in Events
  BY DEF ChainInv, ChainTypeOK
<1>2. \A w \in Writers : ProcOf[w] \in Procs
  BY ProcOfIsTotal
<1>3. Len(<<>>) = 0 /\ <<>> \in Seq(Rows)
  BY EmptySeq
<1>4. Held(<<>>)'
  <2>1. SubSeq(rows', 1, 0) = <<>>
    BY SubSeqEmpty
  <2>2. QED
    BY <1>3, <2>1, LenProperties DEF Held
<1>5. ASSUME NEW w \in Writers, NEW e \in Events, BeginAppend(w, e)
      PROVE  ChainInv'
  <2> DEFINE c == [pc |-> IF Kept(w).loaded THEN "create" ELSE "read",
                   event |-> e, chain |-> Kept(w).chain]
  <2>1. writer' = [writer EXCEPT ![w] = c] /\ rows' = rows /\ heads' = heads
    BY <1>5 DEF BeginAppend
  <2>2. c \in Appending
    BY <1>1, <1>2 DEF Kept, Heads, Appending, WriterPcs
  <2>3. Held(c.chain) /\ c.pc # "advance" /\ c.event \in Events
    BY <1>2, <2>1, TableStays DEF Kept
  <2> HIDE DEF c
  <2>4. InOrder(writer[w])'
    BY <1>1, <2>1, <2>3 DEF InOrder, Held
  <2>5. QED
    BY <1>1, <2>1, <2>2, <2>4, TableStays, ChainStepKeeps
<1>6. ASSUME NEW w \in Writers, ReadRows(w)
      PROVE  ChainInv'
  <2> DEFINE c == [pc |-> "verify", event |-> writer[w].event, chain |-> rows]
  <2>1. writer' = [writer EXCEPT ![w] = c] /\ rows' = rows /\ heads' = heads
    BY <1>6 DEF ReadRows, Step
  <2>2. c \in Appending /\ c.event \in Events
    BY <1>1, <1>6 DEF ReadRows, At, Appending, WriterPcs
  <2>3. Held(rows)
    <3>1. Len(rows) \in Nat /\ Begins(rows)
      BY <1>1, BeginsPointwise, LenProperties
    <3>2. QED
      BY <3>1 DEF Begins, Held
  <2>4. InOrder(writer[w])'
    BY <1>1, <2>1, <2>2, <2>3 DEF InOrder, Held
  <2> HIDE DEF c
  <2>5. QED
    BY <1>1, <2>1, <2>2, <2>4, TableStays, ChainStepKeeps
\* An append that moves on with the chain it holds, and not to advance.
<1>7. ASSUME NEW w \in Writers, NEW pc \in WriterPcs \ {"idle", "advance"},
             writer[w].pc # "idle", Step(w, pc, writer[w].chain), UNCHANGED rows,
             \/ UNCHANGED heads
             \/ heads' = [heads EXCEPT ![ProcOf[w]] = [loaded |-> TRUE, chain |-> writer[w].chain]]
      PROVE  ChainInv'
  <2> DEFINE c == [pc |-> pc, event |-> writer[w].event, chain |-> writer[w].chain]
  <2>1. writer' = [writer EXCEPT ![w] = c]
    BY <1>7 DEF Step
  <2>2. c \in Appending /\ c.event \in Events /\ c.pc # "advance"
    BY <1>1, <1>7 DEF Appending
  <2>3. Held(c.chain)
    BY <1>7, TableStays
  <2>4. InOrder(writer[w])'
    BY <1>1, <1>7, <2>1, <2>2, <2>3 DEF InOrder, Held
  <2>5. heads' \in [Procs -> Heads]
    <3>1. [loaded |-> TRUE, chain |-> writer[w].chain] \in Heads
      BY <1>1 DEF Appending, Heads
    <3>2. QED
      BY <1>1, <1>2, <1>7, <3>1
  <2>6. \A p \in Procs : heads'[p] = heads[p] \/ Held(heads[p].chain)'
    BY <1>1, <1>2, <1>7, <2>3 DEF Held
  <2> HIDE DEF c
  <2>7. QED
    BY <1>1, <1>7, <2>1, <2>2, <2>4, <2>5, <2>6, TableStays, ChainStepKeeps
<1>8. ASSUME NEW w \in Writers, KeepRead(w)
      PROVE  ChainInv'
  BY <1>7, <1>8 DEF KeepRead, At, WriterPcs
\* The database takes the record, and the append goes on or throws.
<1>9. ASSUME NEW w \in Writers, NEW pc \in {"advance", "failed"}, At(w, "create"),
             ~SeqTaken(Len(writer[w].chain) + 1), Step(w, pc, writer[w].chain), UNCHANGED heads,
             rows' = Append(rows, NextRow(writer[w].chain, writer[w].event))
      PROVE  ChainInv'
  <2> DEFINE c == [pc |-> pc, event |-> writer[w].event, chain |-> writer[w].chain]
  <2>1. writer' = [writer EXCEPT ![w] = c]
    BY <1>9 DEF Step
  <2>2. c \in Appending /\ c.event \in Events
    BY <1>1, <1>9 DEF Appending, WriterPcs, At
  <2>3. InOrder(writer[w])'
    BY <1>1, <1>9, <2>1, <2>2, RecordStored DEF InOrder, Held, Stored
  <2> HIDE DEF c
  <2>4. QED
    BY <1>1, <1>9, <2>1, <2>2, <2>3, RecordStored, ChainStepKeeps
<1>10. ASSUME NEW w \in Writers, CreateRow(w)
       PROVE  ChainInv'
  <2>1. NextRow(writer[w].chain, writer[w].event).seq = Len(writer[w].chain) + 1
    BY DEF NextRow
  <2>2. QED
    BY <1>7, <1>9, <1>10, <2>1 DEF CreateRow, At, WriterPcs
<1>11. ASSUME NEW w \in Writers, LoseAnswer(w)
       PROVE  ChainInv'
  <2>1. NextRow(writer[w].chain, writer[w].event).seq = Len(writer[w].chain) + 1
    BY DEF NextRow
  <2>2. QED
    BY <1>9, <1>11, <2>1 DEF LoseAnswer, At
<1>12. ASSUME NEW w \in Writers, Advance(w)
       PROVE  ChainInv'
  <2> DEFINE chain == writer[w].chain
             row   == NextRow(chain, writer[w].event)
             more  == Append(chain, row)
             c     == [pc |-> "done", event |-> writer[w].event, chain |-> chain]
  <2>1. /\ writer' = [writer EXCEPT ![w] = c] /\ rows' = rows
        /\ heads' = [heads EXCEPT ![ProcOf[w]] = [loaded |-> TRUE, chain |-> more]]
    BY <1>12 DEF Advance, Step
  <2>2. writer[w].event \in Events /\ chain \in Seq(Rows) /\ Len(chain) \in Nat /\ Len(rows) \in Nat
    BY <1>1, <1>12, LenProperties DEF Advance, At, Appending
  <2>3. row \in Rows
    BY <2>2, NextRowIsARow
  <2>4. Held(chain) /\ Len(chain) < Len(rows) /\ rows[Len(chain) + 1] = row
    BY <1>12, <2>1, TableStays DEF Advance, Stored
  <2> HIDE DEF row
  <2>5. /\ more \in Seq(Rows) /\ Len(more) = Len(chain) + 1
        /\ \A i \in 1..Len(chain) : more[i] = chain[i]
        /\ more[Len(chain) + 1] = row
    BY <2>2, <2>3, AppendProperties
  <2>6. \A i \in 1..Len(chain) : chain[i] = rows[i]
    BY <1>1, <2>2, <2>4, BeginsPointwise DEF Held, Begins
  <2>7. Held(more)
    <3>1. Len(more) <= Len(rows)
      BY <2>2, <2>4, <2>5
    <3>2. \A i \in 1..Len(more) : more[i] = rows[i]
      BY <2>2, <2>4, <2>5, <2>6
    <3> HIDE DEF more
    <3>3. Begins(more)
      BY <1>1, <2>5, <3>1, <3>2, BeginsPointwise
    <3>4. QED
      BY <3>3 DEF Begins, Held
  <2> HIDE DEF more
  <2>8. heads' \in [Procs -> Heads]
    BY <1>1, <1>2, <2>1, <2>5 DEF Heads
  <2>9. \A p \in Procs : heads'[p] = heads[p] \/ Held(heads[p].chain)'
    BY <1>1, <1>2, <2>1, <2>7 DEF Held
  <2>10. c \in Appending
    BY <1>1, <2>2 DEF Appending, WriterPcs
  <2>11. InOrder(writer[w])'
    BY <1>1, <2>1, <2>2, <2>4 DEF InOrder, Held
  <2> HIDE DEF c
  <2>12. QED
    BY <1>1, <2>1, <2>8, <2>9, <2>10, <2>11, TableStays, ChainStepKeeps
<1>13. NoAppend \in Appending /\ NoHead \in Heads
  BY <1>3 DEF NoAppend, NoHead, Appending, Heads, WriterPcs
<1>14. ASSUME NEW w \in Writers, EndAppend(w)
       PROVE  ChainInv'
  <2>1. InOrder(writer[w])'
    BY <1>1, <1>4, <1>14 DEF EndAppend, InOrder, NoAppend
  <2>2. QED
    BY <1>1, <1>13, <1>14, <2>1, TableStays, ChainStepKeeps DEF EndAppend
<1>15. ASSUME NEW p \in Procs, StopProcess(p)
       PROVE  ChainInv'
  <2>1. \A w \in Writers : writer'[w] = writer[w] \/ InOrder(writer[w])'
    BY <1>1, <1>4, <1>15 DEF StopProcess, InOrder, NoAppend
  <2>2. \A q \in Procs : heads'[q] = heads[q] \/ Held(heads[q].chain)'
    BY <1>1, <1>4, <1>15 DEF StopProcess, NoHead
  <2>3. QED
    BY <1>1, <1>13, <1>15, <2>1, <2>2, TableStays, ChainStepKeeps DEF StopProcess
<1>16. CASE UNCHANGED chainVars
  BY <1>1, <1>16, TableStays, ChainStepKeeps DEF chainVars
<1>17. QED
  BY <1>5, <1>6, <1>8, <1>10, <1>11, <1>12, <1>14, <1>15, <1>16 DEF ChainNext, AppendGoesOn

THEOREM ChainInvariant == ChainSpec => []ChainInv
  BY ChainInitially, ChainStep, PTL DEF ChainSpec

(***************************************************************************)
(* Every variable of the chain keeps its type.                             *)
(***************************************************************************)
THEOREM ChainTypeCorrect == ChainSpec => []ChainTypeOK
<1>1. ChainInv => ChainTypeOK
  BY DEF ChainInv
<1>2. QED
  BY <1>1, ChainInvariant, PTL

(***************************************************************************)
(* identity-store-prisma.ts: a failed write cannot leave the cache ahead   *)
(* of the database, in any process, whatever its other appends do.         *)
(***************************************************************************)
THEOREM CacheIsNeverAhead == ChainSpec => []CacheNotAhead
<1>1. ChainInv => CacheNotAhead
  BY DEF ChainInv
<1>2. QED
  BY <1>1, ChainInvariant, PTL

(***************************************************************************)
(* What is stored is one unbroken chain from the first record to the last: *)
(* verifyAuditChain never fails on it.                                     *)
(***************************************************************************)
THEOREM ChainAlwaysVerifies == ChainSpec => []ChainVerifies
<1>1. ChainInv => ChainVerifies
  BY DEF ChainInv
<1>2. QED
  BY <1>1, ChainInvariant, PTL

-----------------------------------------------------------------------------
(***************************************************************************)
(* The refinement.  Places(e) are the places e is stored at; an append is  *)
(* to its caller what AskedOf says.                                        *)
(***************************************************************************)
Places(e)  == {i \in DOMAIN rows : rows[i].event = e}
Count      == [e \in Events |-> Cardinality(Places(e))]
AskedOf(c) == [at    |-> CASE c.pc \in {"read", "verify", "create"} -> "asked"
                           [] c.pc \in {"advance", "done"} -> "stored"
                           [] c.pc = "failed" -> "thrown"
                           [] OTHER -> "idle",
               event |-> c.event]
Asked      == [w \in Writers |-> AskedOf(writer[w])]

LEMMA CountGrows ==
    ASSUME rows \in Seq(Rows), NEW row \in Rows, rows' = Append(rows, row)
    PROVE  Count' = [Count EXCEPT ![row.event] = @ + 1]
<1>1. /\ rows' \in Seq(Rows) /\ Len(rows') = Len(rows) + 1
      /\ \A i \in 1..Len(rows) : rows'[i] = rows[i]
      /\ rows'[Len(rows) + 1] = row
  BY AppendProperties
<1>2. Len(rows) \in Nat /\ DOMAIN rows = 1..Len(rows) /\ DOMAIN rows' = 1..(Len(rows) + 1)
  BY <1>1, LenProperties
<1>3. IsFiniteSet(1..Len(rows))
  BY <1>2, FS_Interval
<1>4. ASSUME NEW e \in Events
      PROVE  /\ IsFiniteSet(Places(e)) /\ Len(rows) + 1 \notin Places(e)
             /\ Places(e)' = IF row.event = e THEN Places(e) \union {Len(rows) + 1} ELSE Places(e)
  <2>1. Places(e) \subseteq 1..Len(rows)
    BY <1>2 DEF Places
  <2>2. IsFiniteSet(Places(e))
    BY <1>3, <2>1, FS_Subset
  <2>3. Places(e)' = {i \in 1..(Len(rows) + 1) : rows'[i].event = e}
    BY <1>2 DEF Places
  <2>4. QED
    BY <1>1, <1>2, <2>1, <2>2, <2>3 DEF Places
<1>5. ASSUME NEW e \in Events
      PROVE  Cardinality(Places(e))' = IF row.event = e THEN Cardinality(Places(e)) + 1
                                                        ELSE Cardinality(Places(e))
  BY <1>4, FS_AddElement
<1>6. QED
  BY <1>5 DEF Count

\* An append that moves from one place to another, as its caller sees it.
LEMMA AskedMoves ==
    ASSUME ChainInv, NEW w \in Writers, NEW pc, NEW chain, Step(w, pc, chain)
    PROVE  Asked' = [Asked EXCEPT ![w] = AskedOf([pc |-> pc, event |-> writer[w].event, chain |-> chain])]
  BY DEF ChainInv, ChainTypeOK, Step, Asked

\* One that its caller does not see move.
LEMMA AskedStays ==
    ASSUME ChainInv, NEW w \in Writers, NEW pc, NEW chain, Step(w, pc, chain),
           \/ pc \in {"verify", "create"} /\ writer[w].pc \in {"read", "verify"}
           \/ pc = "done" /\ At(w, "advance")
    PROVE  UNCHANGED Asked
<1> DEFINE c == [pc |-> pc, event |-> writer[w].event, chain |-> chain]
<1>1. AskedOf(c) = AskedOf(writer[w])
  BY DEF AskedOf, At
<1>2. writer' = [writer EXCEPT ![w] = c] /\ writer \in [Writers -> Appending]
  BY DEF Step, ChainInv, ChainTypeOK
<1> HIDE DEF c
<1>3. \A v \in Writers : AskedOf(writer'[v]) = AskedOf(writer[v])
  BY <1>1, <1>2
<1>4. QED
  BY <1>3 DEF Asked

(***************************************************************************)
(* Whatever appends overlap, answers are lost and processes stop, to its   *)
(* callers the chain is the log that EvidenceLog promises.                 *)
(***************************************************************************)
THEOREM ChainIsALog == ChainSpec => ImplementsLog
<1> USE DEF Log!Nothing, Log!logVars
<1>1. ChainInit => Log!LogInit
  <2> SUFFICES ASSUME ChainInit PROVE Log!LogInit
    OBVIOUS
  <2>1. \A e \in Events : Places(e) = {}
    BY EmptySeq DEF ChainInit, Places
  <2>2. Count = [e \in Events |-> 0]
    BY <2>1, FS_EmptySet DEF Count
  <2>3. Asked = [w \in Writers |-> [at |-> "idle", event |-> NoEvent]]
    BY DEF Asked, AskedOf, ChainInit, NoAppend
  <2>4. QED
    BY <2>2, <2>3 DEF Log!LogInit, Count, Places, Asked, AskedOf
<1>2. ChainInv /\ [ChainNext]_chainVars => [Log!LogNext]_(Log!logVars)
  <2> SUFFICES ASSUME ChainInv, [ChainNext]_chainVars
               PROVE  Log!LogNext \/ UNCHANGED <<Count, Asked>>
    BY DEF Count, Places, Asked, AskedOf
  <2>1. /\ rows \in Seq(Rows) /\ writer \in [Writers -> Appending]
        /\ \A w \in Writers : writer[w].pc # "idle" => writer[w].event \in Events
    BY DEF ChainInv, ChainTypeOK
  <2>2. UNCHANGED rows => UNCHANGED Count
    BY DEF Count, Places
  \* The log's actions, said of Count and Asked.
  <2>3. ASSUME NEW w \in Writers, NEW e \in Events, Asked[w].at = "idle",
               Asked' = [Asked EXCEPT ![w] = [at |-> "asked", event |-> e]], UNCHANGED Count
        PROVE  Log!LogNext
    <3>1. Log!Ask(w, e)
      BY <2>3 DEF Log!Ask, Count, Places, Asked, AskedOf
    <3>2. QED
      BY <3>1 DEF Log!LogNext
  <2>4. ASSUME NEW w \in Writers, Asked[w].at = "asked",
               Count' = [Count EXCEPT ![Asked[w].event] = @ + 1],
               Asked' = [Asked EXCEPT ![w].at = "stored"]
        PROVE  Log!LogNext
    <3>1. Log!Store(w)
      BY <2>4 DEF Log!Store, Log!Takes, Log!Becomes, Count, Places, Asked, AskedOf
    <3>2. QED
      BY <3>1 DEF Log!LogNext
  <2>5. ASSUME NEW w \in Writers, Asked[w].at = "asked",
               Count' = [Count EXCEPT ![Asked[w].event] = @ + 1] \/ UNCHANGED Count,
               Asked' = [Asked EXCEPT ![w].at = "thrown"]
        PROVE  Log!LogNext
    <3>1. Log!Throw(w)
      BY <2>5 DEF Log!Throw, Log!MayTake, Log!Takes, Log!Becomes, Count, Places, Asked, AskedOf
    <3>2. QED
      BY <3>1 DEF Log!LogNext
  <2>6. ASSUME NEW w \in Writers, Asked[w].at \in {"stored", "thrown"},
               Asked' = [Asked EXCEPT ![w] = [at |-> "idle", event |-> NoEvent]], UNCHANGED Count
        PROVE  Log!LogNext
    <3>1. Log!Answer(w)
      BY <2>6 DEF Log!Answer, Count, Places, Asked, AskedOf
    <3>2. QED
      BY <3>1 DEF Log!LogNext
  <2>7. ASSUME NEW W \in SUBSET Writers,
               Asked' = [w \in Writers |-> IF w \in W THEN [at |-> "idle", event |-> NoEvent]
                                                      ELSE Asked[w]],
               UNCHANGED Count
        PROVE  Log!LogNext
    <3>1. Log!Stop(W)
      BY <2>7 DEF Log!Stop, Count, Places, Asked, AskedOf
    <3>2. QED
      BY <3>1 DEF Log!LogNext
  \* The chain's.
  <2>8. ASSUME NEW w \in Writers, NEW e \in Events, BeginAppend(w, e)
        PROVE  Log!LogNext
    <3>1. Asked' = [Asked EXCEPT ![w] = [at |-> "asked", event |-> e]] /\ Asked[w].at = "idle"
      BY <2>1, <2>8 DEF BeginAppend, At, Asked, AskedOf
    <3>2. QED
      BY <2>2, <2>3, <2>8, <3>1 DEF BeginAppend
  <2>9. ASSUME NEW w \in Writers, ReadRows(w)
        PROVE  UNCHANGED <<Count, Asked>>
    BY <2>2, <2>9, AskedStays DEF ReadRows, At
  <2>10. ASSUME NEW w \in Writers, KeepRead(w)
         PROVE  Log!LogNext \/ UNCHANGED <<Count, Asked>>
    <3>1. Asked[w].at = "asked"
      BY <2>10 DEF KeepRead, At, Asked, AskedOf
    <3>2. CASE Step(w, "create", writer[w].chain)
      BY <2>2, <2>10, <3>2, AskedStays DEF KeepRead, At
    <3>3. CASE Step(w, "failed", writer[w].chain)
      <4>1. Asked' = [Asked EXCEPT ![w].at = "thrown"]
        BY <3>3, AskedMoves DEF Asked, AskedOf
      <4>2. QED
        BY <2>2, <2>5, <2>10, <3>1, <4>1 DEF KeepRead
    <3>4. QED
      BY <2>10, <3>2, <3>3 DEF KeepRead
  <2>11. ASSUME NEW w \in Writers, At(w, "create"),
                rows' = Append(rows, NextRow(writer[w].chain, writer[w].event))
         PROVE  Count' = [Count EXCEPT ![Asked[w].event] = @ + 1] /\ Asked[w].at = "asked"
    <3>1. writer[w].event \in Events /\ writer[w].chain \in Seq(Rows)
      BY <2>1, <2>11 DEF At, Appending
    <3>2. NextRow(writer[w].chain, writer[w].event) \in Rows
      BY <3>1, NextRowIsARow
    <3>3. NextRow(writer[w].chain, writer[w].event).event = Asked[w].event
      BY DEF NextRow, Asked, AskedOf
    <3>4. QED
      BY <2>1, <2>11, <3>2, <3>3, CountGrows DEF At, Asked, AskedOf
  <2>12. ASSUME NEW w \in Writers, CreateRow(w)
         PROVE  Log!LogNext
    <3>1. CASE Step(w, "failed", writer[w].chain) /\ UNCHANGED rows
      <4>1. Asked' = [Asked EXCEPT ![w].at = "thrown"] /\ Asked[w].at = "asked"
        BY <2>12, <3>1, AskedMoves DEF CreateRow, At, Asked, AskedOf
      <4>2. QED
        BY <2>2, <2>5, <3>1, <4>1
    <3>2. CASE /\ Step(w, "advance", writer[w].chain)
               /\ rows' = Append(rows, NextRow(writer[w].chain, writer[w].event))
      <4>1. Asked' = [Asked EXCEPT ![w].at = "stored"]
        BY <3>2, AskedMoves DEF Asked, AskedOf
      <4>2. QED
        BY <2>4, <2>11, <2>12, <3>2, <4>1 DEF CreateRow
    <3>3. QED
      BY <2>12, <3>1, <3>2 DEF CreateRow
  <2>13. ASSUME NEW w \in Writers, LoseAnswer(w)
         PROVE  Log!LogNext
    <3>1. Asked' = [Asked EXCEPT ![w].at = "thrown"]
      BY <2>13, AskedMoves DEF LoseAnswer, Asked, AskedOf
    <3>2. QED
      BY <2>5, <2>11, <2>13, <3>1 DEF LoseAnswer
  <2>14. ASSUME NEW w \in Writers, Advance(w)
         PROVE  UNCHANGED <<Count, Asked>>
    BY <2>2, <2>14, AskedStays DEF Advance
  <2>15. ASSUME NEW w \in Writers, EndAppend(w)
         PROVE  Log!LogNext
    <3>1. Asked' = [Asked EXCEPT ![w] = [at |-> "idle", event |-> NoEvent]]
      BY <2>1, <2>15 DEF EndAppend, NoAppend, Asked, AskedOf
    <3>2. Asked[w].at \in {"stored", "thrown"}
      BY <2>15 DEF EndAppend, Asked, AskedOf
    <3>3. QED
      BY <2>2, <2>6, <2>15, <3>1, <3>2 DEF EndAppend
  <2>16. ASSUME NEW p \in Procs, StopProcess(p)
         PROVE  Log!LogNext
    <3> DEFINE W == {w \in Writers : ProcOf[w] = p}
    <3>1. Asked' = [w \in Writers |-> IF w \in W THEN [at |-> "idle", event |-> NoEvent]
                                                 ELSE Asked[w]]
      BY <2>16 DEF StopProcess, NoAppend, Asked, AskedOf
    <3> HIDE DEF W
    <3>2. W \in SUBSET Writers
      BY DEF W
    <3>3. QED
      BY <2>2, <2>7, <2>16, <3>1, <3>2 DEF StopProcess
  <2>17. CASE UNCHANGED chainVars
    BY <2>2, <2>17 DEF chainVars, Asked
  <2>18. QED
    BY <2>8, <2>9, <2>10, <2>12, <2>13, <2>14, <2>15, <2>16, <2>17 DEF ChainNext, AppendGoesOn
<1>3. QED
  BY <1>1, <1>2, ChainInvariant, PTL DEF ChainSpec, ImplementsLog, Log!LogSpec
=============================================================================
