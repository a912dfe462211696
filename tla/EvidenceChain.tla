--------------------------- MODULE EvidenceChain ---------------------------
(***************************************************************************)
(* Sentinel's durable evidence log: PrismaOrganizationAuditTrail in        *)
(* src/ontrak-sentinel/src/lib/identity-store-prisma.ts, and the chain     *)
(* arithmetic of audit-chain.ts, for one organization.                     *)
(*                                                                         *)
(* Each server process keeps the chain it last knew in memory.  An append  *)
(* takes that copy (reading and verifying the table the first time),       *)
(* links one more record to its head, inserts it, and only then replaces   *)
(* the copy.  Nothing serialises the appends of a process, and nothing     *)
(* tells a process what another one appended: the table's unique           *)
(* (organizationId, seq) is the only arbiter.                              *)
(***************************************************************************)
EXTENDS Integers, Sequences, FiniteSets

CONSTANTS
    Writers,        \* the appends that can be in flight at once
    Procs,          \* the server processes
    ProcOf,         \* ProcOf[w]: the process append w runs in
    Events,         \* what is appended
    NoEvent,        \* what nobody appends
    Genesis,        \* the digest the first record links to
    MaxRows         \* bound: no append begins once the table is this long

Digests == (Nat \X Events) \union {Genesis}
Rows    == [seq : Nat, event : Events, prev : Digests]

ASSUME ProcOfIsTotal == ProcOf \in [Writers -> Procs]
ASSUME GenesisIsNoDigest == Genesis \notin Nat \X Events

VARIABLES
    rows,           \* the table, in the order of seq
    heads,          \* heads[p]: the chain process p keeps in memory
    writer          \* writer[w]: where append w is, and the chain it extends

chainVars == <<rows, heads, writer>>

WriterPcs == {"idle", "read", "verify", "create", "advance", "done", "failed"}
Heads     == [loaded : BOOLEAN, chain : Seq(Rows)]
NoHead    == [loaded |-> FALSE, chain |-> <<>>]
Appending == [pc : WriterPcs, event : Events \union {NoEvent}, chain : Seq(Rows)]
NoAppend  == [pc |-> "idle", event |-> NoEvent, chain |-> <<>>]

ChainTypeOK ==
    /\ rows \in Seq(Rows)
    /\ heads \in [Procs -> Heads]
    /\ writer \in [Writers -> Appending]
    /\ \A w \in Writers : writer[w].pc # "idle" => writer[w].event \in Events

ChainInit ==
    /\ rows = <<>>
    /\ heads = [p \in Procs |-> NoHead]
    /\ writer = [w \in Writers |-> NoAppend]

(***************************************************************************)
(* hashRecord: SHA-256 of the record, which holds its seq and a fresh      *)
(* UUID, so within one chain the pair stands for the digest.               *)
(***************************************************************************)
Digest(row) == <<row.seq, row.event>>

HeadOf(chain) == IF chain = <<>> THEN Genesis ELSE Digest(chain[Len(chain)])

\* verifyAuditChain: every record in its place and linked to the one before.
Verifies(chain) ==
    \A i \in DOMAIN chain :
        /\ chain[i].seq = i
        /\ chain[i].prev = IF i = 1 THEN Genesis ELSE Digest(chain[i - 1])

\* appendAuditEvent: the record an append would add to the chain it holds.
NextRow(chain, event) ==
    [seq |-> Len(chain) + 1, event |-> event, prev |-> HeadOf(chain)]

At(w, pc) == writer[w].pc = pc
Kept(w)   == heads[ProcOf[w]]

Step(w, pc, chain) ==
    writer' = [writer EXCEPT ![w] = [pc |-> pc, event |-> writer[w].event, chain |-> chain]]

\* A mutation: the copy is replaced as soon as the record is linked.
BeginAppendAhead(w, e) ==
    /\ At(w, "idle")
    /\ Len(rows) < MaxRows
    /\ writer' = [writer EXCEPT ![w] =
                    [pc    |-> IF Kept(w).loaded THEN "create" ELSE "read",
                     event |-> e,
                     chain |-> Kept(w).chain]]
    /\ heads' = IF Kept(w).loaded
                THEN [heads EXCEPT ![ProcOf[w]].chain = Append(@, NextRow(@, e))] ELSE heads
    /\ UNCHANGED rows

(***************************************************************************)
(* append, up to its first wait: the cached chain if there is one.         *)
(***************************************************************************)
BeginAppend(w, e) ==
    /\ At(w, "idle")
    /\ Len(rows) < MaxRows
    /\ writer' = [writer EXCEPT ![w] =
                    [pc    |-> IF Kept(w).loaded THEN "create" ELSE "read",
                     event |-> e,
                     chain |-> Kept(w).chain]]
    /\ UNCHANGED <<rows, heads>>

\* chainFor without a cached chain: the rows as the database has them now.
ReadRows(w) ==
    /\ At(w, "read")
    /\ Step(w, "verify", rows)
    /\ UNCHANGED <<rows, heads>>

\* ... verified, and kept for the next append; a broken chain is refused.
KeepRead(w) ==
    /\ At(w, "verify")
    /\ \/ /\ Verifies(writer[w].chain)
          /\ heads' = [heads EXCEPT ![ProcOf[w]] = [loaded |-> TRUE, chain |-> writer[w].chain]]
          /\ Step(w, "create", writer[w].chain)
       \/ /\ ~Verifies(writer[w].chain)
          /\ Step(w, "failed", writer[w].chain)
          /\ UNCHANGED heads
    /\ UNCHANGED rows

\* A mutation: the table has an index on seq where it needs a constraint.
SeqIndexed(seq) == FALSE

\* The unique (organizationId, seq) of the table.
SeqTaken(seq) == \E i \in DOMAIN rows : rows[i].seq = seq

\* A mutation: an overlapping append is taken to have stored the record.
CreateRowIfMissing(w) ==
    /\ At(w, "create")
    /\ LET row == NextRow(writer[w].chain, writer[w].event) IN
        rows' = IF SeqTaken(row.seq) THEN rows ELSE Append(rows, row)
    /\ Step(w, "advance", writer[w].chain)
    /\ UNCHANGED heads

\* The database takes the record, or refuses its place.
CreateRow(w) ==
    /\ At(w, "create")
    /\ LET row == NextRow(writer[w].chain, writer[w].event) IN
        \/ /\ SeqTaken(row.seq)
           /\ Step(w, "failed", writer[w].chain)
           /\ UNCHANGED rows
        \/ /\ ~SeqTaken(row.seq)
           /\ rows' = Append(rows, row)
           /\ Step(w, "advance", writer[w].chain)
    /\ UNCHANGED heads

\* The database takes the record and its answer is lost: the append throws.
LoseAnswer(w) ==
    /\ At(w, "create")
    /\ LET row == NextRow(writer[w].chain, writer[w].event) IN
        /\ ~SeqTaken(row.seq)
        /\ rows' = Append(rows, row)
    /\ Step(w, "failed", writer[w].chain)
    /\ UNCHANGED heads

\* heads.set, once the record is stored.
Advance(w) ==
    /\ At(w, "advance")
    /\ heads' = [heads EXCEPT ![ProcOf[w]] =
                    [loaded |-> TRUE,
                     chain  |-> Append(writer[w].chain, NextRow(writer[w].chain, writer[w].event))]]
    /\ Step(w, "done", writer[w].chain)
    /\ UNCHANGED rows

\* The caller takes the answer.
EndAppend(w) ==
    /\ writer[w].pc \in {"done", "failed"}
    /\ writer' = [writer EXCEPT ![w] = NoAppend]
    /\ UNCHANGED <<rows, heads>>

\* The process stops: its copy of the chain and its appends are gone.
StopProcess(p) ==
    /\ heads' = [heads EXCEPT ![p] = NoHead]
    /\ writer' = [w \in Writers |->
                    IF ProcOf[w] = p THEN NoAppend ELSE writer[w]]
    /\ UNCHANGED rows

(***************************************************************************)
(* One wait of an append answered.                                         *)
(***************************************************************************)
AppendGoesOn(w) ==
    ReadRows(w) \/ KeepRead(w) \/ CreateRow(w) \/ LoseAnswer(w) \/ Advance(w)

ChainNext ==
    \/ \E w \in Writers : AppendGoesOn(w) \/ EndAppend(w)
    \/ \E w \in Writers, e \in Events : BeginAppend(w, e)
    \/ \E p \in Procs : StopProcess(p)

ChainSpec == ChainInit /\ [][ChainNext]_chainVars

-----------------------------------------------------------------------------
(***************************************************************************)
(* Whatever appends overlap, in one process or several, and whatever       *)
(* answers are lost, what is stored is one unbroken chain: an auditor's    *)
(* verifyAuditChain never fails, and no process is ever locked out of its  *)
(* own history by it.                                                      *)
(***************************************************************************)
ChainVerifies == Verifies(rows)

(***************************************************************************)
(* "A failed write cannot leave the cache ahead of the database": the      *)
(* chain a process keeps, or has taken to extend, is a beginning of what   *)
(* is stored, so no record is ever linked to one that was not written.     *)
(***************************************************************************)
Begins(chain) == Len(chain) <= Len(rows) /\ chain = SubSeq(rows, 1, Len(chain))

CacheNotAhead ==
    /\ \A p \in Procs : Begins(heads[p].chain)
    /\ \A w \in Writers : Begins(writer[w].chain)

(***************************************************************************)
(* To its callers the chain is the log of EvidenceLog: an append that      *)
(* returns stored its event once, one that throws stored it at most once,  *)
(* and an overlapping append, a lost answer or a stop neither repeats nor  *)
(* removes what is stored.                                                 *)
(***************************************************************************)
Log == INSTANCE EvidenceLog WITH
    log   <- [e \in Events |-> Cardinality({i \in DOMAIN rows : rows[i].event = e})],
    asked <- [w \in Writers |->
                [at    |-> CASE writer[w].pc \in {"read", "verify", "create"} -> "asked"
                             [] writer[w].pc \in {"advance", "done"} -> "stored"
                             [] writer[w].pc = "failed" -> "thrown"
                             [] OTHER -> "idle",
                 event |-> writer[w].event]]

ImplementsLog == Log!LogSpec
=============================================================================
