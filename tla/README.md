# TLA+ models of OnTrak

OnTrak is a family of products around IT support training: a training platform
with simulated and real practice machines (Training, in `src/src`), a service
desk (Tix), a directory and intrusion console (Sentinel), a package and
container updater (Sync), an AI coding agent (Genie) and a front door (Portal).
This directory holds TLA+ models of the parts where several calls, processes or
machines meet, their TLC runs, and the theorems proved about them with TLAPS.
Paths below are relative to the repository; `sessions.ts` is
`src/lib/lab/sessions.ts` of the Training product.

Contents: [inventory](#inventory) - [modules](#modules) - [runs](#runs) -
[bounds and fairness](#bounds-and-fairness) - [proofs](#proofs) -
[where the code and its comments part](#where-the-code-and-its-comments-part) -
[not modelled](#not-modelled) - [plan](#plan)

## Inventory

| Component | State it keeps | Operations | How it meets the others | What makes it correct |
| --- | --- | --- | --- | --- |
| **Lab: per-session lock** (`sessions.ts` `withSessionLock`) | a `Map` from session to the promise of the last caller, per process | wait for the previous promise, work, open the gate | `provision` runs under it; CLI commands have a `Map` of their own | one caller at a time, in order, nobody waits for ever |
| **Lab: session manager** (`sessions.ts`, `models.ts`, `store-prisma.ts`) | the session row (state, instance, deadlines, `completedAt`), the hypervisor's instances; the pool is derived from both | start, provision, claim, open, extend, check, complete, end, reset, reap, refill, prewarm, drain | server actions of the portal and CLI commands call it; every save writes the whole row from the caller's copy | machines belong to one session, ready means there is a machine, finished stays finished, one result, pools within bounds, nothing stays half built |
| **Lab: templates** (`sessions.ts` `ensureTemplate`, `unavailableScenarios`; `incus.ts`) | the template instance of each scenario and workload, its snapshot `clean`, the portal's cache of what cannot start | build, forced or not; list, probe, forget | operators build from the CLI; every machine is cloned from `clean`; the portal's pages show the list | `clean` holds the scenario's fault, "ready" means that there is one, a finished template stays, the list is recent |
| **Lab: submission** (`complete`, `tickets.ts`, `scoring.ts`, `completion.ts`, `app/actions/lab.ts`) | the row, the saved draft, stored results and write-ups | heartbeat, save draft, complete, blend, file | calls the check script, then the ledger | an ungraded machine never passes, a pass is documented, a draft is not lost, the family's copy is the lab's result |
| **Family ledger** (`lab-completion-record.ts`, `api/v1/lab/completions`) | `Attempt` rows unique by `labSessionId`, audit, announcements, certificates | find, resolve, create, audit, announce, certify | the portal and peer labs deliver; webhook, LTI and certificate chain are told | one attempt per session, never rewritten, announced and certified at most once |
| **Training attempts** (`actions/student.ts`, `actions/instructor.ts`) | `Attempt` status, snapshot, timing record, certificate | start, autosave, timing batches, submit, regrade, abandon, restart, expire | announces gradings like the ledger | one running attempt, a grade of the stored work, a certificate no longer than its result |
| **Graded announcements** (`graded-events.ts`, `webhook-delivery.ts`) | `WebhookDelivery` outbox | first send, manual retry, settle | fed by attempts and the ledger | a delivered event stays delivered, counts are right |
| **Simulators and grading** (`lib/sim`, `grading-rules.ts`) | a virtual machine state per attempt | interpret a line, grade | called by attempts | sequential functions of data |
| **Identity and federation** (`oidc-*`, `scim-*`, `lti-*`) | sessions, linked accounts | logins, provisioning | external providers | protocol conformance |
| **Sentinel enforcement** (`ontrak-sentinel/src/lib/enforcement-*`) | actions PENDING/ACTIVE/LIFTED/REFUSED, the plane's rules | propose, approve, refuse, apply, expire, lift | pushes to a firewall or CDN plane; writes the evidence chain | two administrators, one lift, the plane agrees with the record, rate limit |
| **Sentinel evidence chain** (`identity-store-prisma.ts`, `audit-chain.ts`) | hash-chained events, cached heads | append, verify | everything in Sentinel writes it | one unforked chain |
| **Sync rollouts** (`ontrak-sync/backend/ontrak/applier.py`, `rollout.py`, `db.py`) | roll rows, remit, running containers | decide, roll, health gate, put back, undo, clear | Docker hosts over SSH; scheduler, API and CLI | a bad image is tried once, a crash leaves a block, cooldown and caps |
| **Genie locks and change sets** (`ontrak-genie/src/locks.ts`, `proposals.ts`, `approval.ts`) | lock table, pending set per owner, pending prompts | lock, re-enter, release; stage, apply, discard; ask, answer, time out | tools of concurrent turns | one writer per file, nothing staged is lost, a prompt is decided once |
| **Tix alerts and webhooks** (`ontrak-tix/src/lib/alert-promotion-service.ts`, `webhook-service.ts`) | alerts with their ticket, decisions, deliveries | promote, link, record; deliver due | tickets, Sentinel's alerts | one incident per alert, deliveries neither lost nor counted twice |
| Portal, Bolt (vendored), themes, landing page, g0dm0d3, Python original of the lab | - | - | - | outside these models |

The behaviours that are hard: every save of a session row is a read, some
awaits, and a write of all columns, with no version check; web calls share one
process and its lock `Map` while CLI commands are processes of their own; the
hypervisor fails halfway; sweeps work through listings for minutes; a submission
touches five tables without a transaction; peers deliver again. `PROJECT.json`
lists these hazards at their lines, with the properties that cover them.

## Modules

| Module | What it is |
| --- | --- |
| `SessionLock` | `withSessionLock`: a call chains itself behind the promise it finds (`Request`), starts once that resolved (`Enter`) and opens its own gate, whether its work succeeded or threw (`Leave`); `Restart` loses the `Map`. |
| `FifoLock` | What the lock promises: a queue per session, served from the head. |
| `MCSessionLock` | The mapping under which `SessionLock` implements `FifoLock`. |
| `SessionLock_proofs` | Type correctness, mutual exclusion, and that `SessionLock` implements `FifoLock`. |
| `LabModels` | States, the sets of states the code names (`LIVE_STATES`, `USABLE_STATES`, `TERMINAL_STATES`) and instance names. A name is a record of its kind, scenario and number instead of a string. |
| `LabSessions` | The session manager over table, hypervisor and pool, one step per await. Composed with `SessionLock` for `provision`. |
| `MCLabSessions` | Symmetry for its runs, and a pool that was filled before. |
| `LabSessions_proofs` | All its safety properties, however calls overlap, and the bounds of the pools. |
| `LabTemplates` | Building a scenario's templates, and what the portal says can start. |
| `LabTemplates_proofs` | Types, that a snapshot holds the fault and what is ready can be cloned, and how recent the portal's answers are. |
| `LabScoring` | Rounding, percent, pass mark and the blend with the write-up. |
| `Ledger` | What the ledger promises: file once, announce once, certify once and only what was filed with a certificate. |
| `LabLedger` | `recordLabCompletion`, await by await, with its deliveries. |
| `LabSubmission` | A submission from the form to the ledger; extends `LabLedger` and so composes the two. |
| `MCLabSubmission` | Marks around the pass mark, symmetry. |
| `LabSubmission_proofs` | What the arithmetic of `LabScoring` guarantees, that `LabLedger` implements `Ledger`, and the safety properties of the whole path. |
| `Attempts` | A student's attempts at a simulated scenario, their grades and certificates, and the webhook deliveries that announce them. |
| `MCAttempts` | Work that passes until the checks are edited, and work that never does; symmetry. |
| `Attempts_proofs` | Its safety properties. |
| `EvidenceLog` | What Sentinel's evidence chain promises its callers: an append that returned is stored once, one that threw at most once, nothing is removed or moved. |
| `EvidenceChain` | The chain itself: the table, the head each process keeps, appends that overlap, answers that are lost, processes that stop. |
| `MCEvidenceChain` | Which appends share a process. |
| `EvidenceChain_proofs` | The inductive invariant, and that `EvidenceChain` implements `EvidenceLog`. |
| `ActionLife` | The life of an enforcement action: proposed, approved by another than its requester where that was required, applied, lifted, or refused. |
| `Enforcement` | The service, its rails, its expiry loop and its plane. |
| `MCEnforcement` | Proposals of the console and of the service desk, three policies, symmetry. |
| `Enforcement_proofs` | That `Enforcement` implements `ActionLife`, and its safety properties: evidence, plane, rate limit, safe list. |
| `Rollout` | Sync's container rollouts: a pass, a roll with its way back, an undo, and the people who claim, release and clear beside it. |
| `MCRollout` | Two containers of one host, symmetry. |
| `Rollout_proofs` | Type correctness and its four properties. |

**LabSessions and the code.** `rows` is the table, `vms` the hypervisor's
instances, `results` the number of results stored. `call[t]` is a call in
flight: the operation, the await it stands at (`pc`), its copy of the row, the
claims or names it last read, and for the sweep its listing. An action reads as
the stretch of code between two awaits: `StartRead` is `createSession` up to its
first write, `InsertRow` the insert, `Enqueue`/`Provision` the lock,
`Allocate`/`ListClaimed`/`PickPool`/`KeepMachine`/`Clone`/`GuestAnswers`/`Finish`
the body of `provisionLocked`; `CheckRead`/`CheckSave`/`Grade`/`GradedSave` is
`runChecks`, which `complete` shares and continues with `Verdict` and
`RecordResult`; `RecycleSave`/`DestroyInstance`/`DestroyedSave` is the recycling
that `end`, `reset`, `complete` and `reap` share; `ReapList` to `RefillDone` is
the sweep, its second half and the refill; `DrainCall` to `DrainNext` is
`drainPool`. `Save` writes the whole row of the call's copy: that is what makes
lost updates possible in the model as in the program. A web call needs
`SessionLock`'s permission to provision, a CLI call has it for itself.

The store has no version check, so the manager promises nothing of a session
that was written over from an old copy. The history variables name exactly these
cases: `overtaken[t]` holds the sessions that another call has moved on since
call `t` read them and that `t` still acts upon (`Knows`: its own row unless
`provision` is about to read it again, the rows of its listing, every row while
it has the claims in hand); `crossed` the sessions whose row was saved from such
a copy, or checked when they were over; `doubtful` the machines claimed, kept or
destroyed on the strength of such a reading. No action's guard reads them.
`ExclusiveMachine`, `ReadyHasMachine`, `OneResult` and `TerminalIsFinal` say that
nothing else spoils what they are about: two builds are apart once the first has
*saved* its claim, a build that waited for the lock sees what happened before it,
a machine is taken only after its row says so, a mark stands before its result.

**LabSubmission and the code.** The machine part of the row is reduced to
`completedAt` and whether there is a machine; draft, results and write-ups are
tables of their own. `Complete` to `GoneSave` is `SessionManager.complete`
with `finishSubmission`, `FileCompletion` the call of `recordLabCompletion`
from the server action, `PeerReports` the API route, `TouchRead`/`TouchSave`
the heartbeat of the session page, whose stale row may undo `completedAt`.
Refusing a terminal state is left to `LabSessions`.

**LabTemplates and the code.** For each workload of one scenario `vm` is the
power state of the template's instance, `disk` what its disk holds and `clean`
what the snapshot holds: nothing of the fault (`bare`), the fault, or a state
that a loss of power left unknown (`cut`). `build[b]` stands at a request of
`ensureTemplate`: `LookForTemplate`/`SnapshotsUnread` is the test for a finished
template, `ImageFound` to `Create` clears the name and makes the instance,
`StartGuest`/`Prepare`/`PrepareFails` is the boot with upload, `runSetup` and
console transport, `StopGracefully`/`GracefulStopFails`/`StopByForce` the
`finally` clause, `Snapshot` the end; `Report` is the loop of `buildTemplates`
around it, and `BuildLost` a CLI process that goes away. `page[p]` is a call of
`unavailableScenarios`: the rows of `templateStatus`, the list of `poolStatus`,
the second probe of `scenarioAvailability`, and the cache they end in.
`seen` is history: when each workload could last start, and when it last had no
template. LabSessions takes templates to be there; this module shows what that
rests on.

**Attempts and the code.** `attempt[a]` is a row, `call[w]` a request with what it
has read. `StartReads`/`StartCounts`/`StartCreates` is `startAttempt`, await by
await; restart, abandon, autosave, submit and regrade read, decide on their copy,
and write their columns (`Writes`) or their grade with certificate (`Grades`, one
transaction of the code). `SweepExpired` is one statement. `MakesRow`, `Sends`,
`Settles` is `deliverGradedEvent` with `settle`; `TellsNobody` is an announcement
that ends before the consumer is asked, with its row or without: no consumer or
secret is configured, the reading of the certificate throws after the grade is
stored (`student.ts:388`), or the upsert does, which `announceGraded` only logs
(`graded-events.ts:108`). `RetryReads` is the list that `retryPendingDeliveries`
works through with the same two steps. The checks are abstracted to the set of
works that pass them, which an edit of the scenario changes. History: `crossed`
(attempts written over a row newer than the one read), `overlapped` (two starts at
once), `lost` (events whose call was cut short), `untold` (events whose call ended
without asking the consumer).

**EvidenceChain and the code.** `rows` is the `AuditEvent` table of one
organization, `heads[p]` what `PrismaOrganizationAuditTrail` of process `p`
keeps, `writer[w]` an append. `BeginAppend` to `EndAppend` is `append` with
`head()` and `verify`: read the table when nothing is kept, keep what was read,
create the next row - whose sequence number is unique in the table - and set the
kept head after the answer. `LoseAnswer` is a row that was stored and reported as
failed. A digest is the pair of sequence number and event: a record holds a fresh
UUID, so that equal digests mean equal rows and predecessors.

**Enforcement and the code.** `store` is the table of actions, `call[w]` a call
with what it has read, `due` the list a sweep took, `plane` what the plane
enforces, `wire` the requests that were given up and may still be carried out,
`log` how often the chain holds each entry that the properties tell apart.
`ApplyBegins`, `ReadPolicy`, `ReadView` and `SaveProposal` or `RefuseProposal` are
`apply`; `ApproveBegins` or `ApproveOwnBegins`, the same reads, and `SaveApproval`
or `SaveRefusal` are `approve`; `LiftBegins`/`SaveLift` is `lift`,
`StartSweep`/`SweepNext`/`EndSweep` is `sweepExpired` under the scheduler's
`runOnce`, `TellPlane`, `PlaneDoes`, `PlaneIgnores`, `PlaneRefuses`,
`PlaneTimesOut` and `PlaneDoesLate` are `pushToPlane` over HTTP with its timeout.
`PlaneIgnores` is a 2xx that the client takes for success although nothing was
done: a page that is not JSON, an empty body, JSON without `ok`; and a refusal may
come from a plane that has done what it was told. The chain appears as what
`EvidenceLog` promises of it: `CallThrows` is an append that throws, stored or
not. History: `crossed` (two callers worked on one action), `hasty` (applications
judged while another was being decided), `dropped` (calls cut short), `misread`
(actions a plane left alone and was believed).

**Rollout and the code.** `rows[c]` are the `container_rolls` of a container,
`remit` and `optout` the tables `rollout_targets` and `rollout_optouts`, `flagged`
the open findings, `image`/`tag` what runs and what its ref names on the host,
`latest` what the registry has. `StartPass`, `ReadOwned`, `ReadKept`, `AdoptOne`,
`EndAdoption` is `adopt_discovered`; `ReadTargets` and `ReadHistory` are the reads
of `apply_rollouts`; `RollOne` and `LeaveAlone` are `decide_roll` for one
container. Rails that depend on configuration alone (digest pins, exclusions, the
window) may refuse any container, so `LeaveAlone` is always possible. `OpenRow`
to `NotReplaced` is `_roll_one`, `BackTag`/`CannotTag`/`BackUp` is
`_put_image_back`, `StartUndo` and `RecordUndo` are `undo_roll`. `ClearBlock`,
`StartClaim`/`EndClaim` and `StartRelease`/`EndRelease` do not ask for
`RUN_LOCK`, as in the code. `Lost` is a pass or an undo that threw or whose process
stopped. History: what a person last decided, which of these decisions a pass was
adopting over, which containers ended badly and were not looked at since, what
this pass brought up, and undos lost before their row.

**Abstractions.** In `LabSessions` templates are built, `destroy_on_complete` is on (its
default), the store answers. Whether an instance is up is not tracked: any
subset of the unclaimed instances may be the available ones. "Lowest" pool name
is by index, where the code compares strings. The limit of 2000 rows in
`claimedInstances` is left out. The idle clock is not tracked: any sweep may
find a session idle for too long. A lock's `Map` entry is never removed, as in
the code, whose clean-up compares with a promise made afresh (`sessions.ts:1687`)
and so never matches. `logEvent` and `recordAudit` failures are swallowed by the
code and left out. Scores are exact tenths of a percent instead of floats. Of
`runChecks`, errors other than the hypervisor's, the guest's and a session
error are left out. Session keys of peers are disjoint from the portal's own
(`in-app:` prefix), and a peer reports the percent of a grade made by the same
lab code. In `Attempts` each grading has an event of its own. The code derives the
event's id from the event, the attempt and `gradedAt` in milliseconds
(`webhook-rules.ts:183`), so two gradings of one attempt within one millisecond
would share a row, which the upsert leaves as the first one made it.

## Runs

| Run | Configuration | Shows |
| --- | --- | --- |
| `session_lock` | 3 callers, 2 sessions, restarts | `MutualExclusion`, `ServedInOrder` (refinement of `FifoLock`), `NobodyWaitsForever`: every call is served or lost with its process |
| `lab_overlap` | two web calls of any operation interleaved at every await, two sessions of one student, a pool of one machine, a crash | `OneBuilderPerProcess`, `ExclusiveMachine`, `ReadyHasMachine`, `OneResult`, `TerminalIsFinal` |
| `lab_pool` | sweep with refill of two pools of target 2 under a ceiling of 3, drains, starts and ends, interleaved | `PoolsWithinBounds`, `ReadyHasMachine` |
| `lab_progress` | start, check, complete, prewarming and the sweep, with a crash, under fairness | `TypeOK`, `LeavesBuilding`, `ExpiredIsRecycled` |
| `lab_submission` | two web calls and a CLI command on one session, drafts, a heartbeat, a peer, a crash | `UngradedNeverPasses`, `ResolvedIsDocumented`, `FiledIsStored`, `DraftIsKept`, `FiledOnce` |
| `lab_templates` | a container and a virtual machine, two builds in turn, one of them may be lost, a page, two moments | `TypeOK`, `CleanHoldsTheFault`, `ReadyCanBeCloned`, `PageIsRecent` |
| `attempts` | two requests at a time on two attempts, the expiry sweep, an edit of the checks, a consumer that refuses or is not heard, a delivery that ends before the consumer is asked, a stop of the server | `GradeIsOfItsWork`, `OneClock`, `DeliveriesTellTheTruth` |
| `evidence_chain` | three appends, two of them in one process and one in another, lost answers, stopped processes | `ChainVerifies`, `CacheNotAhead`, `ImplementsLog` |
| `enforcement` | two calls and the sweep on two actions, policies changed meanwhile, appends that throw, a plane that refuses, times out or is believed without having acted | `TypeOK`, `RateLimitHolds`, `PlaneMatchesRecord`, `EvidenceMatchesRecord`, `ImplementsLife`, `SafeListHolds` |
| `enforcement_expiry` | one action of the service desk, the sweep, a stop of the server, under fairness | `DeadlineIsKept` |
| `enforcement_answers` (a violation) | one action of the service desk, a plane whose answers are misread | `FailureIsRecorded` fails: an action is in force by its record and by the chain, and the plane never took it up |
| `rollout` | two containers of one host, two passes, an undo, claims, releases and clears, scans, a lost pass | `RecordMatchesContainer`, `RailsHold`, `DecisionsLast`, `HeldUntilLookedAt` |

Calls of the session manager overlap freely in all its runs, and a page kept open
may send a check of a session in any state. `lab_overlap` shows what the manager keeps
when the calls of one portal meet each other, over a pool of one machine that two
sessions of one student want: two starts that both found none, or a start beside a
session whose check has passed. `lab_pool` shows what it keeps when builds and ends
meet the sweep and the drains of a CLI process.

Several properties name an exception: calls that crossed, a call that was cut
short, a decision made in the middle of an adoption, an answer that was misread.
Each exception is a history variable, set by the step that brings the circumstance
about, and for the student, session, machine, attempt, action or container it
concerns only. Each stands for something the code does; these are listed
[below](#where-the-code-and-its-comments-part). A property says that nothing but
these spoils what it is about.

Every property of a passing run is paired in `PROJECT.json` with a mutant, a
definition changed the way a bug would change it, that violates it under the
same configuration. The mutated forms stand beside the definitions, marked
"A mutation".

## Bounds and fairness

* `MaxCalls` 2 or 3: two overlapping calls are what each interleaving hazard
  needs, the third makes the state they meet in (a session must be started
  before it is submitted twice). Sweeps are not counted.
* `InitialPool` is one machine in `lab_overlap`, which has no sweep to fill the pool
  that its builds meet in; the theorems allow any pool within its bounds.
* `MaxRows` 2: machines and claims are shared between pairs of sessions.
  `lab_progress` needs only one, since the sweep treats each row by itself. It has a
  pool of target 1 under a ceiling of 2, so that prewarming can take the pool over
  its target and the refill meets a pool that is too large.
* `PoolTarget` 2, `PoolCeiling` 3 in `lab_pool`: two pools that would reach
  four machines under a ceiling of three, so that the budget bites. `MaxIndex`
  3 gives each pool one name more than its target, so that a pool can go over.
* `MaxBuilds` 2 with one crash: a build meets what another left behind. `TTL` 1
  and `MaxClock` 1 give an answer that is cached, shown and expired. Operators
  build one at a time (`OneAtATime`), which the theorems on the snapshot assume too.
* `MaxClock` 1 or 2: the code compares instants with one threshold at a time; a
  tick is longer than any of them, and one tick after creation makes a session
  expired. Two let a deadline be extended.
* `MaxCrashes` 1: a crash loses every call in the process; what a second one
  adds is a state a first one from another place already reaches.
* `attempts`: `MaxAttempts` 1 so that a second start meets the cap, two calls at
  a time, five in all: start, submit, regrade, retry and one to cross them.
  `MaxEvents` 2 is a grade and a later one, `MaxRubric` 1 an edit after which
  nothing passes, so that a pass turns into a failure.
* `evidence_chain`: three rows are enough for one that is missing between two,
  and two processes for a kept head that falls behind.
* `enforcement`: `Hour` 2 and `MaxTime` 2 let two applications fall into one hour
  or into two; a ttl of 1 makes an action expire while calls are under way; no
  call of a person begins after `LastCall` 1. Three calls are a proposal, its
  approval and a lift, or two proposals and an approval. Stops are left to
  `enforcement_expiry`: for safety, a call cut short by an append that throws
  leaves what a stop leaves.
* `rollout`: `Cooldown` 1 with `MaxTime` 1 puts two rolls on either side of it;
  `MaxPerHost` 1 with two containers of one host and `MaxPerRun` 2 makes the
  tighter limit the host's. Three images are one that runs and two updates; the
  second pass meets what the first, lost or finished, left; one request of a
  person and one loss fall anywhere in them.
* `MaxDeliveries` 2 and `Writers` of three: two deliveries of one key are the
  race on the unique key.
* `SomeMachines`, `OneMachine`, `SomeWriteUps`: marks on both sides of the pass
  marks and of the rounding (59 of 74 points is 79.7%).
* Symmetry is used for students, calls, sessions, attempts, actions and
  containers of one host, which are only compared for equality, and in no run
  with a liveness property.

Deadlock is checked except in the runs whose calls come to an end by design
(all calls made, nothing left to sweep).

Fairness: `session_lock` assumes that work under the lock ends, since every
await in `provision` has a timeout. `lab_progress` assumes that each call
under way takes its next step (the hypervisor client and the guest transport
have deadlines), that the sweep is scheduled again and again (`ontrak reap` is
run from a timer), and that time passes. It does not assume that students do
anything, nor that the hypervisor ever succeeds. `enforcement_expiry` assumes that
time passes and that the sweep begins and goes on: the timer fires each minute,
its `running` flag is reset in a `finally`, database and plane answer or time
out, and a stopped server is started again. It assumes nothing of people, of the
plane's answer, or that an append succeeds; that a lift is saved before it is
appended is what makes the deadline hold.

## Proofs

All theorems hold for every value of the constants under the modules' `ASSUME`s:
any number of calls, sessions, peers and retries, any marks, weights and
pass marks.

* **Lock.** `LockInv`: every call in flight has a link of its own in its
  session's chain, waits for the gate of the link before it, and of two calls on
  one session the later one's predecessor is unresolved. Mutual exclusion alone
  is not inductive, since it says nothing about whose gate an entering call saw.
  `LineInv` adds that the open gates of a session are its first ones and that each
  later gate belongs to a call still in flight: the calls, ranked by their gates,
  then have no holes, a request goes to the end of the rank, and who leaves was
  its head. So `LockServesInOrder`: the chain implements `FifoLock`.
* **Session manager**, in layers. `StateInv`: a row, and every copy of one that a
  call or a listing carries, names a pool machine of its scenario or its own clone,
  and a drain has only pool machines in hand. It gives `SessionsTypeCorrect`.
  `OneBuilderIsKept` takes the mutual exclusion of `SessionLock`
  over, through an instance of its proofs: `LockHeld` says that a web call between
  provisioning and release is at work in the lock, on the session it provisions.
  `ReadInv` is what makes the other properties inductive: unless another call has
  overtaken what a call read (`overtaken`), its copy of the row is still the table's
  but for what it is about to write itself, each listed row is the table's, and the
  claims it read are the claims (`Lists`, `Holds`); a build has either its machine
  in the table or is the only one to know of it (`Shape`, `MachinesApart`); and
  results are at most as many as the row's mark accounts for (`Counted`). A step of
  one call keeps this for all others because whatever it changes enters their
  `overtaken`. So no save but an overtaken one forgets that a session was handed in
  (`OneResultIsKept`) or brings one back (`OverIsOver`), and no machine but a
  doubtful one is claimed twice (`MachinesAreExclusive`) or goes from under a ready
  session (`ReadySessionsHaveMachines`). Nothing is assumed of how calls overlap,
  crash or check. The exceptions cannot be dropped: two builds in the window between
  listing and save, or two submits before the mark, do what the properties exclude.
  `PoolsInv` counts what the refill still wants towards what there is: the sum is
  within the target and the ceiling when the refill has counted, each machine it
  makes moves one from the first to the second, and everybody else only takes away.
  It assumes `FillsAlone`: one process sweeps and nobody prewarms on demand; two
  that do exceed the ceiling. Other calls may overlap the sweep in any way.
* **Ledger.** `LedgerInv`: whoever inserted the attempt is the only one between
  insert and end, nothing was announced or sent before, and what is sent is what
  was filed. From it `LedgerKeepsItsPromise`: every step of `LabLedger` is a
  step of `Ledger` or a stutter; the announcement and the certificate are the
  two steps that need the invariant.
* **Scoring.** `BlendIsBetween`: the blended grade lies between the machine's
  mark and the write-up's, rounding included; so it is a mark again, and an
  unsubmitted write-up never helps. The key lemma is that rounding half to even
  of a value between two whole numbers stays between them.
* **Submission.** `SubmissionInv` strengthens the safety properties with what a
  call carries: its report is honest (an error means an unresolved zero), past
  `addResult` the report is in the table, a filing writer's score is backed by
  a stored report. `DocumentedInv` adds that a carried pass carries a clearing
  write-up. `FiledIsStored`, `UngradedNeverPasses`, `DraftIsKept` and
  `ResolvedIsDocumented` follow, and `SubmissionsAreFiledOnce` lifts the
  ledger's refinement to the whole.
* **Templates.** `FaultInv` adds to `CleanHoldsTheFault` that at most one build
  is under way, that a build whose setup was verified is between the stop and
  the snapshot with the fault still on the disk, and that only a virtual machine
  keeps writes back. `CleanHoldsTheFault` alone says nothing of the disk the
  next snapshot is taken of. It assumes `OneAtATime`, and so does `ReadyIsReady`.
  `AnswersInv` does not: the history is kept up to the present, so what a page
  reads was so no earlier than it asked, and the cache carries the time of the call
  that filled it; `AnswersAreRecent` adds that it answers for less than `TTL`.
* **Evidence.** `ChainInv`: the table is in order, and every chain a process
  keeps, or an append has in hand, is a beginning of it. `CacheNotAhead` and
  `ChainVerifies` are parts of it, `ChainIsALog` needs it for the one step that
  adds a row: what an append extends is the whole table, or its sequence number
  is taken. Nothing is assumed of how appends are spread over processes.
* **Attempts.** Three independent parts over the type invariant: `ClockInv`
  (an overlap apart, a start that has found no running attempt is the only start,
  and there is still none), which gives `OneClock`; `GradeIsOfItsWork`, inductive
  once the type invariant says what a request that is about to write or to grade
  has decided; `DeliveryInv` (an event belongs to one call until it is
  settled or given up, and only events minted have rows), which gives
  `DeliveriesTellTheTruth`.
* **Enforcement.** `TypeInv` says, with the types, what each call has in hand where
  it stands. `ApplyInv` - an action being proposed is nobody else's and has no row -
  is what `EnforcementImplementsLife` needs for the first step of a life; the others
  follow from the state the saved record was read in, and a save over a newer one
  makes the action crossed. `EvidenceInv` counts an entry that a call is about to
  append as told: each chapter is told at most once, and only of a record that got
  that far; what is missing was cut short. `PlaneInv` follows the request a save
  leads to: while a call has it in hand the plane may be behind, afterwards plane or
  wire is as the record says, unless the answer was misread. `ClockInv`, `CalmInv` and `RateInv` are the rails: a
  call whose reads nothing has overtaken knows of everything applied before it and
  judges by the stored policy; so what it applies fits into every hour that
  contains it, for hours later than now included.
* **Rollout.** `HeldInv`: what is owed a look has an uncleared bad row, a pass that
  is rolling has read it as blocked, and the roll in progress is of something
  else; `MatchInv` follows a roll from its pull to its record;
  `DecisionInv` says what an adoption in progress may still write over. The
  properties `HeldUntilLookedAt`, `RecordMatchesContainer` and `DecisionsLast`
  follow, for any containers, hosts, limits and numbers of passes. `RailsAreKept`
  rests on two more: `SpacingInv`, by which the moment a pass works from and the
  newest end it has read are behind the clock, so that what has cooled down by
  them has cooled down when the roll lands; and `HostsInv`, by which a pass has
  counted what it brought up and what it is at.

What these proofs assume of the constants are the `ASSUME`s of the modules, which
each run evaluates. Besides bounds that are numbers and values that stand for
nothing, they are: scenarios and actions are finite sets (a catalogue and a table),
one policy is the laxest (there are finitely many rows of history), a proposal has
a requester, web and CLI calls are apart, each container has a host.

Working the proofs out changed the models in three places. `RateLimitHolds` now
excepts actions that two callers crossed on: a refusal written late over an active
record takes the time of its application back, and a lift with the older copy puts
it there again, by when others have filled the hour; the instance of the run is too
small for it. `AfterDestroy` has alternatives that exclude each other, where a
`CASE` left open which of two applied. And the rank of the lock's queue is written
without a recursive sort.

The type invariants of `SessionLock`, `LabSubmission`, `EvidenceChain`, `Attempts`
and `Rollout`, and `LockInv`, are proved and are no properties of a run any more.

Every invariant, action property and refinement of the passing runs is stated by a
theorem. Only model-checked is liveness: `NobodyWaitsForever`, `LeavesBuilding`,
`ExpiredIsRecycled` and `DeadlineIsKept`. Their proofs need fairness and `ENABLED`,
which are beyond the prover. `CleanHoldsTheFault`, `ReadyCanBeCloned` and
`PoolsWithinBounds` are proved under the conditions named above and in their
theorems, which the configurations of their runs meet.

## Where the code and its comments part

Most of the properties above hold with an exception. The models reach these states
beside them, which comments in the code say do not occur. `PROJECT.json` lists them
among the hazards, and the misread answer of a plane as a finding with its run.

Lab:

* two sessions are given one pool machine when their claims overlap
  (`sessions.ts:1259`, `1756`);
* two overlapping submits store two results (`sessions.ts:1980`);
* a certificate is decided on the percent alone, also for a submission that the
  lab stored as unresolved because a critical objective was broken
  (`scoring.ts:28`; `lab-completion-record.ts:104`, `187`);
* a finished template is deleted by a build that was not forced, after a failed
  listing of its snapshots (`sessions.ts:808`, `incus.ts:506`);
* a check, from the CLI, of a destroyed session puts it back in use
  (`models.ts:66` lists no such transition);
* starting a scenario again after a check resolved builds a second machine
  (`sessions.ts:1540`, "will not burn a second VM");
* overlapping starts exceed `max_per_student`;
* the CLI builds beside the portal, whose lock it does not see
  (`sessions.ts:1694`);
* a reload during provisioning writes `allocating` over `ready`;
* a second end is accepted while the first destroys the machine
  (`sessions.ts:2193`);
* a reset is accepted after a submission (`sessions.ts:1963`);
* a drain destroys a machine claimed after its listing (`sessions.ts:2094`);
* the sweep recycles a grading run that began after its listing
  (`sessions.ts:2241`);
* two overlapping builds of one template delete, stop and snapshot each other's
  guest by its name, so that `clean` may lack the fault; `OneAtATime` excludes
  this;
* when a virtual machine does not stop in time it is stopped by force, or not at
  all, and the snapshot is taken all the same (`sessions.ts:981`, "The fault has
  to be on disk"): the content `cut` of the model;
* a scenario offered on two workloads is listed as unavailable when one of them
  cannot start (`sessions.ts:723`, "available when any of them can run"), and
  one that became startable between two probes is listed without a reason: the
  answers `blocked` and `blank`;
* a template built from the CLI leaves the cache of the portal as it is until it
  expires (`sessions.ts:764`), and a failed listing of snapshots is cached as a
  reason (`sessions.ts:755`);
* two prewarming processes exceed `pool.max_total`;
* a process lost between `completedAt` and the result, or while recycling,
  leaves a row nothing comes back for; one lost before filing leaves a result
  the family never hears of, and one lost between the insert of an attempt and
  its announcement leaves it unannounced.

Attempts and deliveries:

* overlapping starts give a student two clocks, and an attempt that has expired
  but was not swept is not counted against the cap;
* a late autosave, submit, regrade or abandon writes over a row that was graded
  since it was read; overlapping gradings can leave a live certificate over a
  failing score (`certificate-rules.ts:51`);
* a failure that is settled late overwrites `DELIVERED`, and the retry takes the
  oldest rows up to a limit, so that events which are always refused keep newer
  ones waiting;

* an announcement that fails before its row is made, or finds no consumer, leaves
  no row, so that no retry will send it; when it is the certificate that cannot be
  read, the student's submit fails after the grade is stored.

Sentinel:

* the client of the plane takes every 2xx for success whose body is not JSON that
  says `ok: false`, a proxy's page and an empty body included, where its comment
  says that such an answer is recorded as a failure (`enforcement-plane.ts:106`,
  `166`): the run `enforcement_answers`;
* a lift by hand that overlaps a sweep writes a second lift on the chain
  (`enforcement-service.ts:585`, `608`: never), and the plane may hear "apply"
  after "lift" when an approval and a lift cross;
* a second approval, or a refusal, that read PENDING writes its whole record over
  one that is ACTIVE or LIFTED;
* decisions that overlap go over the hourly limit;
* an append that throws after the save leaves the plane untold; nothing tries again;
* an action that was proposed while the policy's ttl was 0 has no expiry, and is
  judged as a permanent one when it is approved, although nobody asked for that;
* a kept head that fell behind - another process appended, or an answer was lost -
  makes every later append of that process fail until it is restarted.

Sync:

* a clear asks for no lock: given while a roll is under way it clears the row in
  advance, and the failure that follows does not hold the container
  (`db.py:1445`);
* the history a pass reads takes its block from the newest *bad* row of a
  container, unless that row was cleared, where the text above it speaks of the newest row
  (`db.py:1502`): a roll that landed after a bad one does not lift the block, and
  the model follows the query;
* an undo lost before its row leaves no trace and no hold (`applier.py:1411`);
* a release or claim that falls between an adoption's reads and its write is
  written over; a container released during a pass that had read the remit is
  still rolled by it;
* a roll whose image cannot be read afterwards is recorded as untouched although it
  replaced the container; and when a pull brings the image and nothing is
  replaced, the next scan closes the finding while the old container runs;
* the window is judged when a pass starts, not when it reaches a container.

## Not modelled

* The hardware of templates, the hypervisor and guest drivers (their answers and
  failures are), how a check script comes to its points, the text of write-ups,
  authoring tools.
* Of attempts: the record of timings and the passing of a grade to an LTI
  consumer. The announcement itself is modelled.
* Of Sentinel: detection, identity and agent; an expiry of one organization's
  actions on request, which only tests call.
* Of Sync: package updates (`_docker_recreate` belongs to them), approvals and
  waves, the schedule.
* Genie and Tix, but for what the plan below names; the portal and what is
  vendored.

The greater part of the repository is none of these: user interfaces, the
simulators' interpreters and Sentinel's and Genie's consoles (large sequential
functions of text), content, protocol adapters and vendored code. A model of
them would be a second program, with nothing in it that meets anything else. What
the models cover is a small share of the lines for that reason, and for the
products they cover it is the part where calls, processes and machines meet.
`PROJECT.json` gives the reason for each component.

## Plan

Done: the lock, the session manager, the submission, the ledger and the
templates of the lab; attempts and their deliveries; Sentinel's evidence chain
and enforcement; Sync's rollouts; and proofs of every safety property and
refinement of these.

Next, in this order:

1. `FileLocks` (Genie): the lock table, re-entry by a turn, `releaseLocks`, and the
   pending set of changes that is staged and applied under it.
2. `AlertPromotion` (Tix): one incident per alert across a crash between ticket
   and link; Tix's delivery sweep beside it.
3. The liveness of the session manager with more than one session, and how long a
   machine can stay doubtful: an `overtaken` reading ends with its call.
