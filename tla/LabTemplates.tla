---------------------------- MODULE LabTemplates ----------------------------
(***************************************************************************)
(* The templates of one scenario and what the portal says of them: the     *)
(* SessionManager's ensureTemplate and buildTemplates, which operators run *)
(* from the CLI, and unavailableScenarios with its cache, which the pages  *)
(* of the portal call.                                                     *)
(*                                                                         *)
(* A template is an instance of the hypervisor, found by its name, and is  *)
(* finished once it has the snapshot `clean`: every machine a student gets *)
(* is a clone of that snapshot, so it has to hold the scenario's fault.    *)
(* A build is a process of its own, takes tens of requests and minutes,    *)
(* and can be lost between any two of them.                                *)
(*                                                                         *)
(* incus.exists followed by incus.hasSnapshot is one reading here: an      *)
(* instance that does not exist has no snapshot, so the pair answers what  *)
(* the snapshot was at one of the two moments.  A request that fails is an *)
(* error for exists, and the answer FALSE for hasSnapshot, which reads the *)
(* failed listing as an empty one.  The hardware a template is given and   *)
(* the layer a reason names are left out.                                  *)
(***************************************************************************)
EXTENDS Integers, FiniteSets

CONSTANTS
    Builders,         \* processes running `ontrak template build`
    Pages,            \* pages of the portal being rendered at a time
    NumWorkloads,     \* the scenario is offered on the workloads 1..NumWorkloads
    VirtualMachines,  \* those whose guests are not containers
    OneAtATime,       \* whether operators wait for one build before the next
    TTL,              \* UNAVAILABLE_TTL_SECONDS, in ticks of the clock
    MaxClock,         \* bound on the clock
    MaxBuilds,        \* bound on the builds started
    MaxCrashes        \* bound on the builds lost

Workloads == 1..NumWorkloads

ASSUME TemplateConstants ==
    /\ {NumWorkloads, TTL} \subseteq Nat \ {0}
    /\ {MaxClock, MaxBuilds, MaxCrashes} \subseteq Nat
    /\ VirtualMachines \subseteq Workloads
    /\ OneAtATime \in BOOLEAN

VARIABLES
    vm,        \* vm[w]: the power state of the template's instance
    disk,      \* disk[w]: what the disk of that instance holds
    clean,     \* clean[w]: what its snapshot `clean` holds
    pool,      \* the workloads with a booted, unclaimed machine in the pool
    build,     \* build[b]: what builder b is doing
    builds, crashes,
    cache,     \* SessionManager.unavailableCache of the portal's process
    page,      \* page[p]: what page p is doing, or the answer it shows
    clock,
    seen       \* history: when each thing was last so

range  == <<vm, disk, clean>>
vars   == <<vm, disk, clean, pool, build, builds, crashes, cache, page, clock, seen>>

-----------------------------------------------------------------------------
(***************************************************************************)
(* Types                                                                   *)
(***************************************************************************)
\* "cut": the power went before the guest had flushed the fault, or a
\* snapshot was taken of it running; the disk may hold the fault or not.
Contents == {"bare", "unflushed", "faulted", "cut"}

BuildPcs == {"idle", "look", "image", "find", "stopold", "delete", "create",
             "start", "prepare", "stop", "force", "snapshot"}

Build == [pc : BuildPcs, w : Workloads, force : BOOLEAN,
          verified : BOOLEAN,          \* the setup script reported OK
          ready : SUBSET Workloads]    \* the results that say "ready" so far

\* The entry of the scenario in the map: none, one with no reason in it, or
\* one that blames a workload.
Answer == [kind : {"unlisted", "blank", "blocked"}, blames : Workloads \union {0}]
Unlisted   == [kind |-> "unlisted", blames |-> 0]
Blank      == [kind |-> "blank", blames |-> 0]
Blocked(w) == [kind |-> "blocked", blames |-> w]

\* doubt: a request behind the answer failed.
Cache == [at : 0..MaxClock, answer : Answer, doubt : BOOLEAN]
NoCache == [at |-> -1]

Page == [pc : {"idle", "templates", "pools", "probe", "probepool"},
         asked : 0..MaxClock, w : Workloads, startable : SUBSET Workloads,
         answer : Answer, doubt : BOOLEAN]

Seen == [up      : [Workloads -> -1..MaxClock],   \* when w could last start
         missing : [Workloads -> -1..MaxClock]]   \* when w last had no template

TypeOK ==
    /\ vm \in [Workloads -> {"absent", "stopped", "running"}]
    /\ disk \in [Workloads -> Contents]
    /\ clean \in [Workloads -> (Contents \ {"unflushed"}) \union {"none"}]
    /\ \A w \in Workloads : vm[w] = "absent" => clean[w] = "none" /\ disk[w] = "bare"
    /\ pool \subseteq Workloads
    /\ build \in [Builders -> Build]
    /\ builds \in 0..MaxBuilds /\ crashes \in 0..MaxCrashes
    /\ cache \in Cache \union {NoCache}
    /\ page \in [Pages -> Page]
    /\ clock \in 0..MaxClock
    /\ seen \in Seen

CanStart(w) == clean[w] # "none" \/ w \in pool

Init ==
    /\ vm    = [w \in Workloads |-> "absent"]
    /\ disk  = [w \in Workloads |-> "bare"]
    /\ clean = [w \in Workloads |-> "none"]
    /\ pool  = {}
    /\ build = [b \in Builders |-> [pc |-> "idle", w |-> 1, force |-> FALSE,
                                    verified |-> FALSE, ready |-> {}]]
    /\ builds = 0 /\ crashes = 0
    /\ cache = NoCache
    /\ page  = [p \in Pages |-> [pc |-> "idle", asked |-> 0, w |-> 1, startable |-> {},
                                 answer |-> Unlisted, doubt |-> TRUE]]
    /\ clock = 0
    /\ seen  = [up |-> [w \in Workloads |-> -1], missing |-> [w \in Workloads |-> 0]]

-----------------------------------------------------------------------------
(***************************************************************************)
(* Building a template                                                     *)
(***************************************************************************)
At(b, pc) == build[b].pc = pc
Go(b, pc) == build' = [build EXCEPT ![b].pc = pc]

\* What an abrupt loss of power leaves on a disk.
Unplugged(d) == IF d = "unflushed" THEN "cut" ELSE d

\* The fault as the setup script writes it: a container's writes land at once.
Written(w) == IF w \in VirtualMachines THEN "unflushed" ELSE "faulted"

\* A mutation: the loop over the workloads runs one too far.
ReportPast(b, ready) ==
    LET w == build[b].w
        last == w > NumWorkloads
    IN  build' = [build EXCEPT ![b] =
            [pc |-> IF last THEN "idle" ELSE "look",
             w  |-> IF last THEN 1 ELSE w + 1,
             force |-> build[b].force, verified |-> FALSE,
             ready |-> build[b].ready \union (IF ready THEN {w} ELSE {})]]

\* The result for the workload at hand is in; the next one is looked at.
Report(b, ready) ==
    LET w == build[b].w
        last == w >= NumWorkloads
    IN  build' = [build EXCEPT ![b] =
            [pc |-> IF last THEN "idle" ELSE "look",
             w  |-> IF last THEN 1 ELSE w + 1,
             force |-> build[b].force, verified |-> FALSE,
             ready |-> build[b].ready \union (IF ready THEN {w} ELSE {})]]

\* buildTemplates is called: `ontrak template build`, with or without --force.
StartBuild(b, force) ==
    /\ At(b, "idle") /\ builds < MaxBuilds
    /\ OneAtATime => \A d \in Builders : At(d, "idle")
    /\ builds' = builds + 1
    /\ build' = [build EXCEPT ![b] = [pc |-> "look", w |-> 1, force |-> force,
                                     verified |-> FALSE, ready |-> {}]]
    /\ UNCHANGED <<range, crashes>>

\* A mutation: an instance of that name will do.
ExistsAtAll(w) == vm[w] # "absent"

\* A finished template is left alone, unless the build is forced.
Finished(w) == clean[w] # "none"

LookForTemplate(b) ==
    /\ At(b, "look")
    /\ IF ~build[b].force /\ Finished(build[b].w) THEN Report(b, TRUE) ELSE Go(b, "image")
    /\ UNCHANGED <<range, builds, crashes>>

\* The instance is there and the listing of its snapshots fails.
SnapshotsUnread(b) ==
    /\ At(b, "look") /\ ~build[b].force /\ vm[build[b].w] # "absent"
    /\ Go(b, "image")
    /\ UNCHANGED <<range, builds, crashes>>

\* The base image is published; when it is not, RequestFails.
ImageFound(b) ==
    /\ At(b, "image") /\ Go(b, "find")
    /\ UNCHANGED <<range, builds, crashes>>

\* Whatever bears the template's name has to go first.
FindOld(b) ==
    /\ At(b, "find")
    /\ Go(b, IF vm[build[b].w] = "absent" THEN "create" ELSE "stopold")
    /\ UNCHANGED <<range, builds, crashes>>

PowerOff(w) ==
    /\ vm' = [vm EXCEPT ![w] = IF @ = "running" THEN "stopped" ELSE @]
    /\ disk' = [disk EXCEPT ![w] = IF vm[w] = "running" THEN Unplugged(@) ELSE @]
    /\ UNCHANGED clean

\* A stop by force is not an error when there is nothing to stop.
StopOld(b) ==
    /\ At(b, "stopold") /\ Go(b, "delete")
    /\ PowerOff(build[b].w)
    /\ UNCHANGED <<builds, crashes>>

\* The snapshots of an instance go with it.
DeleteOld(b) ==
    /\ At(b, "delete") /\ vm[build[b].w] # "absent"
    /\ vm'    = [vm EXCEPT ![build[b].w] = "absent"]
    /\ disk'  = [disk EXCEPT ![build[b].w] = "bare"]
    /\ clean' = [clean EXCEPT ![build[b].w] = "none"]
    /\ Go(b, "create")
    /\ UNCHANGED <<builds, crashes>>

\* The instance is made from the base image and given its hardware.
Create(b) ==
    /\ At(b, "create") /\ vm[build[b].w] = "absent"
    /\ vm' = [vm EXCEPT ![build[b].w] = "stopped"]
    /\ Go(b, "start")
    /\ UNCHANGED <<disk, clean, builds, crashes>>

StartGuest(b) ==
    /\ At(b, "start") /\ vm[build[b].w] = "stopped"
    /\ vm' = [vm EXCEPT ![build[b].w] = "running"]
    /\ Go(b, "prepare")
    /\ UNCHANGED <<disk, clean, builds, crashes>>

\* The guest answers, the setup script breaks it and reports OK, and the
\* console's transport goes in.
Prepare(b) ==
    /\ At(b, "prepare") /\ vm[build[b].w] = "running"
    /\ disk' = [disk EXCEPT ![build[b].w] = Written(build[b].w)]
    /\ build' = [build EXCEPT ![b].pc = "stop", ![b].verified = TRUE]
    /\ UNCHANGED <<vm, clean, builds, crashes>>

\* The guest is silent, or the script or the transport fails, with the fault
\* written or not; the finally clause stops the guest all the same.
PrepareFails(b) ==
    /\ At(b, "prepare") /\ Go(b, "stop")
    /\ \/ disk' = disk
       \/ /\ vm[build[b].w] = "running"
          /\ disk' = [disk EXCEPT ![build[b].w] = Written(build[b].w)]
    /\ UNCHANGED <<vm, clean, builds, crashes>>

\* A mutation: the snapshot is taken in the finally clause.
SnapshotAnyway(b) == Go(b, "snapshot")

\* Only a guest whose setup was verified is worth a snapshot.
AfterStop(b) == IF build[b].verified THEN Go(b, "snapshot") ELSE Report(b, FALSE)

\* stopGuestForgivingly: a guest that is asked to stop flushes what it wrote.
StopGracefully(b) ==
    /\ At(b, "stop") /\ vm[build[b].w] = "running"
    /\ vm' = [vm EXCEPT ![build[b].w] = "stopped"]
    /\ disk' = [disk EXCEPT ![build[b].w] = IF @ = "unflushed" THEN "faulted" ELSE @]
    /\ AfterStop(b)
    /\ UNCHANGED <<clean, builds, crashes>>

GracefulStopFails(b) ==
    /\ At(b, "stop") /\ Go(b, "force")
    /\ UNCHANGED <<range, builds, crashes>>

\* The failure of the second attempt is swallowed too.
StopByForce(b) ==
    /\ At(b, "force") /\ AfterStop(b)
    /\ PowerOff(build[b].w) \/ UNCHANGED range
    /\ UNCHANGED <<builds, crashes>>

\* The snapshot holds what is on the disk, whoever put it there.
Snapshot(b) ==
    /\ At(b, "snapshot")
    /\ vm[build[b].w] # "absent" /\ clean[build[b].w] = "none"
    /\ clean' = [clean EXCEPT ![build[b].w] = Unplugged(disk[build[b].w])]
    /\ Report(b, TRUE)
    /\ UNCHANGED <<vm, disk, builds, crashes>>

\* A request is refused or times out: buildTemplates reports it, and goes on.
RequestFails(b) ==
    /\ build[b].pc \in BuildPcs \ {"idle", "prepare", "stop", "force"}
    /\ Report(b, FALSE)
    /\ UNCHANGED <<range, builds, crashes>>

\* The process is lost, and leaves the instance as it is.
BuildLost(b) ==
    /\ ~At(b, "idle") /\ crashes < MaxCrashes
    /\ crashes' = crashes + 1
    /\ build' = [build EXCEPT ![b] =
          [pc |-> "idle", w |-> 1, force |-> build[b].force,
           verified |-> FALSE, ready |-> build[b].ready]]
    /\ UNCHANGED <<range, builds>>

BuildStep(b) ==
    /\ \/ \E force \in BOOLEAN : StartBuild(b, force)
       \/ LookForTemplate(b) \/ SnapshotsUnread(b) \/ ImageFound(b)
       \/ FindOld(b) \/ StopOld(b) \/ DeleteOld(b)
       \/ Create(b) \/ StartGuest(b) \/ Prepare(b) \/ PrepareFails(b)
       \/ StopGracefully(b) \/ GracefulStopFails(b) \/ StopByForce(b)
       \/ Snapshot(b) \/ RequestFails(b) \/ BuildLost(b)
    /\ UNCHANGED <<pool, cache, page, clock>>

-----------------------------------------------------------------------------
(***************************************************************************)
(* What the portal says of the scenario                                    *)
(***************************************************************************)
PageAt(p, pc) == page[p].pc = pc

\* A mutation: the TTL is one tick too long.
FreshTooLong == cache # NoCache /\ clock - cache.at <= TTL

\* The cache answers a call made less than TTL after the one that filled it.
Fresh == cache # NoCache /\ clock - cache.at < TTL

\* unavailableScenarios is called.
Ask(p) ==
    /\ PageAt(p, "idle")
    /\ page' = [page EXCEPT ![p] =
          [pc |-> IF Fresh THEN "idle" ELSE "templates", asked |-> clock,
           w |-> 1, startable |-> {},
           answer |-> IF Fresh THEN cache.answer ELSE Unlisted,
           doubt  |-> IF Fresh THEN cache.doubt ELSE FALSE]]
    /\ UNCHANGED cache

\* templateStatus: one row, ready when the template is finished.  The listing
\* of the snapshots may fail, and says nothing then.
Row(p, ready, doubt) ==
    LET w == page[p].w
    IN  page' = [page EXCEPT ![p] =
            [@ EXCEPT !.startable = page[p].startable \union (IF ready THEN {w} ELSE {}),
                      !.doubt = page[p].doubt \/ doubt,
                      !.pc = IF w < NumWorkloads THEN "templates" ELSE "pools",
                      !.w  = IF w < NumWorkloads THEN w + 1 ELSE w]]

ReadTemplate(p) ==
    /\ PageAt(p, "templates")
    /\ \/ Row(p, Finished(page[p].w), FALSE)
       \/ vm[page[p].w] # "absent" /\ Row(p, FALSE, TRUE)
    /\ UNCHANGED cache

\* The answer is computed; it is cached under the time of the call.
Conclude(p, answer, doubt) ==
    /\ page' = [page EXCEPT ![p] =
          [@ EXCEPT !.pc = "idle", !.w = 1, !.startable = {},
                    !.answer = answer, !.doubt = page[p].doubt \/ doubt]]
    /\ cache' = [at |-> page[p].asked, answer |-> answer, doubt |-> page[p].doubt \/ doubt]

\* poolStatus lists every instance at once.  The first workload that neither
\* list serves is probed again; its reason, or none, is the scenario's.
Least(W) == CHOOSE w \in W : \A v \in W : w <= v
ReadPools(p) ==
    /\ PageAt(p, "pools")
    /\ LET idle == Workloads \ (page[p].startable \union pool)
       IN  IF idle = {}
           THEN Conclude(p, Unlisted, FALSE)
           ELSE /\ page' = [page EXCEPT ![p].pc = "probe", ![p].w = Least(idle),
                                       ![p].startable = {}]
                /\ UNCHANGED cache

\* The call fails as a whole: nothing is listed and nothing cached.
StatusFails(p) ==
    /\ page[p].pc \in {"templates", "pools"}
    /\ page' = [page EXCEPT ![p] =
          [@ EXCEPT !.pc = "idle", !.w = 1, !.startable = {}, !.doubt = TRUE]]
    /\ UNCHANGED cache

\* scenarioAvailability: "" when the template is finished or a machine ready.
ProbeTemplate(p) ==
    /\ PageAt(p, "probe")
    /\ \/ Finished(page[p].w) /\ Conclude(p, Blank, FALSE)
       \/ /\ ~Finished(page[p].w)
          /\ page' = [page EXCEPT ![p].pc = "probepool"]
          /\ UNCHANGED cache
       \/ /\ vm[page[p].w] # "absent"
          /\ page' = [page EXCEPT ![p].pc = "probepool", ![p].doubt = TRUE]
          /\ UNCHANGED cache

ProbePool(p) ==
    /\ PageAt(p, "probepool")
    /\ Conclude(p, IF page[p].w \in pool THEN Blank ELSE Blocked(page[p].w), FALSE)

\* An unreachable hypervisor gives no reason.
ProbeFails(p) ==
    /\ page[p].pc \in {"probe", "probepool"}
    /\ Conclude(p, Blank, TRUE)

PageStep(p) ==
    /\ \/ Ask(p) \/ ReadTemplate(p) \/ ReadPools(p) \/ StatusFails(p)
       \/ ProbeTemplate(p) \/ ProbePool(p) \/ ProbeFails(p)
    /\ UNCHANGED <<range, pool, build, builds, crashes, clock>>

-----------------------------------------------------------------------------
(***************************************************************************)
(* The pool, the portal's process and the clock                            *)
(***************************************************************************)
\* A machine is cloned from a finished template and boots in the pool.
Prewarm(w) ==
    /\ Finished(w) /\ pool' = pool \union {w}
    /\ UNCHANGED <<range, build, builds, crashes, cache, page, clock>>

\* The last one is claimed, or drained.
PoolEmptied(w) ==
    /\ w \in pool /\ pool' = pool \ {w}
    /\ UNCHANGED <<range, build, builds, crashes, cache, page, clock>>

\* forgetUnavailable, as a prewarm in the portal's own process ends with it.
ForgetUnavailable ==
    /\ cache # NoCache /\ cache' = NoCache
    /\ UNCHANGED <<range, pool, build, builds, crashes, page, clock>>

Tick ==
    /\ clock < MaxClock /\ clock' = clock + 1
    /\ UNCHANGED <<range, pool, build, builds, crashes, cache, page>>

\* The history: what holds after the step, at the time it happens.
Observe ==
    seen' = [up      |-> [w \in Workloads |->
                            IF CanStart(w)' THEN clock' ELSE seen.up[w]],
             missing |-> [w \in Workloads |->
                            IF Finished(w)' THEN seen.missing[w] ELSE clock']]

Next ==
    /\ \/ \E b \in Builders : BuildStep(b)
       \/ \E p \in Pages : PageStep(p)
       \/ \E w \in Workloads : Prewarm(w) \/ PoolEmptied(w)
       \/ ForgetUnavailable \/ Tick
    /\ Observe

Spec == Init /\ [][Next]_vars

-----------------------------------------------------------------------------
(***************************************************************************)
(* Properties                                                              *)
(***************************************************************************)
\* The snapshot machines are cloned from is never that of a guest the fault
\* never went into, whatever failed builds, lost processes, forced rebuilds
\* and failing stops came before, as long as operators build one template
\* at a time.  A container's always holds it; a virtual machine's may have
\* lost it to a stop by force, which ensureTemplate does not tell apart.
CleanHoldsTheFault ==
    \A w \in Workloads :
        /\ clean[w] # "bare"
        /\ clean[w] = "cut" => w \in VirtualMachines

\* buildTemplates says "ready" of a workload only when a machine can be
\* cloned from its template at that moment: never because of what a build
\* that failed or was lost halfway left behind.
ReadyCanBeCloned ==
    [][\A b \in Builders : \A w \in build'[b].ready \ build[b].ready :
          clean'[w] \in {"faulted", "cut"}]_vars

\* A page that blames a workload's template is never out of date by as much
\* as the cache's TTL: the template was missing less than that before the
\* page asked, or since.  It rests on the cache being stamped with the start
\* of the call that fills it, and not its end.
BlameIsRecent(p) ==
    page[p].answer.kind = "blocked"
        => seen.missing[page[p].answer.blames] > page[p].asked - TTL

\* Nor is a page that does not list the scenario: each of its workloads could
\* start less than TTL before the page asked, or since, unless a request
\* behind the answer failed.
SilenceIsRecent(p) ==
    page[p].answer = Unlisted
        => \A w \in Workloads : seen.up[w] > page[p].asked - TTL

\* Both, of every answer a page was given.
PageIsRecent ==
    \A p \in Pages :
        PageAt(p, "idle") /\ ~page[p].doubt => BlameIsRecent(p) /\ SilenceIsRecent(p)

=============================================================================
