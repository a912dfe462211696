------------------------ MODULE LabTemplates_proofs ------------------------
(***************************************************************************)
(* What holds of the templates and of what the portal says of them, for    *)
(* any number of workloads, builders, builds, losses and pages: types; how *)
(* recent an answer is; and, when operators build one template at a time,  *)
(* that the snapshot `clean` holds the scenario's fault and that what is   *)
(* reported ready can be cloned.                                           *)
(***************************************************************************)
EXTENDS LabTemplates, TLAPS, WellFoundedInduction

\* The part of the type that the builds depend on.
RangeTypeOK ==
    /\ vm \in [Workloads -> {"absent", "stopped", "running"}]
    /\ disk \in [Workloads -> Contents]
    /\ clean \in [Workloads -> (Contents \ {"unflushed"}) \union {"none"}]
    /\ build \in [Builders -> Build]

\* Operators wait for one another.
OneBuild == \A b, d \in Builders : ~At(b, "idle") /\ ~At(d, "idle") => b = d

\* A build that has verified its setup is about to stop the guest or to take
\* the snapshot, and the fault is still in the guest; and nothing but a
\* verified build takes a snapshot.
VerifiedHoldsTheFault ==
    \A b \in Builders :
        /\ build[b].verified => /\ build[b].pc \in {"stop", "force", "snapshot"}
                                /\ disk[build[b].w] # "bare"
        /\ At(b, "snapshot") => build[b].verified

\* Only a virtual machine keeps writes back.
OnlyVirtualMachinesBuffer ==
    \A w \in Workloads : disk[w] \in {"unflushed", "cut"} => w \in VirtualMachines

FaultInv ==
    /\ RangeTypeOK
    /\ OneBuild
    /\ VerifiedHoldsTheFault
    /\ OnlyVirtualMachinesBuffer
    /\ CleanHoldsTheFault

-----------------------------------------------------------------------------
\* buildTemplates: whatever the result, the loop goes on to a workload there
\* is, or ends, and no verification is carried over.
LEMMA ReportGoesOn ==
    ASSUME NEW b \in Builders, NEW ready \in BOOLEAN,
           build \in [Builders -> Build], Report(b, ready)
    PROVE  /\ build' \in [Builders -> Build]
           /\ ~build'[b].verified
           /\ build'[b].pc \in {"look", "idle"}
           /\ \A d \in Builders \ {b} : build'[d] = build[d]
<1>1. build[b].w \in Workloads /\ build[b].force \in BOOLEAN
      /\ build[b].ready \in SUBSET Workloads /\ NumWorkloads \in Nat \ {0}
  BY TemplateConstants DEF Build
<1> DEFINE last == build[b].w >= NumWorkloads
           next == [pc |-> IF last THEN "idle" ELSE "look",
                    w  |-> IF last THEN 1 ELSE build[b].w + 1,
                    force |-> build[b].force, verified |-> FALSE,
                    ready |-> build[b].ready \union (IF ready THEN {build[b].w} ELSE {})]
<1>2. (IF last THEN 1 ELSE build[b].w + 1) \in Workloads
  BY <1>1 DEF Workloads
<1>3. (build[b].ready \union (IF ready THEN {build[b].w} ELSE {})) \in SUBSET Workloads
  BY <1>1
<1>4. next \in Build /\ next.verified = FALSE /\ next.pc \in {"look", "idle"}
  BY <1>1, <1>2, <1>3 DEF Build, BuildPcs
<1>5. build' = [build EXCEPT ![b] = next]
  BY DEF Report
<1> HIDE DEF next
<1>. QED  BY <1>4, <1>5

\* A builder that only moves on keeps its workload and its verification.
LEMMA GoMovesOn ==
    ASSUME NEW b \in Builders, NEW pc \in BuildPcs,
           build \in [Builders -> Build], Go(b, pc)
    PROVE  /\ build' \in [Builders -> Build]
           /\ build'[b].pc = pc /\ build'[b].w = build[b].w
           /\ build'[b].verified = build[b].verified
           /\ \A d \in Builders \ {b} : build'[d] = build[d]
  BY DEF Go, Build

-----------------------------------------------------------------------------
\* While one build is under way, every other builder rests.
LEMMA OthersRest ==
    ASSUME FaultInv, NEW b \in Builders, ~At(b, "idle")
    PROVE  \A d \in Builders \ {b} : At(d, "idle") /\ ~build[d].verified
  BY DEF FaultInv, OneBuild, VerifiedHoldsTheFault, At

\* So a step of that build preserves the two parts about builders when it
\* leaves its own builder in order.
LEMMA BuildersInOrder ==
    ASSUME FaultInv, NEW b \in Builders, ~At(b, "idle"),
           build' \in [Builders -> Build],
           \A d \in Builders \ {b} : build'[d] = build[d],
           build'[b].verified => /\ build'[b].pc \in {"stop", "force", "snapshot"}
                                 /\ disk'[build'[b].w] # "bare",
           build'[b].pc = "snapshot" => build'[b].verified
    PROVE  OneBuild' /\ VerifiedHoldsTheFault'
<1>1. \A d \in Builders \ {b} : build'[d].pc = "idle" /\ ~build'[d].verified
  BY OthersRest DEF At
<1>. QED  BY <1>1 DEF OneBuild, VerifiedHoldsTheFault, At

\* A loss of power leaves no disk without the fault that had it.
LEMMA PowerOffKeepsTheFault ==
    ASSUME FaultInv, NEW w \in Workloads, PowerOff(w)
    PROVE  /\ vm' \in [Workloads -> {"absent", "stopped", "running"}]
           /\ disk' \in [Workloads -> Contents]
           /\ OnlyVirtualMachinesBuffer'
           /\ \A u \in Workloads : disk[u] # "bare" => disk'[u] # "bare"
           /\ clean' = clean
  BY DEF FaultInv, RangeTypeOK, OnlyVirtualMachinesBuffer, PowerOff, Unplugged, Contents

-----------------------------------------------------------------------------
LEMMA FaultInit == Init => FaultInv
<1>. SUFFICES ASSUME Init PROVE FaultInv
  OBVIOUS
<1>1. 1 \in Workloads
  BY TemplateConstants DEF Workloads
<1>2. RangeTypeOK
  BY <1>1 DEF Init, RangeTypeOK, Contents, Build, BuildPcs
<1>3. OneBuild /\ VerifiedHoldsTheFault
  BY DEF Init, OneBuild, VerifiedHoldsTheFault, At
<1>4. OnlyVirtualMachinesBuffer /\ CleanHoldsTheFault
  BY DEF Init, OnlyVirtualMachinesBuffer, CleanHoldsTheFault
<1>. QED  BY <1>2, <1>3, <1>4 DEF FaultInv

\* Every step of a build preserves the invariant.
LEMMA BuildStepKeepsFaultInv ==
    ASSUME OneAtATime, FaultInv, NEW b \in Builders, BuildStep(b)
    PROVE  FaultInv'
<1> DEFINE w == build[b].w
<1>w. w \in Workloads
  BY DEF FaultInv, RangeTypeOK, Build
<1> HIDE DEF w
<1>t. RangeTypeOK /\ build \in [Builders -> Build]
  BY DEF FaultInv, RangeTypeOK
<1>s. OnlyVirtualMachinesBuffer /\ CleanHoldsTheFault
  BY DEF FaultInv
<1>v. build[b].verified => /\ build[b].pc \in {"stop", "force", "snapshot"}
                          /\ disk[w] # "bare"
  BY DEF FaultInv, VerifiedHoldsTheFault, w
<1>n. At(b, "snapshot") => build[b].verified
  BY DEF FaultInv, VerifiedHoldsTheFault
\* Steps that leave the range alone and do not end in a snapshot.
<1>q. ASSUME UNCHANGED range, ~At(b, "idle"), ~build[b].verified,
             \/ Report(b, TRUE) \/ Report(b, FALSE)
             \/ \E pc \in {"image", "find", "create", "stopold", "delete", "stop", "force"} : Go(b, pc)
      PROVE  FaultInv'
  <2>1. /\ build' \in [Builders -> Build]
        /\ ~build'[b].verified /\ build'[b].pc # "snapshot"
        /\ \A d \in Builders \ {b} : build'[d] = build[d]
    BY <1>q, <1>t, ReportGoesOn, GoMovesOn DEF BuildPcs
  <2>2. OneBuild' /\ VerifiedHoldsTheFault'
    BY <1>q, <2>1, BuildersInOrder
  <2>3. RangeTypeOK' /\ OnlyVirtualMachinesBuffer' /\ CleanHoldsTheFault'
    BY <1>q, <1>t, <1>s, <2>1
       DEF RangeTypeOK, OnlyVirtualMachinesBuffer, CleanHoldsTheFault, range
  <2>. QED  BY <2>2, <2>3 DEF FaultInv
<1>1. CASE \E force \in BOOLEAN : StartBuild(b, force)
  <2>1. PICK force \in BOOLEAN : StartBuild(b, force)
    BY <1>1
  <2>2. 1 \in Workloads
    BY TemplateConstants DEF Workloads
  <2>3. /\ build' \in [Builders -> Build]
        /\ ~build'[b].verified /\ build'[b].pc = "look"
        /\ \A d \in Builders \ {b} : build'[d] = build[d]
    BY <1>t, <2>1, <2>2 DEF StartBuild, Build, BuildPcs
  <2>4. OneBuild'
    BY <2>1, <2>3 DEF StartBuild, OneBuild, At
  <2>5. VerifiedHoldsTheFault'
    BY <2>1, <2>3 DEF StartBuild, FaultInv, VerifiedHoldsTheFault, At, range
  <2>6. RangeTypeOK' /\ OnlyVirtualMachinesBuffer' /\ CleanHoldsTheFault'
    BY <1>t, <1>s, <2>1, <2>3
       DEF StartBuild, RangeTypeOK, OnlyVirtualMachinesBuffer, CleanHoldsTheFault, range
  <2>. QED  BY <2>4, <2>5, <2>6 DEF FaultInv
<1>2. CASE LookForTemplate(b)
  BY <1>2, <1>q, <1>v DEF LookForTemplate, At
<1>3. CASE SnapshotsUnread(b)
  BY <1>3, <1>q, <1>v DEF SnapshotsUnread, At
<1>4. CASE ImageFound(b)
  BY <1>4, <1>q, <1>v DEF ImageFound, At
<1>5. CASE FindOld(b)
  BY <1>5, <1>q, <1>v DEF FindOld, At
<1>6. CASE RequestFails(b)
  <2>2. UNCHANGED range /\ ~At(b, "idle") /\ Report(b, FALSE)
    BY <1>6 DEF RequestFails, At
  <2>3. /\ build' \in [Builders -> Build]
        /\ ~build'[b].verified /\ build'[b].pc # "snapshot"
        /\ \A d \in Builders \ {b} : build'[d] = build[d]
    BY <1>t, <2>2, ReportGoesOn
  <2>4. OneBuild' /\ VerifiedHoldsTheFault'
    BY <2>2, <2>3, BuildersInOrder
  <2>5. RangeTypeOK' /\ OnlyVirtualMachinesBuffer' /\ CleanHoldsTheFault'
    BY <1>t, <1>s, <2>2, <2>3
       DEF RangeTypeOK, OnlyVirtualMachinesBuffer, CleanHoldsTheFault, range
  <2>. QED  BY <2>4, <2>5 DEF FaultInv
<1>7. CASE StopOld(b)
  <2>1. PowerOff(w) /\ Go(b, "delete") /\ At(b, "stopold") /\ ~build[b].verified
    BY <1>7, <1>v DEF StopOld, At, w
  <2>2. /\ build' \in [Builders -> Build]
        /\ ~build'[b].verified /\ build'[b].pc # "snapshot"
        /\ \A d \in Builders \ {b} : build'[d] = build[d]
    BY <1>t, <2>1, GoMovesOn DEF BuildPcs
  <2>3. OneBuild' /\ VerifiedHoldsTheFault'
    BY <2>1, <2>2, BuildersInOrder DEF At
  <2>4. RangeTypeOK' /\ OnlyVirtualMachinesBuffer' /\ CleanHoldsTheFault'
    BY <1>w, <1>t, <1>s, <2>1, <2>2, PowerOffKeepsTheFault DEF RangeTypeOK, CleanHoldsTheFault
  <2>. QED  BY <2>3, <2>4 DEF FaultInv
<1>8. CASE DeleteOld(b)
  <2>1. Go(b, "create") /\ At(b, "delete") /\ ~build[b].verified
    BY <1>8, <1>v DEF DeleteOld, At
  <2>2. /\ build' \in [Builders -> Build]
        /\ ~build'[b].verified /\ build'[b].pc # "snapshot"
        /\ \A d \in Builders \ {b} : build'[d] = build[d]
    BY <1>t, <2>1, GoMovesOn DEF BuildPcs
  <2>3. OneBuild' /\ VerifiedHoldsTheFault'
    BY <2>1, <2>2, BuildersInOrder DEF At
  <2>4. RangeTypeOK' /\ OnlyVirtualMachinesBuffer' /\ CleanHoldsTheFault'
    BY <1>8, <1>w, <1>t, <1>s, <2>2
       DEF DeleteOld, w, RangeTypeOK, Contents, OnlyVirtualMachinesBuffer, CleanHoldsTheFault
  <2>. QED  BY <2>3, <2>4 DEF FaultInv
<1>9. CASE Create(b)
  <2>1. Go(b, "start") /\ At(b, "create") /\ ~build[b].verified
    BY <1>9, <1>v DEF Create, At
  <2>2. /\ build' \in [Builders -> Build]
        /\ ~build'[b].verified /\ build'[b].pc # "snapshot"
        /\ \A d \in Builders \ {b} : build'[d] = build[d]
    BY <1>t, <2>1, GoMovesOn DEF BuildPcs
  <2>3. OneBuild' /\ VerifiedHoldsTheFault'
    BY <2>1, <2>2, BuildersInOrder DEF At
  <2>4. RangeTypeOK' /\ OnlyVirtualMachinesBuffer' /\ CleanHoldsTheFault'
    BY <1>9, <1>w, <1>t, <1>s, <2>2
       DEF Create, w, RangeTypeOK, Contents, OnlyVirtualMachinesBuffer, CleanHoldsTheFault
  <2>. QED  BY <2>3, <2>4 DEF FaultInv
<1>10. CASE StartGuest(b)
  <2>1. Go(b, "prepare") /\ At(b, "start") /\ ~build[b].verified
    BY <1>10, <1>v DEF StartGuest, At
  <2>2. /\ build' \in [Builders -> Build]
        /\ ~build'[b].verified /\ build'[b].pc # "snapshot"
        /\ \A d \in Builders \ {b} : build'[d] = build[d]
    BY <1>t, <2>1, GoMovesOn DEF BuildPcs
  <2>3. OneBuild' /\ VerifiedHoldsTheFault'
    BY <2>1, <2>2, BuildersInOrder DEF At
  <2>4. RangeTypeOK' /\ OnlyVirtualMachinesBuffer' /\ CleanHoldsTheFault'
    BY <1>10, <1>w, <1>t, <1>s, <2>2
       DEF StartGuest, w, RangeTypeOK, Contents, OnlyVirtualMachinesBuffer, CleanHoldsTheFault
  <2>. QED  BY <2>3, <2>4 DEF FaultInv
<1>11. CASE Prepare(b)
  <2>1. /\ At(b, "prepare")
        /\ disk' = [disk EXCEPT ![w] = Written(w)]
        /\ build' = [build EXCEPT ![b].pc = "stop", ![b].verified = TRUE]
        /\ UNCHANGED <<vm, clean>>
    BY <1>11 DEF Prepare, w
  <2>2. /\ build' \in [Builders -> Build]
        /\ build'[b].pc = "stop" /\ build'[b].w = w
        /\ \A d \in Builders \ {b} : build'[d] = build[d]
    BY <1>t, <2>1 DEF Build, BuildPcs, w
  <2>3. disk' \in [Workloads -> Contents] /\ disk'[w] # "bare" /\ OnlyVirtualMachinesBuffer'
    BY <1>w, <1>t, <1>s, <2>1 DEF RangeTypeOK, Written, Contents, OnlyVirtualMachinesBuffer
  <2>4. OneBuild' /\ VerifiedHoldsTheFault'
    BY <2>1, <2>2, <2>3, BuildersInOrder DEF At
  <2>5. RangeTypeOK' /\ CleanHoldsTheFault'
    BY <1>t, <1>s, <2>1, <2>2, <2>3 DEF RangeTypeOK, CleanHoldsTheFault
  <2>. QED  BY <2>3, <2>4, <2>5 DEF FaultInv
<1>12. CASE PrepareFails(b)
  <2>1. Go(b, "stop") /\ At(b, "prepare") /\ ~build[b].verified
    BY <1>12, <1>v DEF PrepareFails, At
  <2>2. /\ build' \in [Builders -> Build]
        /\ ~build'[b].verified /\ build'[b].pc # "snapshot"
        /\ \A d \in Builders \ {b} : build'[d] = build[d]
    BY <1>t, <2>1, GoMovesOn DEF BuildPcs
  <2>3. OneBuild' /\ VerifiedHoldsTheFault'
    BY <2>1, <2>2, BuildersInOrder DEF At
  <2>4. RangeTypeOK' /\ OnlyVirtualMachinesBuffer' /\ CleanHoldsTheFault'
    BY <1>12, <1>w, <1>t, <1>s, <2>2
       DEF PrepareFails, w, RangeTypeOK, Contents, OnlyVirtualMachinesBuffer, CleanHoldsTheFault, Written
  <2>. QED  BY <2>3, <2>4 DEF FaultInv
\* Steps that stop the guest and then go where the verification says.
<1>r. ASSUME ~At(b, "idle"), At(b, "stop") \/ At(b, "force"), AfterStop(b),
             vm' \in [Workloads -> {"absent", "stopped", "running"}],
             disk' \in [Workloads -> Contents],
             OnlyVirtualMachinesBuffer',
             \A u \in Workloads : disk[u] # "bare" => disk'[u] # "bare",
             UNCHANGED clean
      PROVE  FaultInv'
  <2>1. /\ build' \in [Builders -> Build]
        /\ \A d \in Builders \ {b} : build'[d] = build[d]
        /\ build'[b].verified => build'[b].pc = "snapshot" /\ disk'[build'[b].w] # "bare"
        /\ build'[b].pc = "snapshot" => build'[b].verified
    <3>1. CASE build[b].verified
      <4>1. Go(b, "snapshot") /\ disk'[w] # "bare"
        BY <1>r, <1>v, <1>w, <3>1 DEF AfterStop
      <4>. QED  BY <1>t, <3>1, <4>1, GoMovesOn DEF BuildPcs, w
    <3>2. CASE ~build[b].verified
      BY <1>r, <1>t, <3>2, ReportGoesOn DEF AfterStop
    <3>. QED  BY <3>1, <3>2
  <2>2. OneBuild' /\ VerifiedHoldsTheFault'
    BY <1>r, <2>1, BuildersInOrder
  <2>3. RangeTypeOK' /\ CleanHoldsTheFault'
    BY <1>r, <1>t, <1>s, <2>1 DEF RangeTypeOK, CleanHoldsTheFault
  <2>. QED  BY <1>r, <2>2, <2>3 DEF FaultInv
<1>13. CASE StopGracefully(b)
  <2>1. At(b, "stop") /\ AfterStop(b) /\ UNCHANGED clean
    BY <1>13 DEF StopGracefully
  <2>2. /\ vm' = [vm EXCEPT ![w] = "stopped"]
        /\ disk' = [disk EXCEPT ![w] = IF @ = "unflushed" THEN "faulted" ELSE @]
    BY <1>13 DEF StopGracefully, w
  <2>3. /\ vm' \in [Workloads -> {"absent", "stopped", "running"}]
        /\ disk' \in [Workloads -> Contents]
        /\ OnlyVirtualMachinesBuffer'
        /\ \A u \in Workloads : disk[u] # "bare" => disk'[u] # "bare"
    BY <1>w, <1>t, <1>s, <2>2 DEF RangeTypeOK, Contents, OnlyVirtualMachinesBuffer
  <2>. QED  BY <1>r, <2>1, <2>3 DEF At
<1>14. CASE GracefulStopFails(b)
  <2>1. At(b, "stop") /\ Go(b, "force") /\ UNCHANGED range
    BY <1>14 DEF GracefulStopFails
  <2>2. /\ build' \in [Builders -> Build]
        /\ build'[b].pc = "force" /\ build'[b].w = w
        /\ build'[b].verified = build[b].verified
        /\ \A d \in Builders \ {b} : build'[d] = build[d]
    BY <1>t, <2>1, GoMovesOn DEF BuildPcs, w
  <2>3. OneBuild' /\ VerifiedHoldsTheFault'
    BY <1>v, <2>1, <2>2, BuildersInOrder DEF At, range
  <2>4. RangeTypeOK' /\ OnlyVirtualMachinesBuffer' /\ CleanHoldsTheFault'
    BY <1>t, <1>s, <2>1, <2>2
       DEF RangeTypeOK, OnlyVirtualMachinesBuffer, CleanHoldsTheFault, range
  <2>. QED  BY <2>3, <2>4 DEF FaultInv
<1>15. CASE StopByForce(b)
  <2>1. At(b, "force") /\ AfterStop(b)
    BY <1>15 DEF StopByForce
  <2>2. CASE PowerOff(w)
    BY <1>r, <1>w, <2>1, <2>2, PowerOffKeepsTheFault DEF At
  <2>3. CASE UNCHANGED range
    BY <1>r, <1>t, <1>s, <2>1, <2>3 DEF At, range, RangeTypeOK, OnlyVirtualMachinesBuffer
  <2>. QED  BY <1>15, <2>2, <2>3 DEF StopByForce, w
<1>16. CASE Snapshot(b)
  <2>1. /\ At(b, "snapshot") /\ Report(b, TRUE) /\ UNCHANGED <<vm, disk>>
        /\ clean' = [clean EXCEPT ![w] = Unplugged(disk[w])]
    BY <1>16 DEF Snapshot, w
  <2>2. /\ build' \in [Builders -> Build]
        /\ ~build'[b].verified /\ build'[b].pc # "snapshot"
        /\ \A d \in Builders \ {b} : build'[d] = build[d]
    BY <1>t, <2>1, ReportGoesOn
  <2>3. OneBuild' /\ VerifiedHoldsTheFault'
    BY <2>1, <2>2, BuildersInOrder DEF At
  <2>4. disk[w] \in Contents /\ disk[w] # "bare"
    BY <1>w, <1>t, <1>v, <1>n, <2>1 DEF RangeTypeOK
  <2>5. /\ Unplugged(disk[w]) \in {"faulted", "cut"}
        /\ Unplugged(disk[w]) = "cut" => w \in VirtualMachines
    BY <1>w, <1>s, <2>4 DEF Unplugged, Contents, OnlyVirtualMachinesBuffer
  <2>6. CleanHoldsTheFault'
    BY <1>w, <1>t, <1>s, <2>1, <2>5 DEF CleanHoldsTheFault, RangeTypeOK
  <2>7. RangeTypeOK' /\ OnlyVirtualMachinesBuffer'
    BY <1>w, <1>t, <1>s, <2>1, <2>2, <2>5
       DEF RangeTypeOK, Contents, OnlyVirtualMachinesBuffer
  <2>. QED  BY <2>3, <2>6, <2>7 DEF FaultInv
<1>17. CASE BuildLost(b)
  <2> DEFINE rest == [pc |-> "idle", w |-> 1, force |-> build[b].force,
                      verified |-> FALSE, ready |-> build[b].ready]
  <2>1. /\ ~At(b, "idle") /\ UNCHANGED range
        /\ build' = [build EXCEPT ![b] = rest]
    BY <1>17 DEF BuildLost
  <2>2. 1 \in Workloads
    BY TemplateConstants DEF Workloads
  <2>3. /\ build' \in [Builders -> Build]
        /\ ~build'[b].verified /\ build'[b].pc = "idle"
        /\ \A d \in Builders \ {b} : build'[d] = build[d]
    <3>1. build[b].force \in BOOLEAN /\ build[b].ready \in SUBSET Workloads
      BY <1>t DEF Build
    <3>2. rest \in Build /\ ~rest.verified /\ rest.pc = "idle"
      BY <2>2, <3>1 DEF Build, BuildPcs
    <3> HIDE DEF rest
    <3>. QED  BY <1>t, <2>1, <3>2
  <2>4. OneBuild' /\ VerifiedHoldsTheFault'
    BY <2>1, <2>3, BuildersInOrder
  <2>5. RangeTypeOK' /\ OnlyVirtualMachinesBuffer' /\ CleanHoldsTheFault'
    BY <1>t, <1>s, <2>1, <2>3
       DEF RangeTypeOK, OnlyVirtualMachinesBuffer, CleanHoldsTheFault, range
  <2>. QED  BY <2>4, <2>5 DEF FaultInv
<1>. QED  BY <1>1, <1>2, <1>3, <1>4, <1>5, <1>6, <1>7, <1>8, <1>9, <1>10, <1>11, <1>12, <1>13, <1>14, <1>15, <1>16, <1>17 DEF BuildStep

\* Nothing else touches a template: what the pages and the pool do leaves
\* the instances and the builders as they are.
LEMMA OthersKeepFaultInv ==
    ASSUME FaultInv, UNCHANGED <<vm, disk, clean, build>>
    PROVE  FaultInv'
  BY DEF FaultInv, RangeTypeOK, OneBuild, VerifiedHoldsTheFault,
         OnlyVirtualMachinesBuffer, CleanHoldsTheFault, At

LEMMA FaultStep == ASSUME OneAtATime, FaultInv, [Next]_vars PROVE FaultInv'
<1>1. CASE \E b \in Builders : BuildStep(b)
  BY <1>1, BuildStepKeepsFaultInv
<1>2. CASE \E p \in Pages : PageStep(p)
  BY <1>2, OthersKeepFaultInv DEF PageStep, range
<1>3. CASE \E w \in Workloads : Prewarm(w) \/ PoolEmptied(w)
  BY <1>3, OthersKeepFaultInv DEF Prewarm, PoolEmptied, range
<1>4. CASE ForgetUnavailable \/ Tick
  BY <1>4, OthersKeepFaultInv DEF ForgetUnavailable, Tick, range
<1>5. CASE UNCHANGED vars
  BY <1>5, OthersKeepFaultInv DEF vars
<1>. QED  BY <1>1, <1>2, <1>3, <1>4, <1>5 DEF Next

\* ensureTemplate: the snapshot students' machines are cloned from is never
\* that of a guest the fault did not go into, provided that operators do not
\* build the same template twice at a time.
THEOREM CleanAlwaysHoldsTheFault ==
    ASSUME OneAtATime PROVE Spec => []CleanHoldsTheFault
<1>1. Init => FaultInv
  BY FaultInit
<1>2. FaultInv /\ [Next]_vars => FaultInv'
  BY FaultStep
<1>3. FaultInv => CleanHoldsTheFault
  BY DEF FaultInv
<1>. QED  BY <1>1, <1>2, <1>3, PTL DEF Spec

-----------------------------------------------------------------------------
(***************************************************************************)
(* Types, whether or not operators wait for one another.                   *)
(***************************************************************************)
\* What an instance that is gone leaves behind.
AbsentIsBare == \A w \in Workloads : vm[w] = "absent" => clean[w] = "none" /\ disk[w] = "bare"

LEMMA LowestExists ==
    ASSUME NEW S, S \subseteq Nat, S # {}
    PROVE  \E x \in S : \A y \in S : x <= y
<1> DEFINE less == OpToRel(<, Nat)
<1>1. IsWellFoundedOn(less, Nat)
  BY NatLessThanWellFounded
<1>2. \A x, y \in Nat : y < x => <<y, x>> \in less
  BY Zenon DEF OpToRel
<1> HIDE DEF less
<1>3. PICK x \in S : \A y \in S : ~ (<<y, x>> \in less)
  BY <1>1, WFMin
<1>4. ASSUME NEW y \in S
      PROVE  x <= y
  <2>1. x \in Nat /\ y \in Nat
    OBVIOUS
  <2>2. ~(y < x)
    BY <1>2, <1>3, <2>1, Zenon
  <2>. QED  BY <2>1, <2>2
<1>. QED  BY <1>4

\* The first workload that nothing serves is one of them.
LEMMA LeastIsAMember ==
    ASSUME NEW W \in SUBSET Workloads, W # {}
    PROVE  Least(W) \in W
<1>1. W \subseteq Nat
  BY TemplateConstants DEF Workloads
<1>2. \E w \in W : \A v \in W : w <= v
  BY <1>1, LowestExists
<1>. QED  BY <1>2 DEF Least

\* What a build does to the instances and to itself.
LEMMA BuildStepKeepsTypes ==
    ASSUME TypeOK, NEW b \in Builders, BuildStep(b)
    PROVE  /\ RangeTypeOK' /\ AbsentIsBare'
           /\ builds' \in 0..MaxBuilds /\ crashes' \in 0..MaxCrashes
<1> DEFINE w == build[b].w
<1>w. w \in Workloads
  BY DEF TypeOK, Build
<1> HIDE DEF w
<1>t. RangeTypeOK /\ build \in [Builders -> Build] /\ AbsentIsBare
      /\ builds \in 0..MaxBuilds /\ crashes \in 0..MaxCrashes
      /\ MaxBuilds \in Nat /\ MaxCrashes \in Nat
  BY TemplateConstants DEF TypeOK, RangeTypeOK, AbsentIsBare
\* A step that only moves the build on.
<1>g. ASSUME \/ Report(b, TRUE) \/ Report(b, FALSE) \/ AfterStop(b)
             \/ \E pc \in BuildPcs : Go(b, pc)
      PROVE  build' \in [Builders -> Build]
  <2>1. (Report(b, TRUE) \/ Report(b, FALSE)) \/ \E pc \in BuildPcs : Go(b, pc)
    BY <1>g DEF AfterStop, BuildPcs
  <2>. QED  BY <1>t, <2>1, ReportGoesOn, GoMovesOn
<1>p. ASSUME PowerOff(w)
      PROVE  /\ vm' \in [Workloads -> {"absent", "stopped", "running"}]
             /\ disk' \in [Workloads -> Contents] /\ UNCHANGED clean
             /\ AbsentIsBare'
  BY <1>w, <1>t, <1>p DEF PowerOff, RangeTypeOK, Unplugged, Contents, AbsentIsBare
<1>1. CASE \E force \in BOOLEAN : StartBuild(b, force)
  <2>1. PICK force \in BOOLEAN : StartBuild(b, force)
    BY <1>1
  <2>2. 1 \in Workloads
    BY TemplateConstants DEF Workloads
  <2>3. build' \in [Builders -> Build]
    BY <1>t, <2>1, <2>2 DEF StartBuild, Build, BuildPcs
  <2>. QED  BY <1>t, <2>1, <2>3 DEF StartBuild, range, RangeTypeOK, AbsentIsBare
<1>2. CASE \/ LookForTemplate(b) \/ SnapshotsUnread(b) \/ ImageFound(b) \/ FindOld(b)
           \/ GracefulStopFails(b) \/ RequestFails(b)
  <2>1. UNCHANGED <<range, builds, crashes>>
    BY <1>2 DEF LookForTemplate, SnapshotsUnread, ImageFound, FindOld, GracefulStopFails, RequestFails
  <2>2. build' \in [Builders -> Build]
    BY <1>2, <1>g DEF LookForTemplate, SnapshotsUnread, ImageFound, FindOld, GracefulStopFails,
       RequestFails, BuildPcs
  <2>. QED  BY <1>t, <2>1, <2>2 DEF range, RangeTypeOK, AbsentIsBare
<1>3. CASE StopOld(b)
  <2>1. PowerOff(w) /\ Go(b, "delete") /\ UNCHANGED <<builds, crashes>>
    BY <1>3 DEF StopOld, w
  <2>2. build' \in [Builders -> Build]
    BY <1>g, <2>1 DEF BuildPcs
  <2>. QED  BY <1>t, <1>p, <2>1, <2>2 DEF RangeTypeOK
<1>4. CASE DeleteOld(b)
  <2>1. build' \in [Builders -> Build]
    BY <1>4, <1>g DEF DeleteOld, BuildPcs
  <2>. QED  BY <1>4, <1>w, <1>t, <2>1 DEF DeleteOld, w, RangeTypeOK, Contents, AbsentIsBare
<1>5. CASE Create(b) \/ StartGuest(b)
  <2>1. build' \in [Builders -> Build]
    BY <1>5, <1>g DEF Create, StartGuest, BuildPcs
  <2>. QED  BY <1>5, <1>w, <1>t, <2>1 DEF Create, StartGuest, w, RangeTypeOK, AbsentIsBare
<1>6. CASE Prepare(b)
  <2>1. /\ vm[w] = "running" /\ disk' = [disk EXCEPT ![w] = Written(w)]
        /\ build' = [build EXCEPT ![b].pc = "stop", ![b].verified = TRUE]
        /\ UNCHANGED <<vm, clean, builds, crashes>>
    BY <1>6 DEF Prepare, w
  <2>2. build' \in [Builders -> Build]
    BY <1>t, <2>1 DEF Build, BuildPcs
  <2>. QED  BY <1>w, <1>t, <2>1, <2>2 DEF RangeTypeOK, Written, Contents, AbsentIsBare
<1>7. CASE PrepareFails(b)
  <2>1. build' \in [Builders -> Build]
    BY <1>7, <1>g DEF PrepareFails, BuildPcs
  <2>. QED  BY <1>7, <1>w, <1>t, <2>1 DEF PrepareFails, w, RangeTypeOK, Written, Contents, AbsentIsBare
<1>8. CASE StopGracefully(b)
  <2>1. build' \in [Builders -> Build]
    BY <1>8, <1>g DEF StopGracefully
  <2>. QED  BY <1>8, <1>w, <1>t, <2>1 DEF StopGracefully, w, RangeTypeOK, Contents, AbsentIsBare
<1>9. CASE StopByForce(b)
  <2>1. build' \in [Builders -> Build] /\ UNCHANGED <<builds, crashes>>
    BY <1>9, <1>g DEF StopByForce
  <2>2. PowerOff(w) \/ UNCHANGED range
    BY <1>9 DEF StopByForce, w
  <2>. QED  BY <1>t, <1>p, <2>1, <2>2 DEF RangeTypeOK, range, AbsentIsBare
<1>10. CASE Snapshot(b)
  <2>1. /\ vm[w] # "absent" /\ clean' = [clean EXCEPT ![w] = Unplugged(disk[w])]
        /\ Report(b, TRUE) /\ UNCHANGED <<vm, disk, builds, crashes>>
    BY <1>10 DEF Snapshot, w
  <2>2. build' \in [Builders -> Build]
    BY <1>g, <2>1
  <2>3. Unplugged(disk[w]) \in Contents \ {"unflushed"}
    BY <1>w, <1>t DEF Unplugged, RangeTypeOK, Contents
  <2>. QED  BY <1>w, <1>t, <2>1, <2>2, <2>3 DEF RangeTypeOK, AbsentIsBare
<1>11. CASE BuildLost(b)
  <2> DEFINE rest == [pc |-> "idle", w |-> 1, force |-> build[b].force,
                      verified |-> FALSE, ready |-> build[b].ready]
  <2>1. /\ UNCHANGED <<range, builds>> /\ crashes < MaxCrashes /\ crashes' = crashes + 1
        /\ build' = [build EXCEPT ![b] = rest]
    BY <1>11 DEF BuildLost
  <2>2. 1 \in Workloads
    BY TemplateConstants DEF Workloads
  <2>3. rest \in Build
    BY <1>t, <2>2 DEF Build, BuildPcs
  <2> HIDE DEF rest
  <2>. QED  BY <1>t, <2>1, <2>3 DEF range, RangeTypeOK, AbsentIsBare
<1>. QED  BY <1>1, <1>2, <1>3, <1>4, <1>5, <1>6, <1>7, <1>8, <1>9, <1>10, <1>11 DEF BuildStep

\* An answer that is computed, and the cache it is put into.
LEMMA ConcludeKeepsTypes ==
    ASSUME TypeOK, NEW p \in Pages, NEW answer \in Answer, NEW doubt \in BOOLEAN,
           Conclude(p, answer, doubt)
    PROVE  page' \in [Pages -> Page] /\ cache' \in Cache
<1>1. page[p] \in Page /\ page \in [Pages -> Page] /\ 1 \in Workloads
  BY TemplateConstants DEF TypeOK, Workloads
<1> DEFINE q == [page[p] EXCEPT !.pc = "idle", !.w = 1, !.startable = {},
                                !.answer = answer, !.doubt = page[p].doubt \/ doubt]
<1>2. q \in Page
  BY <1>1 DEF Page
<1>3. page' = [page EXCEPT ![p] = q]
  BY DEF Conclude
<1> HIDE DEF q
<1>4. page' \in [Pages -> Page]
  BY <1>1, <1>2, <1>3
<1>5. cache' \in Cache
  BY <1>1 DEF Conclude, Cache, Page
<1>. QED  BY <1>4, <1>5

\* What a page does to itself and to the cache.
LEMMA PageStepKeepsTypes ==
    ASSUME TypeOK, NEW p \in Pages, PageStep(p)
    PROVE  page' \in [Pages -> Page] /\ cache' \in Cache \union {NoCache}
<1>1. /\ page[p] \in Page /\ page \in [Pages -> Page] /\ 1 \in Workloads
      /\ cache \in Cache \union {NoCache} /\ clock \in 0..MaxClock
      /\ NumWorkloads \in Nat
  BY TemplateConstants DEF TypeOK, Workloads
<1>2. Unlisted \in Answer /\ Blank \in Answer /\ \A w \in Workloads : Blocked(w) \in Answer
  BY DEF Unlisted, Blank, Blocked, Answer
<1>3. ASSUME NEW q \in Page, page' = [page EXCEPT ![p] = q], UNCHANGED cache
      PROVE  page' \in [Pages -> Page] /\ cache' \in Cache \union {NoCache}
  BY <1>1, <1>3
<1>4. CASE Ask(p)
  <2> DEFINE q == [pc |-> IF Fresh THEN "idle" ELSE "templates", asked |-> clock,
                   w |-> 1, startable |-> {},
                   answer |-> IF Fresh THEN cache.answer ELSE Unlisted,
                   doubt  |-> IF Fresh THEN cache.doubt ELSE FALSE]
  <2>1. Fresh => cache.answer \in Answer /\ cache.doubt \in BOOLEAN
    BY <1>1 DEF Fresh, Cache
  <2>2. q \in Page
    BY <1>1, <1>2, <2>1 DEF Page
  <2>3. page' = [page EXCEPT ![p] = q] /\ UNCHANGED cache
    BY <1>4 DEF Ask
  <2> HIDE DEF q
  <2>. QED  BY <1>3, <2>2, <2>3
<1>5. ASSUME NEW ready \in BOOLEAN, NEW doubt \in BOOLEAN, Row(p, ready, doubt), UNCHANGED cache
      PROVE  page' \in [Pages -> Page] /\ cache' \in Cache \union {NoCache}
  <2> DEFINE w == page[p].w
             q == [page[p] EXCEPT !.startable = page[p].startable \union (IF ready THEN {w} ELSE {}),
                      !.doubt = page[p].doubt \/ doubt,
                      !.pc = IF w < NumWorkloads THEN "templates" ELSE "pools",
                      !.w  = IF w < NumWorkloads THEN w + 1 ELSE w]
  <2>1. w \in Workloads /\ (IF w < NumWorkloads THEN w + 1 ELSE w) \in Workloads
    BY <1>1 DEF Page, Workloads
  <2>2. q \in Page
    BY <1>1, <2>1 DEF Page
  <2>3. page' = [page EXCEPT ![p] = q]
    BY <1>5 DEF Row
  <2> HIDE DEF q
  <2>. QED  BY <1>3, <1>5, <2>2, <2>3
<1>6. CASE ReadTemplate(p)
  BY <1>5, <1>6 DEF ReadTemplate, Finished
<1>7. CASE ReadPools(p)
  <2> DEFINE idle == Workloads \ (page[p].startable \union pool)
  <2>1. CASE idle = {}
    BY <1>2, <1>7, <2>1, ConcludeKeepsTypes DEF ReadPools
  <2>2. CASE idle # {}
    <3> DEFINE q == [page[p] EXCEPT !.pc = "probe", !.w = Least(idle), !.startable = {}]
    <3>1. Least(idle) \in Workloads
      BY <2>2, LeastIsAMember
    <3>2. q \in Page
      BY <1>1, <3>1 DEF Page
    <3>3. page' = [page EXCEPT ![p] = q] /\ UNCHANGED cache
      BY <1>7, <2>2 DEF ReadPools
    <3> HIDE DEF q
    <3>. QED  BY <1>3, <3>2, <3>3
  <2>. QED  BY <2>1, <2>2
<1>8. CASE StatusFails(p)
  <2> DEFINE q == [page[p] EXCEPT !.pc = "idle", !.w = 1, !.startable = {}, !.doubt = TRUE]
  <2>1. q \in Page
    BY <1>1 DEF Page
  <2>2. page' = [page EXCEPT ![p] = q] /\ UNCHANGED cache
    BY <1>8 DEF StatusFails
  <2> HIDE DEF q
  <2>. QED  BY <1>3, <2>1, <2>2
<1>9. CASE ProbeTemplate(p)
  <2>1. CASE Conclude(p, Blank, FALSE)
    BY <1>2, <2>1, ConcludeKeepsTypes
  <2>2. CASE page' = [page EXCEPT ![p].pc = "probepool"] /\ UNCHANGED cache
    BY <1>1, <2>2 DEF Page
  <2>3. CASE page' = [page EXCEPT ![p].pc = "probepool", ![p].doubt = TRUE] /\ UNCHANGED cache
    BY <1>1, <2>3 DEF Page
  <2>. QED  BY <1>9, <2>1, <2>2, <2>3 DEF ProbeTemplate
<1>10. CASE ProbePool(p)
  <2>1. page[p].w \in Workloads
    BY <1>1 DEF Page
  <2>. QED  BY <1>2, <1>10, <2>1, ConcludeKeepsTypes DEF ProbePool
<1>11. CASE ProbeFails(p)
  BY <1>2, <1>11, ConcludeKeepsTypes DEF ProbeFails
<1>. QED  BY <1>4, <1>6, <1>7, <1>8, <1>9, <1>10, <1>11 DEF PageStep

LEMMA TypesInitially == Init => TypeOK
<1>. SUFFICES ASSUME Init PROVE TypeOK
  OBVIOUS
<1>1. 1 \in Workloads /\ {MaxClock, MaxBuilds, MaxCrashes} \subseteq Nat
  BY TemplateConstants DEF Workloads
<1>2. build \in [Builders -> Build]
  BY <1>1 DEF Init, Build, BuildPcs
<1>3. page \in [Pages -> Page]
  <2> DEFINE q == [pc |-> "idle", asked |-> 0, w |-> 1, startable |-> {},
                   answer |-> Unlisted, doubt |-> TRUE]
  <2>1. q \in Page
    BY <1>1 DEF Page, Answer, Unlisted
  <2> HIDE DEF q
  <2>2. page = [p \in Pages |-> q]
    BY DEF Init, q
  <2>. QED  BY <2>1, <2>2
<1>4. seen \in Seen
  <2>1. -1 \in -1..MaxClock /\ 0 \in -1..MaxClock
    BY <1>1
  <2> DEFINE up == [w \in Workloads |-> -1]
             missing == [w \in Workloads |-> 0]
  <2>2. up \in [Workloads -> -1..MaxClock] /\ missing \in [Workloads -> -1..MaxClock]
    BY <2>1
  <2>3. seen = [up |-> up, missing |-> missing]
    BY DEF Init
  <2> HIDE DEF up, missing
  <2>. QED  BY <2>2, <2>3 DEF Seen
<1>5. /\ vm = [w \in Workloads |-> "absent"] /\ disk = [w \in Workloads |-> "bare"]
      /\ clean = [w \in Workloads |-> "none"] /\ pool = {}
      /\ builds = 0 /\ crashes = 0 /\ clock = 0 /\ cache = NoCache
  BY DEF Init
<1>6. /\ vm \in [Workloads -> {"absent", "stopped", "running"}]
      /\ disk \in [Workloads -> Contents]
      /\ clean \in [Workloads -> (Contents \ {"unflushed"}) \union {"none"}]
      /\ \A w \in Workloads : vm[w] = "absent" => clean[w] = "none" /\ disk[w] = "bare"
  BY <1>5 DEF Contents
<1>7. pool \subseteq Workloads /\ builds \in 0..MaxBuilds /\ crashes \in 0..MaxCrashes
      /\ clock \in 0..MaxClock /\ cache \in Cache \union {NoCache}
  BY <1>1, <1>5
<1>. QED  BY <1>2, <1>3, <1>4, <1>6, <1>7 DEF TypeOK

LEMMA TypesStep == TypeOK /\ [Next]_vars => TypeOK'
<1>. SUFFICES ASSUME TypeOK, [Next]_vars PROVE TypeOK'
  OBVIOUS
<1>1. /\ RangeTypeOK /\ AbsentIsBare /\ pool \subseteq Workloads
      /\ builds \in 0..MaxBuilds /\ crashes \in 0..MaxCrashes /\ clock \in 0..MaxClock
      /\ page \in [Pages -> Page] /\ cache \in Cache \union {NoCache} /\ seen \in Seen
      /\ MaxClock \in Nat
  BY TemplateConstants DEF TypeOK, RangeTypeOK, AbsentIsBare
<1>2. ASSUME Observe, clock' \in 0..MaxClock
      PROVE  seen' \in Seen
  <2> DEFINE up == [w \in Workloads |-> IF CanStart(w)' THEN clock' ELSE seen.up[w]]
             missing == [w \in Workloads |-> IF Finished(w)' THEN seen.missing[w] ELSE clock']
  <2>1. up \in [Workloads -> -1..MaxClock]
    BY <1>1, <1>2 DEF Seen
  <2>2. missing \in [Workloads -> -1..MaxClock]
    BY <1>1, <1>2 DEF Seen
  <2>3. seen' = [up |-> up, missing |-> missing]
    BY <1>2 DEF Observe
  <2> HIDE DEF up, missing
  <2>. QED  BY <2>1, <2>2, <2>3 DEF Seen
<1>3. CASE UNCHANGED vars
  BY <1>3 DEF TypeOK, vars
<1>4. CASE Next
  <2>1. RangeTypeOK' /\ AbsentIsBare' /\ builds' \in 0..MaxBuilds /\ crashes' \in 0..MaxCrashes
    <3>1. ASSUME UNCHANGED <<vm, disk, clean, build, builds, crashes>>
          PROVE  RangeTypeOK' /\ AbsentIsBare' /\ builds' \in 0..MaxBuilds /\ crashes' \in 0..MaxCrashes
      BY <1>1, <3>1 DEF RangeTypeOK, AbsentIsBare
    <3>2. CASE \E b \in Builders : BuildStep(b)
      BY <3>2, BuildStepKeepsTypes
    <3>3. CASE \/ \E p \in Pages : PageStep(p)
               \/ \E w \in Workloads : Prewarm(w) \/ PoolEmptied(w)
               \/ ForgetUnavailable \/ Tick
      BY <3>1, <3>3 DEF PageStep, Prewarm, PoolEmptied, ForgetUnavailable, Tick, range
    <3>. QED  BY <1>4, <3>2, <3>3 DEF Next
  <2>2. page' \in [Pages -> Page] /\ cache' \in Cache \union {NoCache}
    <3>1. CASE \E p \in Pages : PageStep(p)
      BY <3>1, PageStepKeepsTypes
    <3>2. CASE \/ \E b \in Builders : BuildStep(b)
               \/ \E w \in Workloads : Prewarm(w) \/ PoolEmptied(w)
               \/ ForgetUnavailable \/ Tick
      BY <1>1, <3>2 DEF BuildStep, Prewarm, PoolEmptied, ForgetUnavailable, Tick
    <3>. QED  BY <1>4, <3>1, <3>2 DEF Next
  <2>3. pool' \subseteq Workloads /\ clock' \in 0..MaxClock
    BY <1>1, <1>4 DEF Next, BuildStep, PageStep, Prewarm, PoolEmptied, ForgetUnavailable, Tick
  <2>4. seen' \in Seen
    BY <1>2, <1>4, <2>3 DEF Next
  <2>. QED  BY <2>1, <2>2, <2>3, <2>4 DEF TypeOK, RangeTypeOK, AbsentIsBare
<1>. QED  BY <1>3, <1>4

\* The types of LabTemplates, for any number of workloads, builders and
\* pages: an instance that is gone has taken its snapshot with it, and a
\* build, a page and the cache speak of workloads there are.
THEOREM TemplatesTypeCorrect == Spec => []TypeOK
  BY TypesInitially, TypesStep, PTL DEF Spec

-----------------------------------------------------------------------------
(***************************************************************************)
(* What the portal says.  The history is kept up to the present, so what   *)
(* a page reads was so no earlier than it asked; the cache carries the     *)
(* time of the call that filled it, and answers for less than TTL.         *)
(***************************************************************************)
ObserveInv ==
    \A w \in Workloads :
        /\ seen.up[w] <= clock /\ seen.missing[w] <= clock
        /\ CanStart(w) => seen.up[w] = clock
        /\ ~Finished(w) => seen.missing[w] = clock

\* By the history s, what an answer says was so at time t or later.
Backed(s, answer, t) ==
    /\ answer.kind = "blocked" => answer.blames \in Workloads /\ s.missing[answer.blames] >= t
    /\ answer = Unlisted => \A w \in Workloads : s.up[w] >= t

CacheBacked(s, c) == c # NoCache /\ ~c.doubt => Backed(s, c.answer, c.at)

\* An answer a page shows, and what a page that is still asking has read.
PageBacked(s, q) ==
    ~q.doubt =>
        /\ q.pc = "idle" => Backed(s, q.answer, q.asked - TTL + 1)
        /\ q.pc \in {"templates", "pools"} => \A w \in q.startable : s.up[w] >= q.asked
        /\ q.pc = "probepool" => s.missing[q.w] >= q.asked

AnswersInv ==
    /\ ObserveInv
    /\ CacheBacked(seen, cache)
    /\ \A p \in Pages : page[p].asked <= clock /\ PageBacked(seen, page[p])

LEMMA SeenTypes ==
    ASSUME TypeOK
    PROVE  /\ clock \in Nat /\ TTL \in Nat /\ TTL >= 1
           /\ seen \in Seen
           /\ \A w \in Workloads : seen.up[w] \in Int /\ seen.missing[w] \in Int
  BY TemplateConstants DEF TypeOK, Seen

\* Time goes on, and the history with it.
LEMMA ObserveStep ==
    ASSUME TypeOK, TypeOK', ObserveInv, Observe, clock <= clock'
    PROVE  /\ ObserveInv'
           /\ \A w \in Workloads : seen'.up[w] >= seen.up[w] /\ seen'.missing[w] >= seen.missing[w]
<1>1. \A w \in Workloads : /\ seen'.up[w] = IF CanStart(w)' THEN clock' ELSE seen.up[w]
                           /\ seen'.missing[w] = IF Finished(w)' THEN seen.missing[w] ELSE clock'
  BY DEF Observe
<1>2. /\ clock \in Nat /\ clock' \in Nat
      /\ \A w \in Workloads : seen.up[w] \in Int /\ seen.missing[w] \in Int
  BY SeenTypes DEF TypeOK
<1>3. \A w \in Workloads : seen.up[w] <= clock /\ seen.missing[w] <= clock
  BY DEF ObserveInv
<1>4. \A w \in Workloads :
        /\ seen'.up[w] <= clock' /\ seen'.missing[w] <= clock'
        /\ CanStart(w)' => seen'.up[w] = clock'
        /\ ~Finished(w)' => seen'.missing[w] = clock'
  BY <1>1, <1>2, <1>3
<1>5. \A w \in Workloads : seen'.up[w] >= seen.up[w] /\ seen'.missing[w] >= seen.missing[w]
  BY <1>1, <1>2, <1>3
<1>. QED  BY <1>4, <1>5 DEF ObserveInv

\* A later history backs what an earlier one did, and backs it for longer.
LEMMA BackedStays ==
    ASSUME NEW s \in Seen, NEW r \in Seen, MaxClock \in Nat,
           \A w \in Workloads : r.up[w] >= s.up[w] /\ r.missing[w] >= s.missing[w],
           NEW answer, NEW t \in Int, NEW u \in Int, u <= t, Backed(s, answer, t)
    PROVE  Backed(r, answer, u)
<1>1. \A w \in Workloads : /\ s.up[w] \in Int /\ s.missing[w] \in Int
                           /\ r.up[w] \in Int /\ r.missing[w] \in Int
  BY DEF Seen
<1>2. answer.kind = "blocked" => answer.blames \in Workloads /\ r.missing[answer.blames] >= u
  <2>1. SUFFICES ASSUME answer.kind = "blocked"
                 PROVE  answer.blames \in Workloads /\ r.missing[answer.blames] >= u
    OBVIOUS
  <2>2. answer.blames \in Workloads /\ s.missing[answer.blames] >= t
    BY <2>1 DEF Backed
  <2>. QED  BY <1>1, <2>2
<1>3. answer = Unlisted => \A w \in Workloads : r.up[w] >= u
  BY <1>1 DEF Backed
<1>. QED  BY <1>2, <1>3 DEF Backed

LEMMA PageStays ==
    ASSUME NEW s \in Seen, NEW r \in Seen, MaxClock \in Nat,
           \A w \in Workloads : r.up[w] >= s.up[w] /\ r.missing[w] >= s.missing[w],
           NEW q \in Page, PageBacked(s, q)
    PROVE  PageBacked(r, q)
<1>1. /\ \A w \in Workloads : /\ s.up[w] \in Int /\ s.missing[w] \in Int
                              /\ r.up[w] \in Int /\ r.missing[w] \in Int
      /\ q.asked \in Nat /\ TTL \in Nat /\ q.w \in Workloads /\ q.startable \subseteq Workloads
  BY TemplateConstants DEF Seen, Page
<1>2. ~q.doubt /\ q.pc = "idle" => Backed(r, q.answer, q.asked - TTL + 1)
  BY <1>1, BackedStays DEF PageBacked
<1>3. ~q.doubt /\ q.pc \in {"templates", "pools"} => \A w \in q.startable : r.up[w] >= q.asked
  BY <1>1 DEF PageBacked
<1>4. ~q.doubt /\ q.pc = "probepool" => r.missing[q.w] >= q.asked
  BY <1>1 DEF PageBacked
<1>. QED  BY <1>2, <1>3, <1>4 DEF PageBacked

\* An answer that is backed since the page asked may be shown and cached.
LEMMA ConcludeIsBacked ==
    ASSUME TypeOK, NEW p \in Pages, NEW answer \in Answer, NEW doubt \in BOOLEAN,
           Conclude(p, answer, doubt),
           ~page[p].doubt /\ ~doubt => Backed(seen, answer, page[p].asked)
    PROVE  /\ CacheBacked(seen, cache')
           /\ PageBacked(seen, page'[p]) /\ page'[p].asked = page[p].asked
           /\ \A d \in Pages \ {p} : page'[d] = page[d]
<1>1. /\ page[p] \in Page /\ page \in [Pages -> Page] /\ page[p].asked \in Nat
      /\ TTL \in Nat /\ TTL >= 1 /\ seen \in Seen /\ MaxClock \in Nat
  BY SeenTypes, TemplateConstants DEF TypeOK, Page
<1> DEFINE q == [page[p] EXCEPT !.pc = "idle", !.w = 1, !.startable = {},
                                !.answer = answer, !.doubt = page[p].doubt \/ doubt]
<1>2. page' = [page EXCEPT ![p] = q]
  BY DEF Conclude
<1>3. /\ q.pc = "idle" /\ q.answer = answer /\ q.asked = page[p].asked
      /\ q.doubt = (page[p].doubt \/ doubt)
  BY <1>1 DEF Page
<1> HIDE DEF q
<1>4. page'[p] = q /\ \A d \in Pages \ {p} : page'[d] = page[d]
  BY <1>1, <1>2
<1>5. ~q.doubt => Backed(seen, answer, page[p].asked - TTL + 1)
  <2>1. SUFFICES ASSUME ~q.doubt PROVE Backed(seen, answer, page[p].asked - TTL + 1)
    OBVIOUS
  <2>2. Backed(seen, answer, page[p].asked)
    BY <1>3, <2>1
  <2>3. /\ page[p].asked \in Int /\ page[p].asked - TTL + 1 \in Int
        /\ page[p].asked - TTL + 1 <= page[p].asked
        /\ \A w \in Workloads : seen.up[w] \in Int /\ seen.missing[w] \in Int
    BY <1>1 DEF Seen
  <2>4. \A w \in Workloads : seen.up[w] >= seen.up[w] /\ seen.missing[w] >= seen.missing[w]
    BY <2>3
  <2>. QED  BY <1>1, <2>2, <2>3, <2>4, BackedStays
<1>6. PageBacked(seen, q)
  BY <1>3, <1>5 DEF PageBacked
<1>7. /\ cache'.answer = answer /\ cache'.at = page[p].asked
      /\ cache'.doubt = (page[p].doubt \/ doubt)
  BY DEF Conclude
<1>8. CacheBacked(seen, cache')
  BY <1>7 DEF CacheBacked
<1>. QED  BY <1>3, <1>4, <1>6, <1>8

\* Whatever a page does, what it has read and shows is backed by what was so.
LEMMA PageStepIsBacked ==
    ASSUME TypeOK, AnswersInv, NEW p \in Pages, PageStep(p)
    PROVE  /\ CacheBacked(seen, cache')
           /\ PageBacked(seen, page'[p]) /\ page'[p].asked <= clock
           /\ \A d \in Pages \ {p} : page'[d] = page[d]
<1>1. /\ page[p] \in Page /\ page \in [Pages -> Page] /\ page[p].asked \in Nat
      /\ TTL \in Nat /\ TTL >= 1 /\ seen \in Seen /\ MaxClock \in Nat /\ clock \in Nat
      /\ cache \in Cache \union {NoCache} /\ page[p].w \in Workloads
      /\ page[p].startable \subseteq Workloads
      /\ \A w \in Workloads : seen.up[w] \in Int /\ seen.missing[w] \in Int
  BY SeenTypes, TemplateConstants DEF TypeOK, Page
<1>2. /\ CacheBacked(seen, cache) /\ page[p].asked <= clock /\ PageBacked(seen, page[p])
      /\ \A w \in Workloads : /\ CanStart(w) => seen.up[w] >= page[p].asked
                              /\ ~Finished(w) => seen.missing[w] >= page[p].asked
  BY <1>1 DEF AnswersInv, ObserveInv
<1>3. Unlisted \in Answer /\ Blank \in Answer /\ \A w \in Workloads : Blocked(w) \in Answer
  BY DEF Unlisted, Blank, Blocked, Answer
<1>4. \A t : Backed(seen, Blank, t)
  BY DEF Backed, Blank, Unlisted
<1>5. ASSUME NEW q \in Page, page' = [page EXCEPT ![p] = q], UNCHANGED cache,
             PageBacked(seen, q), q.asked <= clock
      PROVE  /\ CacheBacked(seen, cache')
             /\ PageBacked(seen, page'[p]) /\ page'[p].asked <= clock
             /\ \A d \in Pages \ {p} : page'[d] = page[d]
  BY <1>1, <1>2, <1>5
<1>6. CASE Ask(p)
  <2> DEFINE q == [pc |-> IF Fresh THEN "idle" ELSE "templates", asked |-> clock,
                   w |-> 1, startable |-> {},
                   answer |-> IF Fresh THEN cache.answer ELSE Unlisted,
                   doubt  |-> IF Fresh THEN cache.doubt ELSE FALSE]
  <2>1. page' = [page EXCEPT ![p] = q] /\ UNCHANGED cache
    BY <1>6 DEF Ask
  <2>2. q.asked = clock /\ q.startable = {}
        /\ q.pc = (IF Fresh THEN "idle" ELSE "templates")
        /\ (Fresh => q.answer = cache.answer /\ q.doubt = cache.doubt)
    OBVIOUS
  <2>3. page'[p] = q /\ \A d \in Pages \ {p} : page'[d] = page[d]
    BY <1>1, <2>1
  <2> HIDE DEF q
  <2>4. CASE Fresh
    <3>1. cache.at \in Int /\ clock - TTL + 1 <= cache.at /\ cache # NoCache
      BY <1>1, <2>4 DEF Fresh, Cache
    <3>2. ~cache.doubt => Backed(seen, cache.answer, clock - TTL + 1)
      BY <1>1, <1>2, <3>1, BackedStays DEF CacheBacked
    <3>. QED  BY <1>1, <1>2, <2>1, <2>2, <2>3, <2>4, <3>2 DEF PageBacked
  <2>5. CASE ~Fresh
    BY <1>1, <1>2, <2>1, <2>2, <2>3, <2>5 DEF PageBacked
  <2>. QED  BY <2>4, <2>5
<1>7. ASSUME NEW ready \in BOOLEAN, NEW doubt \in BOOLEAN, Row(p, ready, doubt), UNCHANGED cache,
             ready /\ ~doubt => Finished(page[p].w), PageAt(p, "templates")
      PROVE  /\ CacheBacked(seen, cache')
             /\ PageBacked(seen, page'[p]) /\ page'[p].asked <= clock
             /\ \A d \in Pages \ {p} : page'[d] = page[d]
  <2> DEFINE w == page[p].w
             q == [page[p] EXCEPT !.startable = page[p].startable \union (IF ready THEN {w} ELSE {}),
                      !.doubt = page[p].doubt \/ doubt,
                      !.pc = IF w < NumWorkloads THEN "templates" ELSE "pools",
                      !.w  = IF w < NumWorkloads THEN w + 1 ELSE w]
  <2>1. page' = [page EXCEPT ![p] = q]
    BY <1>7 DEF Row
  <2>2. /\ q.pc \in {"templates", "pools"} /\ q.doubt = (page[p].doubt \/ doubt)
        /\ q.asked = page[p].asked
        /\ q.startable = page[p].startable \union (IF ready THEN {page[p].w} ELSE {})
    BY <1>1 DEF Page
  <2>3. page'[p] = q /\ \A d \in Pages \ {p} : page'[d] = page[d]
    BY <1>1, <2>1
  <2> HIDE DEF q
  <2>4. ~q.doubt => \A v \in q.startable : seen.up[v] >= q.asked
    <3>1. SUFFICES ASSUME ~q.doubt, NEW v \in q.startable PROVE seen.up[v] >= q.asked
      OBVIOUS
    <3>2. ~page[p].doubt /\ ~doubt
      BY <2>2, <3>1
    <3>3. CASE v \in page[p].startable
      BY <1>2, <1>7, <2>2, <3>2, <3>3 DEF PageBacked, PageAt
    <3>4. CASE ready /\ v = page[p].w
      BY <1>1, <1>2, <1>7, <2>2, <3>2, <3>4 DEF CanStart, Finished
    <3>. QED  BY <2>2, <3>1, <3>3, <3>4
  <2>5. PageBacked(seen, q)
    BY <2>2, <2>4 DEF PageBacked
  <2>. QED  BY <1>2, <1>7, <2>2, <2>3, <2>5
<1>8. CASE ReadTemplate(p)
  BY <1>7, <1>8 DEF ReadTemplate, Finished
<1>9. CASE ReadPools(p)
  <2> DEFINE idle == Workloads \ (page[p].startable \union pool)
  <2>1. CASE idle = {}
    <3>1. ASSUME ~page[p].doubt
          PROVE  \A w \in Workloads : seen.up[w] >= page[p].asked
      BY <1>2, <1>9, <2>1, <3>1 DEF ReadPools, PageAt, PageBacked, CanStart
    <3>2. ~page[p].doubt => Backed(seen, Unlisted, page[p].asked)
      BY <3>1 DEF Backed, Unlisted
    <3>3. Conclude(p, Unlisted, FALSE)
      BY <1>9, <2>1 DEF ReadPools
    <3>. QED  BY <1>2, <1>3, <3>2, <3>3, ConcludeIsBacked
  <2>2. CASE idle # {}
    <3> DEFINE q == [page[p] EXCEPT !.pc = "probe", !.w = Least(idle), !.startable = {}]
    <3>1. page' = [page EXCEPT ![p] = q] /\ UNCHANGED cache
      BY <1>9, <2>2 DEF ReadPools
    <3>2. q.pc = "probe" /\ q.asked = page[p].asked
      BY <1>1 DEF Page
    <3>3. q \in Page
      <4>1. Least(idle) \in Workloads
        BY <2>2, LeastIsAMember
      <4>. QED  BY <1>1, <4>1 DEF Page
    <3> HIDE DEF q
    <3>. QED  BY <1>2, <1>5, <3>1, <3>2, <3>3 DEF PageBacked
  <2>. QED  BY <2>1, <2>2
<1>10. CASE StatusFails(p)
  <2> DEFINE q == [page[p] EXCEPT !.pc = "idle", !.w = 1, !.startable = {}, !.doubt = TRUE]
  <2>1. page' = [page EXCEPT ![p] = q] /\ UNCHANGED cache
    BY <1>10 DEF StatusFails
  <2>2. q \in Page /\ q.doubt /\ q.asked = page[p].asked
    <3>1. 1 \in Workloads
      BY TemplateConstants DEF Workloads
    <3>. QED  BY <1>1, <3>1 DEF Page
  <2> HIDE DEF q
  <2>. QED  BY <1>2, <1>5, <2>1, <2>2 DEF PageBacked
<1>11. CASE ProbeTemplate(p)
  <2>1. CASE Conclude(p, Blank, FALSE)
    BY <1>2, <1>3, <1>4, <2>1, ConcludeIsBacked
  <2>2. CASE ~Finished(page[p].w) /\ page' = [page EXCEPT ![p].pc = "probepool"] /\ UNCHANGED cache
    <3> DEFINE q == [page[p] EXCEPT !.pc = "probepool"]
    <3>1. page' = [page EXCEPT ![p] = q] /\ UNCHANGED cache
      BY <2>2
    <3>2. /\ q \in Page /\ q.pc = "probepool" /\ q.asked = page[p].asked /\ q.w = page[p].w
      BY <1>1 DEF Page
    <3> HIDE DEF q
    <3>3. PageBacked(seen, q)
      BY <1>1, <1>2, <2>2, <3>2 DEF PageBacked
    <3>. QED  BY <1>2, <1>5, <3>1, <3>2, <3>3
  <2>3. CASE page' = [page EXCEPT ![p].pc = "probepool", ![p].doubt = TRUE] /\ UNCHANGED cache
    <3> DEFINE q == [page[p] EXCEPT !.pc = "probepool", !.doubt = TRUE]
    <3>1. page' = [page EXCEPT ![p] = q] /\ UNCHANGED cache
      BY <1>1, <2>3 DEF Page
    <3>2. q \in Page /\ q.doubt /\ q.asked = page[p].asked
      BY <1>1 DEF Page
    <3> HIDE DEF q
    <3>3. PageBacked(seen, q)
      BY <3>2 DEF PageBacked
    <3>. QED  BY <1>2, <1>5, <3>1, <3>2, <3>3
  <2>. QED  BY <1>11, <2>1, <2>2, <2>3 DEF ProbeTemplate
<1>12. CASE ProbePool(p)
  <2>1. ~page[p].doubt => Backed(seen, Blocked(page[p].w), page[p].asked)
    BY <1>1, <1>2, <1>12 DEF ProbePool, PageAt, PageBacked, Backed, Blocked, Unlisted
  <2>2. CASE page[p].w \in pool
    BY <1>2, <1>3, <1>4, <1>12, <2>2, ConcludeIsBacked DEF ProbePool
  <2>3. CASE page[p].w \notin pool
    <3>1. Conclude(p, Blocked(page[p].w), FALSE) /\ Blocked(page[p].w) \in Answer
      BY <1>1, <1>3, <1>12, <2>3 DEF ProbePool
    <3>. QED  BY <1>2, <2>1, <3>1, ConcludeIsBacked
  <2>. QED  BY <2>2, <2>3
<1>13. CASE ProbeFails(p)
  BY <1>2, <1>3, <1>13, ConcludeIsBacked DEF ProbeFails
<1>. QED  BY <1>6, <1>8, <1>9, <1>10, <1>11, <1>12, <1>13 DEF PageStep

LEMMA AnswersStep == TypeOK /\ TypeOK' /\ AnswersInv /\ [Next]_vars => AnswersInv'
<1>. SUFFICES ASSUME TypeOK, TypeOK', AnswersInv, [Next]_vars PROVE AnswersInv'
  OBVIOUS
<1>1. CASE UNCHANGED vars
  BY <1>1 DEF AnswersInv, vars, ObserveInv, CanStart, Finished
<1>2. CASE Next
  <2>1. /\ clock \in Nat /\ clock' \in Nat /\ MaxClock \in Nat
        /\ seen \in Seen /\ seen' \in Seen
        /\ page \in [Pages -> Page] /\ page' \in [Pages -> Page]
        /\ cache \in Cache \union {NoCache} /\ cache' \in Cache \union {NoCache}
    BY TemplateConstants DEF TypeOK
  <2>2. clock <= clock'
    BY <1>2, <2>1 DEF Next, BuildStep, PageStep, Prewarm, PoolEmptied, ForgetUnavailable, Tick
  <2>3. /\ ObserveInv'
        /\ \A w \in Workloads : seen'.up[w] >= seen.up[w] /\ seen'.missing[w] >= seen.missing[w]
    BY <1>2, <2>2, ObserveStep DEF Next, AnswersInv
  <2>4. /\ CacheBacked(seen, cache')
        /\ \A p \in Pages : page'[p].asked <= clock /\ PageBacked(seen, page'[p])
    <3>1. CASE \E p \in Pages : PageStep(p)
      <4>1. PICK p \in Pages : PageStep(p)
        BY <3>1
      <4>2. /\ CacheBacked(seen, cache') /\ PageBacked(seen, page'[p]) /\ page'[p].asked <= clock
            /\ \A d \in Pages \ {p} : page'[d] = page[d]
        BY <4>1, PageStepIsBacked
      <4>3. \A d \in Pages \ {p} : page'[d].asked <= clock /\ PageBacked(seen, page'[d])
        BY <4>2 DEF AnswersInv
      <4>. QED  BY <4>2, <4>3
    <3>2. CASE ForgetUnavailable
      BY <3>2 DEF ForgetUnavailable, AnswersInv, CacheBacked
    <3>3. CASE (\E b \in Builders : BuildStep(b)) \/ Tick
               \/ \E w \in Workloads : Prewarm(w) \/ PoolEmptied(w)
      <4>1. UNCHANGED <<page, cache>>
        BY <3>3 DEF BuildStep, Tick, Prewarm, PoolEmptied
      <4>. QED  BY <4>1 DEF AnswersInv
    <3>. QED  BY <1>2, <3>1, <3>2, <3>3 DEF Next
  <2>5. \A p \in Pages : page'[p].asked <= clock' /\ PageBacked(seen', page'[p])
    <3>1. TAKE p \in Pages
    <3>2. page'[p] \in Page /\ page'[p].asked \in Nat
      BY <2>1 DEF Page
    <3>3. PageBacked(seen', page'[p])
      BY <2>1, <2>3, <2>4, <3>2, PageStays
    <3>. QED  BY <2>1, <2>2, <2>4, <3>2, <3>3
  <2>6. CacheBacked(seen', cache')
    <3>1. SUFFICES ASSUME cache' # NoCache, ~cache'.doubt
                   PROVE  Backed(seen', cache'.answer, cache'.at)
      BY DEF CacheBacked
    <3>2. cache'.at \in Int /\ Backed(seen, cache'.answer, cache'.at)
      BY <2>1, <2>4, <3>1 DEF CacheBacked, Cache
    <3>. QED  BY <2>1, <2>3, <3>2, BackedStays
  <2>. QED  BY <2>3, <2>5, <2>6 DEF AnswersInv
<1>. QED  BY <1>1, <1>2

\* unavailableScenarios: for any number of pages and workloads, whatever is
\* built, lost, claimed and forgotten meanwhile, no page says of a scenario
\* what had been untrue for TTL when it asked, unless a request failed.
THEOREM AnswersAreRecent == Spec => []PageIsRecent
<1>1. Init => AnswersInv
  <2>. SUFFICES ASSUME Init PROVE AnswersInv
    OBVIOUS
  <2>1. /\ clock = 0 /\ cache = NoCache /\ pool = {}
        /\ \A w \in Workloads : clean[w] = "none" /\ seen.up[w] = -1 /\ seen.missing[w] = 0
        /\ \A p \in Pages : page[p].asked = 0 /\ page[p].doubt
    BY DEF Init
  <2>2. ObserveInv
    BY <2>1 DEF ObserveInv, CanStart, Finished
  <2>3. CacheBacked(seen, cache)
    BY <2>1 DEF CacheBacked
  <2>4. \A p \in Pages : page[p].asked <= clock /\ PageBacked(seen, page[p])
    BY <2>1 DEF PageBacked
  <2>. QED  BY <2>2, <2>3, <2>4 DEF AnswersInv
<1>2. TypeOK /\ AnswersInv => PageIsRecent
  <2>. SUFFICES ASSUME TypeOK, AnswersInv, NEW p \in Pages, PageAt(p, "idle"), ~page[p].doubt
                PROVE  BlameIsRecent(p) /\ SilenceIsRecent(p)
    BY DEF PageIsRecent
  <2>1. Backed(seen, page[p].answer, page[p].asked - TTL + 1)
    BY DEF AnswersInv, PageBacked, PageAt
  <2>2. /\ page[p].asked \in Nat /\ TTL \in Nat
        /\ \A w \in Workloads : seen.up[w] \in Int /\ seen.missing[w] \in Int
    BY SeenTypes DEF TypeOK, Page
  <2>3. BlameIsRecent(p)
    <3>1. SUFFICES ASSUME page[p].answer.kind = "blocked"
                   PROVE  seen.missing[page[p].answer.blames] > page[p].asked - TTL
      BY DEF BlameIsRecent
    <3>2. /\ page[p].answer.blames \in Workloads
          /\ seen.missing[page[p].answer.blames] >= page[p].asked - TTL + 1
      BY <2>1, <3>1 DEF Backed
    <3>. QED  BY <2>2, <3>2
  <2>4. SilenceIsRecent(p)
    BY <2>1, <2>2 DEF Backed, SilenceIsRecent
  <2>. QED  BY <2>3, <2>4
<1>. QED  BY <1>1, <1>2, TypesInitially, TypesStep, AnswersStep, PTL DEF Spec

-----------------------------------------------------------------------------
(***************************************************************************)
(* What buildTemplates reports.  It says "ready" of a template it found    *)
(* finished, or of the snapshot it has just taken: either way the snapshot *)
(* is there when it says so, and holds the fault.                          *)
(***************************************************************************)
\* The results grow by the workload at hand, and by nothing else.
LEMMA ReportAdds ==
    ASSUME TypeOK, NEW b \in Builders, NEW ready \in BOOLEAN, Report(b, ready)
    PROVE  /\ build'[b].ready \subseteq build[b].ready \union (IF ready THEN {build[b].w} ELSE {})
           /\ \A d \in Builders \ {b} : build'[d] = build[d]
<1> DEFINE last == build[b].w >= NumWorkloads
           next == [pc |-> IF last THEN "idle" ELSE "look",
                    w  |-> IF last THEN 1 ELSE build[b].w + 1,
                    force |-> build[b].force, verified |-> FALSE,
                    ready |-> build[b].ready \union (IF ready THEN {build[b].w} ELSE {})]
<1>1. build' = [build EXCEPT ![b] = next]
  BY DEF Report
<1>2. next.ready = build[b].ready \union (IF ready THEN {build[b].w} ELSE {})
  OBVIOUS
<1> HIDE DEF next
<1>3. build \in [Builders -> Build]
  BY DEF TypeOK
<1>. QED  BY <1>1, <1>2, <1>3

LEMMA BuildStepReports ==
    ASSUME TypeOK, NEW b \in Builders, BuildStep(b)
    PROVE  \A d \in Builders : \A w \in build'[d].ready \ build[d].ready :
              clean'[w] # "none" /\ w \in Workloads
<1>1. /\ build \in [Builders -> Build] /\ build[b].w \in Workloads /\ RangeTypeOK
  BY DEF TypeOK, RangeTypeOK, Build
<1>2. ASSUME build'[b].ready \subseteq build[b].ready, \A d \in Builders \ {b} : build'[d] = build[d]
      PROVE  \A d \in Builders : build'[d].ready \ build[d].ready = {}
  BY <1>2
<1>3. ASSUME Report(b, FALSE) \/ AfterStop(b) \/ \E pc \in BuildPcs : Go(b, pc)
      PROVE  \A d \in Builders : build'[d].ready \ build[d].ready = {}
  <2>1. Report(b, FALSE) \/ \E pc \in BuildPcs : Go(b, pc)
    BY <1>3 DEF AfterStop, BuildPcs
  <2>2. CASE Report(b, FALSE)
    BY <1>2, <2>2, ReportAdds
  <2>3. ASSUME NEW pc \in BuildPcs, Go(b, pc)
        PROVE  \A d \in Builders : build'[d].ready \ build[d].ready = {}
    <3>1. build'[b].ready = build[b].ready /\ \A d \in Builders \ {b} : build'[d] = build[d]
      BY <1>1, <2>3 DEF Go, Build
    <3>. QED  BY <1>2, <3>1
  <2>. QED  BY <2>1, <2>2, <2>3
<1>4. ASSUME Report(b, TRUE), clean'[build[b].w] # "none"
      PROVE  \A d \in Builders : \A w \in build'[d].ready \ build[d].ready :
                clean'[w] # "none" /\ w \in Workloads
  <2>1. /\ build'[b].ready \subseteq build[b].ready \union {build[b].w}
        /\ \A d \in Builders \ {b} : build'[d] = build[d]
    BY <1>4, ReportAdds
  <2>2. TAKE d \in Builders
  <2>3. TAKE w \in build'[d].ready \ build[d].ready
  <2>4. w = build[b].w
    BY <2>1
  <2>. QED  BY <1>1, <1>4, <2>4
<1>5. CASE \E force \in BOOLEAN : StartBuild(b, force)
  <2>1. build'[b].ready = {} /\ \A d \in Builders \ {b} : build'[d] = build[d]
    BY <1>1, <1>5 DEF StartBuild
  <2>. QED  BY <1>2, <2>1
<1>6. CASE LookForTemplate(b)
  <2>1. CASE Report(b, TRUE) /\ Finished(build[b].w)
    BY <1>4, <1>6, <2>1 DEF LookForTemplate, Finished, range
  <2>2. CASE Go(b, "image")
    BY <1>3, <2>2 DEF BuildPcs
  <2>. QED  BY <1>6, <2>1, <2>2 DEF LookForTemplate
<1>7. CASE \/ SnapshotsUnread(b) \/ ImageFound(b) \/ FindOld(b) \/ GracefulStopFails(b)
           \/ RequestFails(b) \/ StopOld(b) \/ DeleteOld(b) \/ Create(b) \/ StartGuest(b)
           \/ PrepareFails(b) \/ StopGracefully(b) \/ StopByForce(b)
  BY <1>3, <1>7 DEF SnapshotsUnread, ImageFound, FindOld, GracefulStopFails, RequestFails, StopOld,
     DeleteOld, Create, StartGuest, PrepareFails, StopGracefully, StopByForce, BuildPcs
<1>8. CASE Prepare(b)
  <2>1. build'[b].ready = build[b].ready /\ \A d \in Builders \ {b} : build'[d] = build[d]
    BY <1>1, <1>8 DEF Prepare, Build
  <2>. QED  BY <1>2, <2>1
<1>9. CASE Snapshot(b)
  <2>1. clean'[build[b].w] = Unplugged(disk[build[b].w]) /\ disk[build[b].w] \in Contents
    BY <1>1, <1>9 DEF Snapshot, RangeTypeOK
  <2>2. clean'[build[b].w] # "none"
    BY <2>1 DEF Unplugged, Contents
  <2>. QED  BY <1>4, <1>9, <2>2 DEF Snapshot
<1>10. CASE BuildLost(b)
  <2>1. build'[b].ready = build[b].ready /\ \A d \in Builders \ {b} : build'[d] = build[d]
    BY <1>1, <1>10 DEF BuildLost
  <2>. QED  BY <1>2, <2>1
<1>. QED  BY <1>5, <1>6, <1>7, <1>8, <1>9, <1>10 DEF BuildStep

\* buildTemplates, for any number of workloads, builders, builds and losses:
\* of whatever it says "ready", a machine with the fault can be cloned at
\* that moment, provided that operators wait for one build before the next.
THEOREM ReadyIsReady ==
    ASSUME OneAtATime PROVE Spec => ReadyCanBeCloned
<1>1. Init => TypeOK /\ FaultInv
  BY TypesInitially, FaultInit
<1>2. TypeOK /\ FaultInv /\ [Next]_vars => TypeOK' /\ FaultInv'
  BY TypesStep, FaultStep
<1>3. TypeOK /\ TypeOK' /\ FaultInv' /\ [Next]_vars
        => [\A b \in Builders : \A w \in build'[b].ready \ build[b].ready :
              clean'[w] \in {"faulted", "cut"}]_vars
  <2>. SUFFICES ASSUME TypeOK, TypeOK', FaultInv', Next, NEW b \in Builders,
                       NEW w \in build'[b].ready \ build[b].ready
                PROVE  clean'[w] \in {"faulted", "cut"}
    OBVIOUS
  <2>1. CASE \E d \in Builders : BuildStep(d)
    <3>1. clean'[w] # "none" /\ w \in Workloads
      BY <2>1, BuildStepReports
    <3>2. clean'[w] \in (Contents \ {"unflushed"}) \union {"none"} /\ clean'[w] # "bare"
      BY <3>1 DEF TypeOK, FaultInv, CleanHoldsTheFault
    <3>. QED  BY <3>1, <3>2 DEF Contents
  <2>2. CASE \/ \E p \in Pages : PageStep(p)
             \/ \E v \in Workloads : Prewarm(v) \/ PoolEmptied(v)
             \/ ForgetUnavailable \/ Tick
    BY <2>2 DEF PageStep, Prewarm, PoolEmptied, ForgetUnavailable, Tick
  <2>. QED  BY <2>1, <2>2 DEF Next
<1>. QED  BY <1>1, <1>2, <1>3, PTL DEF Spec, ReadyCanBeCloned

=============================================================================
