------------------------ MODULE LabSessionReconciler ------------------------
(***************************************************************************)
(* The Lab Operator's reconciler for one LabSession, call by call, beside  *)
(* the lab server's writes to the same resource and the cluster.           *)
(*                                                                         *)
(* One worker runs passes.  A pass reads the session from the informer     *)
(* cache, which may lag behind the API server, picks a job from that copy  *)
(* (ls), and then makes its API calls one at a time: everything else can   *)
(* happen between two of them, a call can fail, and the operator can be    *)
(* restarted.  The operator keeps nothing but the work queue in memory.    *)
(***************************************************************************)
EXTENDS LabSession, KubeVirtProvider

CONSTANTS
    Configs,      \* what resolving the scenario can give: "valid", "invalid"
    MayFail,      \* the calls (values of pc) that may return an error
    MaxRequests,  \* bound on the server's writes to the resource
    MaxFaults     \* bound on failed calls, VM failures and restarts

ASSUME ConfigsAssumption == Configs \subseteq {"valid", "invalid"} /\ Configs /= {}
ASSUME BoundsAssumption == MaxRequests \in Nat /\ MaxFaults \in Nat

VARIABLES
    cr,        \* the resource in the API server
    cache,     \* the operator's informer copy of it
    ls,        \* the running pass's copy of it
    fresh,     \* which of these copies carry the current resourceVersion
    job, pc,   \* what the running pass is doing, and its next API call
    result,    \* phase and DNS name it observed, and the snapshot to delete
    queued,    \* the session is in the work queue
    timer,     \* its delayed requeue: none, soon, or at the TTL deadline
    ttl,       \* the TTL deadline of the session: ahead or passed
    config,    \* does the scenario resolve under the operator's configuration?
    requests, faults

operatorVars == <<cache, ls, fresh, job, pc, result, queued, timer, config>>
vars == <<cr, operatorVars, ttl, requests, faults, clusterVars>>

Jobs == {"none", "finalize", "adopt", "expire", "suspend", "park", "unpark", "converge"}

DeleteSteps == {"deleteVMI", "deleteNetworkPolicy", "deleteService",
                "deleteDataVolume", "deleteSnapshot"}

EnsureSteps == {"ensureDataVolume", "ensureSecret", "ensureVMI",
                "ensureService", "ensureNetworkPolicy"}

Steps == DeleteSteps \cup EnsureSteps \cup
         {"idle", "removeFinalizer", "addFinalizer", "patchExpired", "createSnapshot",
          "patchSnapshotName", "awaitSnapshot", "patchPaused", "patchResumed",
          "observe", "patchPhase", "dropSnapshot", "clearSnapshotName", "rest"}

Results == [phase : Phases, serviceDNS : {"", "dns"}, drop : {"", "snap"}]
NoResult == [phase |-> "", serviceDNS |-> "", drop |-> ""]

\* State invariant: every variable holds a value of its kind.
TypeOK ==
    /\ ClusterTypeOK
    /\ cr \in Sessions /\ cache \in Sessions /\ ls \in Sessions
    /\ fresh \subseteq {"cache", "ls"}
    /\ job \in Jobs /\ pc \in Steps
    /\ result \in Results
    /\ queued \in BOOLEAN
    /\ timer \in {"none", "soon", "expiry"}
    /\ ttl \in {"ahead", "passed"}
    /\ config \in Configs
    /\ requests \in 0..MaxRequests /\ faults \in 0..MaxFaults

\* The server has created the resource and the operator has not seen it.
Init ==
    /\ ClusterInit
    /\ cr = Created /\ cache = Absent /\ ls = Absent
    /\ fresh = {}
    /\ job = "none" /\ pc = "idle" /\ result = NoResult
    /\ queued = FALSE /\ timer = "none" /\ ttl = "ahead"
    /\ config \in Configs
    /\ requests = 0 /\ faults = 0

\* time.Now().After(ExpiresAt), by the copy the pass works from.
Due(c) == c.expiresAt = "now" \/ ttl = "passed"

-----------------------------------------------------------------------------
(* Writing the resource.  Every change gives it a new resourceVersion, which *)
(* leaves behind all copies but the writer's.                                *)

\* The copies still current after a write (one that changes nothing is no write).
StillCurrent(new) == IF new = cr THEN fresh ELSE {}

\* A write by the running pass: the response replaces its copy.
OperatorWrites(new) ==
    /\ cr' = new
    /\ ls' = new
    /\ fresh' = StillCurrent(new) \cup {"ls"}

\* patchStatus sends a merge patch between the pass's copy before and after
\* the change: a field its copy already has at the new value is not sent.
Merge(old, new, current) == IF old = new THEN current ELSE new

-----------------------------------------------------------------------------
(* The work queue *)

\* A delayed requeue only ever brings the next pass forward.
Rearm(when) ==
    IF when = "none" \/ timer = "soon" THEN timer ELSE when

\* The pass is over; `when` is its RequeueAfter (an error backs off: soon).
EndPass(when) ==
    /\ job' = "none" /\ pc' = "idle" /\ ls' = Absent /\ result' = NoResult
    /\ timer' = Rearm(when)
    /\ UNCHANGED <<cache, queued, config, ttl, requests, clusterVars>>

Return(when) == EndPass(when) /\ fresh' = fresh \ {"ls"} /\ UNCHANGED cr

\* requeueUntilExpiry, for the copy the pass ends with.
UntilExpiry(c) == IF Due(c) THEN "soon" ELSE "expiry"

\* The informer sees the current resource and enqueues the session.
Watch ==
    /\ "cache" \notin fresh
    /\ cache' = cr /\ fresh' = fresh \cup {"cache"} /\ queued' = TRUE
    /\ UNCHANGED <<cr, ls, job, pc, result, timer, config, ttl, requests, faults, clusterVars>>

TimerFires ==
    /\ timer = "soon" \/ (timer = "expiry" /\ ttl = "passed")
    /\ timer' = "none" /\ queued' = TRUE
    /\ UNCHANGED <<cr, cache, ls, fresh, job, pc, result, config, ttl, requests, faults, clusterVars>>

\* controller-runtime's periodic resync (10 hours unless configured).
Resync ==
    /\ cache.state /= "absent" /\ ~queued
    /\ queued' = TRUE
    /\ UNCHANGED <<cr, cache, ls, fresh, job, pc, result, timer, config, ttl, requests, faults, clusterVars>>

-----------------------------------------------------------------------------
(* Reconcile picks its job from the cached copy, in this order. *)

\* (seeded fault) the finalizer is not waited for
AdoptedUnguarded(c) == c.state = "live"

Deleting(c)  == c.state = "deleting"
Unadopted(c) == c.state = "live" /\ Finalizer \notin c.finalizers
Adopted(c)   == c.state = "live" /\ Finalizer \in c.finalizers

\* (seeded fault) the TTL check is missing
ActiveForever(c) == Adopted(c)

Active(c)    == Adopted(c) /\ ~Due(c)
Pausing(c)   == Active(c) /\ c.paused /\ c.phase /= "Paused"
Resuming(c)  == Active(c) /\ ~c.paused /\ c.phase = "Paused"
Parked(c)    == Active(c) /\ c.paused /\ c.phase = "Paused"
Running(c)   == Active(c) /\ ~c.paused /\ c.phase /= "Paused"

Start(j, step) ==
    /\ pc = "idle" /\ queued
    /\ queued' = FALSE
    /\ ls' = cache
    /\ fresh' = fresh \cup (IF "cache" \in fresh THEN {"ls"} ELSE {})
    /\ job' = j /\ pc' = step
    /\ UNCHANGED <<cr, cache, result, timer, config, ttl, requests, faults, clusterVars>>

\* (seeded fault) the TTL branch comes before the deletion branch
StartFinalizeUnexpired ==
    /\ Deleting(cache) /\ Finalizer \in cache.finalizers /\ cache.phase /= "Expired"
    /\ Start("finalize", "deleteVMI")

StartFinalize == Deleting(cache) /\ Finalizer \in cache.finalizers /\ Start("finalize", "deleteVMI")

StartAdopt == Unadopted(cache) /\ Start("adopt", "addFinalizer")

\* (seeded fault) the phase is reported before the teardown
StartExpireEarly ==
    /\ Adopted(cache) /\ Due(cache) /\ cache.phase /= "Expired"
    /\ Start("expire", "patchExpired")

\* (seeded fault) the TTL branch comes after the one that skips paused sessions
StartExpireUnpaused ==
    /\ Adopted(cache) /\ Due(cache) /\ cache.phase \notin {"Expired", "Paused"}
    /\ Start("expire", "deleteVMI")

StartExpire ==
    /\ Adopted(cache) /\ Due(cache) /\ cache.phase /= "Expired"
    /\ Start("expire", "deleteVMI")

\* Pause, phase 1: no snapshot on record yet.
StartSuspend == Pausing(cache) /\ cache.snapshotName = "" /\ Start("suspend", "deleteVMI")

\* Pause, phase 2: a snapshot is on record.
StartPark == Pausing(cache) /\ cache.snapshotName /= "" /\ Start("park", "awaitSnapshot")

StartUnpark == Resuming(cache) /\ Start("unpark", "patchResumed")

StartConverge ==
    /\ Running(cache) /\ config = "valid"
    /\ Start("converge", "ensureDataVolume")

\* The scenario, its golden image, its size or its user data do not resolve:
\* Provider.Reconcile reports Failed before it touches the cluster.
StartUnresolved ==
    /\ Running(cache) /\ config = "invalid"
    /\ pc = "idle" /\ queued
    /\ queued' = FALSE /\ ls' = cache
    /\ fresh' = fresh \cup (IF "cache" \in fresh THEN {"ls"} ELSE {})
    /\ job' = "converge" /\ pc' = "patchPhase"
    /\ result' = [NoResult EXCEPT !.phase = "Failed"]
    /\ UNCHANGED <<cr, cache, timer, config, ttl, requests, faults, clusterVars>>

\* Not found, finalizer already removed, already Expired, or Paused for now.
NothingToDo ==
    /\ pc = "idle" /\ queued
    /\ \/ cache.state = "absent"
       \/ Deleting(cache) /\ Finalizer \notin cache.finalizers
       \/ Adopted(cache) /\ Due(cache) /\ cache.phase = "Expired"
       \/ Parked(cache)
    /\ queued' = FALSE
    /\ UNCHANGED <<cr, cache, ls, fresh, job, pc, result, timer, config, ttl, requests, faults, clusterVars>>

-----------------------------------------------------------------------------
(* The API calls of a pass *)

\* Frames: what a cluster call, a status patch and the last call leave alone.
Proceed(next) ==
    /\ pc' = next
    /\ UNCHANGED <<cr, cache, ls, fresh, job, result, queued, timer, config, ttl, requests, faults>>

\* Teardown = TeardownCompute, TeardownDisk, and the snapshot on record, if any;
\* finalize and expire run all of it, suspend stops after the compute.
DeleteVMI == pc = "deleteVMI" /\ DeleteChild("VMI") /\ Proceed("deleteNetworkPolicy")

DeleteNetworkPolicy ==
    pc = "deleteNetworkPolicy" /\ DeleteChild("NetworkPolicy") /\ Proceed("deleteService")

\* (seeded fault) an expiry forgets the disk
DeleteServiceOnly ==
    /\ pc = "deleteService" /\ DeleteChild("Service")
    /\ Proceed(CASE job = "suspend" -> "createSnapshot"
                 [] job = "expire" -> "patchExpired"
                 [] OTHER -> "deleteDataVolume")

DeleteService ==
    /\ pc = "deleteService" /\ DeleteChild("Service")
    /\ Proceed(IF job = "suspend" THEN "createSnapshot" ELSE "deleteDataVolume")

AfterTeardown == IF job = "finalize" THEN "removeFinalizer" ELSE "patchExpired"

\* (seeded fault) only a deletion takes the snapshot along
DeleteDataVolumeOnly ==
    /\ pc = "deleteDataVolume" /\ DeleteChild("DataVolume")
    /\ Proceed(CASE job = "park" -> "patchPaused"
                 [] job = "finalize" /\ ls.snapshotName /= "" -> "deleteSnapshot"
                 [] OTHER -> AfterTeardown)

DeleteDataVolume ==
    /\ pc = "deleteDataVolume" /\ DeleteChild("DataVolume")
    /\ Proceed(IF job = "park" THEN "patchPaused"
               ELSE IF ls.snapshotName /= "" THEN "deleteSnapshot" ELSE AfterTeardown)

DeleteSnapshot ==
    pc = "deleteSnapshot" /\ DeleteChild("VolumeSnapshot") /\ Proceed(AfterTeardown)

TakeSnapshot == pc = "createSnapshot" /\ CreateSnapshot /\ Proceed("patchSnapshotName")

EnsureDisk ==
    pc = "ensureDataVolume" /\ EnsureDataVolume(ls.snapshotName) /\ Proceed("ensureSecret")
EnsureSecret == pc = "ensureSecret" /\ EnsurePlain("Secret") /\ Proceed("ensureVMI")
EnsureMachine == pc = "ensureVMI" /\ EnsureVMI /\ Proceed("ensureService")
EnsureService == pc = "ensureService" /\ EnsurePlain("Service") /\ Proceed("ensureNetworkPolicy")
EnsureNetworkPolicy ==
    pc = "ensureNetworkPolicy" /\ EnsurePlain("NetworkPolicy") /\ Proceed("observe")

\* (seeded fault) the disk is dropped without waiting for the snapshot
SnapshotTakenForReady ==
    /\ pc = "awaitSnapshot" /\ Exists("VolumeSnapshot")
    /\ Proceed("deleteDataVolume") /\ UNCHANGED clusterVars

\* Phase 2 of a pause: poll the snapshot.
SnapshotIsReady ==
    /\ pc = "awaitSnapshot" /\ SnapshotReady
    /\ Proceed("deleteDataVolume") /\ UNCHANGED clusterVars

\* (seeded fault) nothing polls the snapshot again
SnapshotNotPolled ==
    /\ pc = "awaitSnapshot" /\ ~SnapshotReady
    /\ Return("none") /\ UNCHANGED faults

SnapshotNotReady ==
    /\ pc = "awaitSnapshot" /\ ~SnapshotReady
    /\ Return("soon") /\ UNCHANGED faults

\* (seeded fault) the snapshot is deleted before the VM is up
ObserveAndDrop(probed) ==
    LET phase == IF ObservedPhase = "Running" /\ probed THEN "Ready" ELSE ObservedPhase
    IN
    /\ pc = "observe"
    /\ result' = [phase      |-> phase,
                  serviceDNS |-> IF phase \in {"Running", "Ready"} THEN "dns" ELSE "",
                  drop       |-> ls.snapshotName]
    /\ pc' = "patchPhase"
    /\ UNCHANGED <<cr, cache, ls, fresh, job, queued, timer, config, ttl, requests, clusterVars>>

\* Read the VMI's phase, promote it if the probe succeeds, and remember the
\* snapshot to delete.
ObserveWith(probed) ==
    LET phase == IF ObservedPhase = "Running" /\ probed THEN "Ready" ELSE ObservedPhase
        up == phase \in {"Running", "Ready"}
    IN
    /\ pc = "observe"
    /\ result' = [phase      |-> phase,
                  serviceDNS |-> IF up THEN "dns" ELSE "",
                  drop       |-> IF up THEN ls.snapshotName ELSE ""]
    /\ pc' = "patchPhase"
    /\ UNCHANGED <<cr, cache, ls, fresh, job, queued, timer, config, ttl, requests, clusterVars>>

Observe == ObserveWith(ProbeAnswers) /\ UNCHANGED faults

\* The last write of a pass.
WriteAndReturn(new, when) ==
    /\ cr' = new
    /\ fresh' = StillCurrent(new) \ {"ls"}
    /\ EndPass(when) /\ UNCHANGED faults

\* r.Update carries the copy's resourceVersion and is refused if it is old.
AddFinalizer ==
    /\ pc = "addFinalizer" /\ "ls" \in fresh
    /\ WriteAndReturn([cr EXCEPT !.finalizers = @ \cup {Finalizer}], "none")

\* Without a finalizer left, the API server drops the deleted resource.
RemoveFinalizer ==
    /\ pc = "removeFinalizer" /\ "ls" \in fresh
    /\ WriteAndReturn([cr EXCEPT !.finalizers = @ \ {Finalizer}, !.state = "absent"], "none")

Conflict ==
    /\ pc \in {"addFinalizer", "removeFinalizer"} /\ "ls" \notin fresh
    /\ Return("soon") /\ UNCHANGED faults

\* The status patches that end a pass.  Each needs the resource, which the
\* finalizer keeps in place as long as a pass that patches it runs.
PatchExpired ==
    /\ pc = "patchExpired" /\ cr.state /= "absent"
    /\ WriteAndReturn(
         [cr EXCEPT !.phase        = "Expired",
                    !.snapshotName = Merge(ls.snapshotName, "", cr.snapshotName)],
         "none")

PatchSnapshotName ==
    /\ pc = "patchSnapshotName" /\ cr.state /= "absent"
    /\ WriteAndReturn(
         [cr EXCEPT !.snapshotName = "snap",
                    !.serviceDNS   = Merge(ls.serviceDNS, "", cr.serviceDNS)],
         "soon")

PatchPaused ==
    /\ pc = "patchPaused" /\ cr.state /= "absent"
    /\ WriteAndReturn([cr EXCEPT !.phase = "Paused"], "none")

PatchResumed ==
    /\ pc = "patchResumed" /\ cr.state /= "absent"
    /\ WriteAndReturn([cr EXCEPT !.phase = "Provisioning"], "soon")

SameStatus == ls.phase = result.phase /\ ls.serviceDNS = result.serviceDNS

AfterPhase == IF result.drop /= "" THEN "dropSnapshot" ELSE "rest"

\* Phase and DNS name are patched if the pass's copy has them otherwise.
PatchPhase ==
    /\ pc = "patchPhase" /\ ~SameStatus /\ cr.state /= "absent"
    /\ OperatorWrites([cr EXCEPT !.phase      = Merge(ls.phase, result.phase, cr.phase),
                                 !.serviceDNS = Merge(ls.serviceDNS, result.serviceDNS, cr.serviceDNS)])
    /\ pc' = AfterPhase
    /\ UNCHANGED <<cache, job, result, queued, timer, config, ttl, requests, faults, clusterVars>>

KeepPhase == pc = "patchPhase" /\ SameStatus /\ Proceed(AfterPhase) /\ UNCHANGED clusterVars

DropSnapshot ==
    pc = "dropSnapshot" /\ DeleteChild("VolumeSnapshot") /\ Proceed("clearSnapshotName")

ClearSnapshotName ==
    /\ pc = "clearSnapshotName" /\ cr.state /= "absent"
    /\ OperatorWrites([cr EXCEPT !.snapshotName = Merge(ls.snapshotName, "", cr.snapshotName)])
    /\ pc' = "rest"
    /\ UNCHANGED <<cache, job, result, queued, timer, config, ttl, requests, faults, clusterVars>>

\* (seeded fault) a session that is not Ready yet is left until its deadline
RestUntilExpiry ==
    /\ pc = "rest"
    /\ Return(UntilExpiry(ls)) /\ UNCHANGED faults

\* The end of a converging pass: poll until Ready, then rest till the deadline.
Rest ==
    /\ pc = "rest"
    /\ Return(IF result.phase = "Ready" THEN UntilExpiry(ls) ELSE "soon") /\ UNCHANGED faults

-----------------------------------------------------------------------------
(* The lab server's writes: a read of the resource, then a merge patch of one *)
(* field.  Each is refused if the resource is not there; a patch that changes *)
(* nothing is not an event.                                                   *)

Request(new) ==
    /\ requests < MaxRequests /\ cr.state /= "absent"
    /\ requests' = requests + 1
    /\ cr' = new /\ fresh' = {}
    /\ UNCHANGED <<cache, ls, job, pc, result, queued, timer, config, ttl, faults, clusterVars>>

Expire == Request([cr EXCEPT !.expiresAt = "now"])
Pause  == ~cr.paused /\ Request([cr EXCEPT !.paused = TRUE])
Resume == cr.paused /\ Request([cr EXCEPT !.paused = FALSE])

\* A hard delete waits for the finalizers, if there are any.
Delete ==
    /\ cr.state = "live"
    /\ Request([cr EXCEPT !.state = IF cr.finalizers = {} THEN "absent" ELSE "deleting"])

\* Changes a part of the status no pass reads: only the version is new.
MarkStepComplete == Request(cr)

-----------------------------------------------------------------------------
(* Faults, time, the cluster and the student *)

Faulty == faults < MaxFaults /\ faults' = faults + 1

\* The pending call returns an error and the pass gives up (a failed
\* DeleteSnapshot after a resume asks for another pass instead: same effect).
CallFails ==
    /\ pc \in MayFail
    /\ Faulty
    /\ Return("soon")

\* ttyd is up but does not answer within the probe's timeout.
ProbeFails == ProbeAnswers /\ "observe" \in MayFail /\ ObserveWith(FALSE) /\ Faulty

VmCrashes ==
    /\ VmFails /\ Faulty
    /\ UNCHANGED <<cr, operatorVars, ttl, requests>>

\* The operator is restarted, maybe with another configuration: the pass is
\* lost, the informer lists the resource and enqueues it.
Restart ==
    /\ Faulty
    /\ cache' = cr /\ fresh' = {"cache"} /\ ls' = Absent
    /\ job' = "none" /\ pc' = "idle" /\ result' = NoResult
    /\ queued' = (cr.state /= "absent")
    /\ timer' = "none"
    /\ config' \in Configs
    /\ UNCHANGED <<cr, ttl, requests, clusterVars>>

TtlPasses ==
    /\ ttl = "ahead" /\ ttl' = "passed"
    /\ UNCHANGED <<cr, operatorVars, requests, faults, clusterVars>>

ClusterStep == Cluster /\ UNCHANGED <<cr, operatorVars, ttl, requests, faults>>

GarbageStep ==
    /\ cr.state = "absent"
    /\ \E k \in Kinds : CollectGarbage(k)
    /\ UNCHANGED <<cr, operatorVars, ttl, requests, faults>>

\* The student reaches the VM through the server's proxy, which needs the DNS
\* name on a session it reports as ready.
Study ==
    /\ cr.state /= "absent" /\ cr.phase = "Ready" /\ cr.serviceDNS /= ""
    /\ DoWork
    /\ UNCHANGED <<cr, operatorVars, ttl, requests, faults>>

-----------------------------------------------------------------------------

StartPass ==
    \/ StartFinalize \/ StartAdopt \/ StartExpire \/ StartSuspend \/ StartPark
    \/ StartUnpark \/ StartConverge \/ StartUnresolved \/ NothingToDo

Teardown ==
    DeleteVMI \/ DeleteNetworkPolicy \/ DeleteService \/ DeleteDataVolume \/ DeleteSnapshot

Provision ==
    \/ EnsureDisk \/ EnsureSecret \/ EnsureMachine \/ EnsureService \/ EnsureNetworkPolicy
    \/ Observe \/ PatchPhase \/ KeepPhase \/ DropSnapshot \/ ClearSnapshotName \/ Rest

Suspension ==
    \/ TakeSnapshot \/ PatchSnapshotName \/ SnapshotIsReady \/ SnapshotNotReady
    \/ PatchPaused \/ PatchResumed

Bookkeeping == AddFinalizer \/ RemoveFinalizer \/ Conflict \/ PatchExpired

Operator == StartPass \/ Teardown \/ Provision \/ Suspension \/ Bookkeeping

Server == Expire \/ Pause \/ Resume \/ Delete \/ MarkStepComplete

Faults == CallFails \/ ProbeFails \/ VmCrashes \/ Restart

Next ==
    \/ Operator \/ Server \/ Faults \/ Study
    \/ Watch \/ TimerFires \/ Resync \/ TtlPasses \/ ClusterStep \/ GarbageStep

Spec == Init /\ [][Next]_vars
=============================================================================
