-------------------------- MODULE ReconcilerProofs --------------------------
(***************************************************************************)
(* Proofs that the Lab Operator, beside the lab server, the cluster and    *)
(* every fault of the model, keeps its typing, Released, FinalizerFirst    *)
(* and the promise of SessionLifecycle, for all values of the constants,   *)
(* that a Paused session which expires leaves no snapshot behind, and that *)
(* the work of an unhurried student survives pauses and resumes.           *)
(***************************************************************************)
EXTENDS ReconcilerInvariant, TLAPS

-----------------------------------------------------------------------------
(* Typing *)

\* The zero values are values of their kinds.
LEMMA ZeroValues == Created \in Sessions /\ Absent \in Sessions /\ NoResult \in Results
  BY DEF Created, Absent, Sessions, NoResult, Results, Phases, Finalizer

\* The fields of a resource have their types.
LEMMA FieldTypes ==
  ASSUME NEW c \in Sessions
  PROVE  /\ c.phase \in Phases
         /\ c.serviceDNS \in {"", "dns"}
         /\ c.snapshotName \in {"", "snap"}
         /\ c.state \in {"absent", "live", "deleting"}
         /\ c.finalizers \subseteq {Finalizer}
         /\ c.expiresAt \in {"ttl", "now"}
  BY DEF Sessions

\* A merged field has the new value or the current one.
LEMMA MergeTypes ==
  ASSUME NEW S, NEW old, NEW new \in S, NEW current \in S
  PROVE  Merge(old, new, current) \in S
  BY DEF Merge

\* Provider calls keep the types of the cluster's state.
LEMMA ProviderTypes ==
  ASSUME ClusterTypeOK, NEW k \in Kinds, NEW n,
         \/ DeleteChild(k) \/ EnsurePlain(k) \/ EnsureVMI \/ EnsureDataVolume(n) \/ CreateSnapshot
  PROVE  ClusterTypeOK'
<1>1. CASE DeleteChild(k)
  BY <1>1 DEF DeleteChild, Orphaned, ClusterTypeOK
<1>2. CASE EnsurePlain(k)
  BY <1>2 DEF EnsurePlain, ClusterTypeOK
<1>3. CASE EnsureVMI
  BY <1>3 DEF EnsureVMI, ClusterTypeOK
<1>4. CASE EnsureDataVolume(n)
  BY <1>4 DEF EnsureDataVolume, ClusterTypeOK
<1>5. CASE CreateSnapshot
  BY <1>5 DEF CreateSnapshot, ClusterTypeOK
<1> QED
  BY <1>1, <1>2, <1>3, <1>4, <1>5

\* The cluster and the student keep them too.
LEMMA ClusterTypes ==
  ASSUME ClusterTypeOK, Cluster \/ VmFails \/ DoWork
  PROVE  ClusterTypeOK'
<1>1. CASE Populate
  BY <1>1, MaxWorkAssumption DEF Populate, ClusterTypeOK
<1>2. CASE Boot
  BY <1>2 DEF Boot, ClusterTypeOK
<1>3. CASE CutSnapshot
  BY <1>3 DEF CutSnapshot, ClusterTypeOK
<1>4. CASE ReclaimDisk
  BY <1>4, MaxWorkAssumption DEF ReclaimDisk, ClusterTypeOK
<1>5. CASE \E k \in Lingers : ChildGone(k)
  BY <1>5, LingersAssumption DEF ChildGone, Orphaned, ClusterTypeOK
<1>6. CASE VmFails
  BY <1>6 DEF VmFails, ClusterTypeOK
<1>7. CASE DoWork
  BY <1>7, MaxWorkAssumption DEF DoWork, ClusterTypeOK
<1> QED
  BY <1>1, <1>2, <1>3, <1>4, <1>5, <1>6, <1>7 DEF Cluster

\* Frame lemmas: steps that end a pass, and steps that only move it on.
LEMMA EndPassTypes ==
  ASSUME TypeOK, NEW when \in {"none", "soon", "expiry"}, EndPass(when),
         cr' \in Sessions, fresh' \subseteq {"cache", "ls"}, faults' \in 0..MaxFaults
  PROVE  TypeOK'
<1>1. ClusterTypeOK'
  BY DEF TypeOK, EndPass, ClusterTypeOK, clusterVars
<1> QED
  BY <1>1, ZeroValues DEF TypeOK, EndPass, Rearm, Jobs, Steps

\* A provider call followed by Proceed leaves the rest of the state well typed.
LEMMA ProceedTypes ==
  ASSUME TypeOK, NEW next \in Steps, Proceed(next), ClusterTypeOK'
  PROVE  TypeOK'
  BY DEF TypeOK, Proceed

\* A running pass's writes.
LEMMA WriteTypes ==
  ASSUME TypeOK, NEW new \in Sessions, NEW next \in Steps, OperatorWrites(new), pc' = next,
         UNCHANGED <<cache, job, result, queued, timer, config, ttl, requests, faults, clusterVars>>
  PROVE  TypeOK'
<1>1. ClusterTypeOK'
  BY DEF TypeOK, ClusterTypeOK, clusterVars
<1> QED
  BY <1>1 DEF TypeOK, OperatorWrites, StillCurrent

\* The state right after Manager.Create is well typed.
LEMMA InitTypeOK == Init => TypeOK
<1> SUFFICES ASSUME Init PROVE TypeOK
  OBVIOUS
<1>1. ClusterTypeOK
  BY MaxWorkAssumption DEF Init, ClusterInit, ClusterTypeOK
<1>2. requests \in 0..MaxRequests /\ faults \in 0..MaxFaults
  BY BoundsAssumption DEF Init
<1>3. queued \in BOOLEAN
  BY DEF Init
<1> QED
  BY <1>1, <1>2, <1>3, ZeroValues DEF Init, TypeOK, Jobs, Steps

\* Every step of operator, server, cluster and faults keeps the types.
LEMMA StepTypeOK == TypeOK /\ [Next]_vars => TypeOK'
<1> SUFFICES ASSUME TypeOK, [Next]_vars PROVE TypeOK'
  OBVIOUS
<1>c. UNCHANGED clusterVars => ClusterTypeOK'
  BY DEF TypeOK, ClusterTypeOK, clusterVars
<1>k. {"VMI", "NetworkPolicy", "Service", "DataVolume", "Secret", "VolumeSnapshot"} = Kinds
  BY DEF Kinds, Owned, Infrastructure, Compute
<1>1. CASE UNCHANGED vars
  BY <1>1, <1>c DEF TypeOK, vars, operatorVars
<1>2. CASE StartPass
  <2>1. ASSUME NEW j \in Jobs, NEW step \in Steps, Start(j, step) PROVE TypeOK'
    BY <1>c, <2>1 DEF TypeOK, Start
  <2>2. CASE StartUnresolved
    <3>1. result' \in Results
      BY <2>2 DEF StartUnresolved, NoResult, Results, Phases
    <3> QED
      BY <1>c, <2>2, <3>1 DEF TypeOK, StartUnresolved, Jobs, Steps
  <2>3. CASE NothingToDo
    BY <1>c, <2>3 DEF TypeOK, NothingToDo
  <2> QED
    BY <1>2, <2>1, <2>2, <2>3
    DEF StartPass, StartFinalize, StartAdopt, StartExpire, StartSuspend, StartPark, StartUnpark,
        StartConverge, Jobs, Steps, DeleteSteps, EnsureSteps
<1>3. CASE Teardown \/ TakeSnapshot \/ DropSnapshot
  <2>1. ClusterTypeOK'
    BY <1>3, <1>k, ProviderTypes
    DEF TypeOK, Teardown, DeleteVMI, DeleteNetworkPolicy, DeleteService, DeleteDataVolume,
        DeleteSnapshot, TakeSnapshot, DropSnapshot
  <2>2. \E next \in Steps : Proceed(next)
    BY <1>3
    DEF Teardown, DeleteVMI, DeleteNetworkPolicy, DeleteService, DeleteDataVolume, DeleteSnapshot,
        TakeSnapshot, DropSnapshot, AfterTeardown, Steps, DeleteSteps
  <2> QED
    BY <2>1, <2>2, ProceedTypes
<1>4. CASE EnsureDisk \/ EnsureSecret \/ EnsureMachine \/ EnsureService \/ EnsureNetworkPolicy
  <2>1. ClusterTypeOK'
    BY <1>4, <1>k, ProviderTypes
    DEF TypeOK, EnsureDisk, EnsureSecret, EnsureMachine, EnsureService, EnsureNetworkPolicy
  <2>2. \E next \in Steps : Proceed(next)
    BY <1>4
    DEF EnsureDisk, EnsureSecret, EnsureMachine, EnsureService, EnsureNetworkPolicy, Steps, EnsureSteps
  <2> QED
    BY <2>1, <2>2, ProceedTypes
<1>5. CASE KeepPhase \/ SnapshotIsReady
  <2>1. \E next \in Steps : Proceed(next)
    BY <1>5 DEF KeepPhase, SnapshotIsReady, AfterPhase, Steps, DeleteSteps
  <2> QED
    BY <1>5, <1>c, <2>1, ProceedTypes DEF KeepPhase, SnapshotIsReady
<1>6. CASE Observe \/ ProbeFails
  <2>1. result' \in Results
    <3>1. ls.snapshotName \in {"", "snap"}
      BY FieldTypes DEF TypeOK
    <3>2. ObservedPhase \in Phases /\ "Ready" \in Phases
      BY DEF ObservedPhase, Phases
    <3>3. \E p \in Phases, d \in {"", "dns"}, n \in {"", "snap"} :
            result' = [phase |-> p, serviceDNS |-> d, drop |-> n]
      BY <1>6, <3>1, <3>2 DEF Observe, ProbeFails, ObserveWith
    <3>4. PICK p \in Phases, d \in {"", "dns"}, n \in {"", "snap"} :
            result' = [phase |-> p, serviceDNS |-> d, drop |-> n]
      BY <3>3
    <3>5. [phase |-> p, serviceDNS |-> d, drop |-> n] \in Results
      BY DEF Results
    <3> QED
      BY <3>4, <3>5
  <2>2. faults' \in 0..MaxFaults
    <3>1. faults' = faults \/ (faults < MaxFaults /\ faults' = faults + 1)
      BY <1>6 DEF Observe, ProbeFails, Faulty
    <3> QED
      BY <3>1, BoundsAssumption DEF TypeOK
  <2> QED
    BY <1>6, <1>c, <2>1, <2>2 DEF TypeOK, Observe, ProbeFails, ObserveWith, Steps
<1>7. CASE PatchPhase \/ ClearSnapshotName
  <2>1. CASE PatchPhase
    <3> DEFINE new == [cr EXCEPT !.phase      = Merge(ls.phase, result.phase, cr.phase),
                                 !.serviceDNS = Merge(ls.serviceDNS, result.serviceDNS, cr.serviceDNS)]
    <3>1. new \in Sessions
      BY DEF TypeOK, Sessions, Results, Merge
    <3> QED
      BY <2>1, <3>1, WriteTypes DEF PatchPhase, AfterPhase, Steps
  <2>2. CASE ClearSnapshotName
    <3> DEFINE new == [cr EXCEPT !.snapshotName = Merge(ls.snapshotName, "", cr.snapshotName)]
    <3>1. new \in Sessions
      BY DEF TypeOK, Sessions, Merge
    <3> QED
      BY <2>2, <3>1, WriteTypes DEF ClearSnapshotName, Steps
  <2> QED
    BY <1>7, <2>1, <2>2
<1>8. CASE Rest \/ SnapshotNotReady \/ Conflict \/ CallFails
  <2>1. \E when \in {"none", "soon", "expiry"} : Return(when)
    BY <1>8 DEF Rest, SnapshotNotReady, Conflict, CallFails, UntilExpiry
  <2>2. faults' \in 0..MaxFaults
    BY <1>8, BoundsAssumption
    DEF TypeOK, Rest, SnapshotNotReady, Conflict, CallFails, Faulty
  <2> QED
    BY <2>1, <2>2, EndPassTypes DEF TypeOK, Return
<1>9. CASE AddFinalizer \/ RemoveFinalizer \/ PatchExpired \/ PatchSnapshotName \/ PatchPaused \/ PatchResumed
  <2>1. ASSUME NEW new \in Sessions, NEW when \in {"none", "soon", "expiry"}, WriteAndReturn(new, when)
        PROVE  TypeOK'
    BY <2>1, EndPassTypes DEF TypeOK, WriteAndReturn, StillCurrent
  <2>2. CASE AddFinalizer
    <3>1. [cr EXCEPT !.finalizers = @ \cup {Finalizer}] \in Sessions
      BY DEF TypeOK, Sessions
    <3> QED
      BY <2>1, <2>2, <3>1 DEF AddFinalizer
  <2>3. CASE RemoveFinalizer
    <3>1. [cr EXCEPT !.finalizers = @ \ {Finalizer}, !.state = "absent"] \in Sessions
      BY DEF TypeOK, Sessions
    <3> QED
      BY <2>1, <2>3, <3>1 DEF RemoveFinalizer
  <2>4. CASE PatchExpired
    <3>1. [cr EXCEPT !.phase        = "Expired",
                     !.snapshotName = Merge(ls.snapshotName, "", cr.snapshotName)] \in Sessions
      <4> DEFINE name == Merge(ls.snapshotName, "", cr.snapshotName)
      <4>0. ls.snapshotName \in {"", "snap"} /\ cr.snapshotName \in {"", "snap"}
        BY DEF TypeOK, Sessions
      <4>1. name \in {"", "snap"} /\ "Expired" \in Phases
        BY <4>0, MergeTypes DEF Phases
      <4> HIDE DEF name
      <4>2. [cr EXCEPT !.phase = "Expired", !.snapshotName = name] \in Sessions
        BY <4>1 DEF TypeOK, Sessions
      <4> QED
        BY <4>2 DEF name
    <3> QED
      BY <2>1, <2>4, <3>1 DEF PatchExpired
  <2>5. CASE PatchSnapshotName
    <3>1. [cr EXCEPT !.snapshotName = "snap",
                     !.serviceDNS   = Merge(ls.serviceDNS, "", cr.serviceDNS)] \in Sessions
      BY DEF TypeOK, Sessions, Merge
    <3> QED
      BY <2>1, <2>5, <3>1 DEF PatchSnapshotName
  <2>6. CASE PatchPaused \/ PatchResumed
    <3>1. /\ [cr EXCEPT !.phase = "Paused"] \in Sessions
          /\ [cr EXCEPT !.phase = "Provisioning"] \in Sessions
      BY DEF TypeOK, Sessions, Phases
    <3> QED
      BY <2>1, <2>6, <3>1 DEF PatchPaused, PatchResumed
  <2> QED
    BY <1>9, <2>2, <2>3, <2>4, <2>5, <2>6
<1>10. CASE Server
  <2>1. ASSUME NEW new \in Sessions, Request(new) PROVE TypeOK'
    BY <1>c, <2>1, BoundsAssumption DEF TypeOK, Request
  <2>2. CASE Expire \/ MarkStepComplete
    <3>1. cr \in Sessions /\ [cr EXCEPT !.expiresAt = "now"] \in Sessions
      BY DEF TypeOK, Sessions
    <3> QED
      BY <2>1, <2>2, <3>1 DEF Expire, MarkStepComplete
  <2>3. CASE Pause \/ Resume
    <3>1. [cr EXCEPT !.paused = TRUE] \in Sessions /\ [cr EXCEPT !.paused = FALSE] \in Sessions
      BY DEF TypeOK, Sessions
    <3> QED
      BY <2>1, <2>3, <3>1 DEF Pause, Resume
  <2>4. CASE Delete
    <3>1. [cr EXCEPT !.state = IF cr.finalizers = {} THEN "absent" ELSE "deleting"] \in Sessions
      BY DEF TypeOK, Sessions
    <3> QED
      BY <2>1, <2>4, <3>1 DEF Delete
  <2> QED
    BY <1>10, <2>2, <2>3, <2>4 DEF Server
<1>11. CASE Restart
  <2>1. queued' \in BOOLEAN
    BY <1>11 DEF Restart
  <2>2. faults' \in 0..MaxFaults
    BY <1>11, BoundsAssumption DEF TypeOK, Restart, Faulty
  <2>3. /\ cr' \in Sessions /\ cache' \in Sessions /\ ls' \in Sessions
        /\ fresh' \subseteq {"cache", "ls"} /\ result' \in Results
    BY <1>11, ZeroValues DEF TypeOK, Restart
  <2> QED
    BY <1>c, <1>11, <2>1, <2>2, <2>3 DEF TypeOK, Restart, Jobs, Steps
<1>12. CASE Watch \/ TimerFires \/ Resync \/ TtlPasses
  BY <1>c, <1>12 DEF TypeOK, Watch, TimerFires, Resync, TtlPasses, operatorVars
<1>13. CASE ClusterStep \/ GarbageStep \/ Study \/ VmCrashes
  <2>1. ClusterTypeOK'
    BY <1>13, ClusterTypes, ProviderTypes
    DEF TypeOK, ClusterStep, GarbageStep, CollectGarbage, Study, VmCrashes
  <2>2. faults' \in 0..MaxFaults
    <3>1. faults' = faults \/ (faults < MaxFaults /\ faults' = faults + 1)
      BY <1>13 DEF ClusterStep, GarbageStep, Study, VmCrashes, Faulty
    <3> QED
      BY <3>1, BoundsAssumption DEF TypeOK
  <2> QED
    BY <1>13, <2>1, <2>2 DEF TypeOK, ClusterStep, GarbageStep, Study, VmCrashes, operatorVars
<1> QED
  BY <1>1, <1>2, <1>3, <1>4, <1>5, <1>6, <1>7, <1>8, <1>9, <1>10, <1>11, <1>12, <1>13
  DEF Next, Operator, Provision, Suspension, Bookkeeping, Faults

\* Every reachable state is well typed, for all values of the constants.
THEOREM TypeCorrect == Spec => []TypeOK
  BY InitTypeOK, StepTypeOK, PTL DEF Spec

-----------------------------------------------------------------------------
(* The inductive invariant *)

\* The part of IInv beyond typing.
Core ==
    /\ JobAtStep
    /\ CacheIsOld
    /\ ExpiryWasSeen
    /\ JobStillHolds
    /\ TornDownSoFar
    /\ Released
    /\ FinalizerFirst

\* No object appears, in this step.
Shrinks ==
    \A k \in Kinds : /\ child'[k] = "present" => child[k] = "present"
                     /\ child'[k] /= "absent" => child[k] /= "absent"

\* A deletion removes its object from the present ones, and nothing appears.
LEMMA DeletionShrinks ==
  ASSUME ClusterTypeOK, NEW k \in Kinds, DeleteChild(k)
  PROVE  Shrinks /\ child'[k] /= "present"
  BY DEF ClusterTypeOK, DeleteChild, Shrinks

\* Nothing the cluster or the student does creates an object.
LEMMA ClusterShrinks ==
  ASSUME ClusterTypeOK, Cluster \/ VmFails \/ DoWork
  PROVE  Shrinks
  BY DEF ClusterTypeOK, Cluster, Populate, Boot, CutSnapshot, ReclaimDisk, ChildGone, VmFails,
         DoWork, Shrinks

\* The kinds of objects, one by one.
LEMMA KindsEnumerated ==
  /\ Kinds = {"VMI", "NetworkPolicy", "Service", "DataVolume", "Secret", "VolumeSnapshot"}
  /\ Infrastructure = {"VMI", "NetworkPolicy", "Service", "DataVolume"}
  BY DEF Kinds, Owned, Infrastructure, Compute

\* Frame lemma: steps that leave the resource and the pass alone and create nothing.
LEMMA CoreUnderShrinking ==
  ASSUME Core, Shrinks, UNCHANGED <<cr, cache, job, pc, result, ttl>>
  PROVE  Core'
<1>1. JobAtStep' /\ CacheIsOld' /\ ExpiryWasSeen' /\ JobStillHolds'
  BY DEF Core, JobAtStep, CacheIsOld, ExpiryWasSeen, JobStillHolds, Adopted, Due
<1>2. TornDownSoFar'
  BY KindsEnumerated DEF Core, TornDownSoFar, Shrinks
<1>3. Released' /\ FinalizerFirst'
  BY KindsEnumerated DEF Core, Released, FinalizerFirst, Gone, Exists, Shrinks
<1> QED
  BY <1>1, <1>2, <1>3 DEF Core

\* Frame lemma: a pass that ends without writing.
LEMMA CoreAtReturn ==
  ASSUME Core, job' = "none", pc' = "idle", result' = NoResult,
         UNCHANGED <<cr, cache, ttl, child>>
  PROVE  Core'
<1>1. JobAtStep' /\ CacheIsOld' /\ ExpiryWasSeen' /\ JobStillHolds'
  BY DEF Core, JobAtStep, CacheIsOld, ExpiryWasSeen, JobStillHolds, Adopted, Due, NoResult,
         AliveJobs, EnsureSteps
<1>2. TornDownSoFar' /\ Released' /\ FinalizerFirst'
  BY DEF Core, TornDownSoFar, Released, FinalizerFirst, Gone, Exists
<1> QED
  BY <1>1, <1>2 DEF Core

\* Frame lemma: a pass that starts on a job its cached copy justifies.
LEMMA CoreAtStart ==
  ASSUME Core, NEW j \in Jobs, NEW step \in Steps,
         \/ j = "adopt" /\ step = "addFinalizer"
         \/ j = "finalize" /\ step = "deleteVMI" /\ Deleting(cache)
         \/ j = "expire" /\ step = "deleteVMI" /\ Due(cache)
         \/ j = "suspend" /\ step = "deleteVMI" /\ Active(cache)
         \/ j = "park" /\ step = "awaitSnapshot" /\ Active(cache)
         \/ j = "unpark" /\ step = "patchResumed" /\ Active(cache)
         \/ j = "converge" /\ step \in {"ensureDataVolume", "patchPhase"} /\ Active(cache),
         job' = j, pc' = step, result'.phase /= "Expired",
         UNCHANGED <<cr, cache, ttl, child>>
  PROVE  Core'
<1>1. JobAtStep'
  BY DEF JobAtStep, TeardownJobs, EnsureSteps
<1>2. CacheIsOld'
  BY DEF Core, CacheIsOld, Adopted
<1>3. ExpiryWasSeen'
  BY DEF Core, ExpiryWasSeen, Due
<1>4. JobStillHolds'
  BY DEF Core, ExpiryWasSeen, CacheIsOld, JobStillHolds, AliveJobs, Active, Adopted, Deleting, Due
<1>5. TornDownSoFar' /\ Released' /\ FinalizerFirst'
  BY DEF Core, TornDownSoFar, Released, FinalizerFirst, Gone, Exists
<1> QED
  BY <1>1, <1>2, <1>3, <1>4, <1>5 DEF Core

\* Frame lemma: a pass that treats the session as alive moves on or ends, with
\* new objects or without, with a new phase or without.
LEMMA CoreWhileAlive ==
  ASSUME Core, job \in AliveJobs, job' \in {job, "none"}, JobAtStep',
         pc' \notin {"patchExpired", "removeFinalizer", "deleteSnapshot"},
         result'.phase /= "Expired", cr'.phase /= "Expired",
         cr'.state = cr.state, cr'.finalizers = cr.finalizers, cr'.expiresAt = cr.expiresAt,
         UNCHANGED <<cache, ttl>>
  PROVE  Core'
<1>1. CacheIsOld' /\ ExpiryWasSeen' /\ JobStillHolds'
  BY DEF Core, CacheIsOld, ExpiryWasSeen, JobStillHolds, AliveJobs, Adopted, Due
<1>2. TornDownSoFar' /\ Released' /\ FinalizerFirst'
  BY DEF Core, JobStillHolds, TornDownSoFar, TeardownJobs, AliveJobs, Released, FinalizerFirst, Gone
<1> QED
  BY <1>1, <1>2 DEF Core

\* Frame lemma: a teardown advances by one deletion.
LEMMA CoreInTeardown ==
  ASSUME TypeOK, Core, job \in TeardownJobs, Teardown
  PROVE  Core'
<1>1. Shrinks /\ UNCHANGED <<cr, cache, job, result, ttl>>
  BY DeletionShrinks, KindsEnumerated
  DEF TypeOK, Teardown, DeleteVMI, DeleteNetworkPolicy, DeleteService, DeleteDataVolume,
      DeleteSnapshot, Proceed
<1>2. JobAtStep'
  BY DEF Core, JobAtStep, TeardownJobs, EnsureSteps, Teardown, DeleteVMI, DeleteNetworkPolicy,
         DeleteService, DeleteDataVolume, DeleteSnapshot, Proceed, AfterTeardown
<1>3. TornDownSoFar'
  <2>1. CASE DeleteVMI
    BY <1>1, <2>1, DeletionShrinks, KindsEnumerated DEF TypeOK, DeleteVMI, Proceed, TornDownSoFar
  <2>2. CASE DeleteNetworkPolicy
    BY <1>1, <2>2, DeletionShrinks, KindsEnumerated
    DEF TypeOK, Core, DeleteNetworkPolicy, Proceed, TornDownSoFar, Shrinks
  <2>3. CASE DeleteService
    BY <1>1, <2>3, DeletionShrinks, KindsEnumerated
    DEF TypeOK, Core, TeardownJobs, DeleteService, Proceed, TornDownSoFar, Shrinks
  <2>4. CASE DeleteDataVolume
    BY <1>1, <2>4, DeletionShrinks, KindsEnumerated
    DEF TypeOK, Core, TeardownJobs, DeleteDataVolume, AfterTeardown, Proceed, TornDownSoFar, Shrinks
  <2>5. CASE DeleteSnapshot
    BY <1>1, <2>5, KindsEnumerated
    DEF TypeOK, Core, TeardownJobs, DeleteSnapshot, AfterTeardown, Proceed, TornDownSoFar, Shrinks
  <2> QED
    BY <2>1, <2>2, <2>3, <2>4, <2>5 DEF Teardown
<1>4. CacheIsOld' /\ ExpiryWasSeen' /\ JobStillHolds'
  BY <1>1 DEF Core, CacheIsOld, ExpiryWasSeen, JobStillHolds, Adopted, Due
<1>5. Released' /\ FinalizerFirst'
  BY <1>1, KindsEnumerated DEF Core, Released, FinalizerFirst, Gone, Exists, Shrinks
<1> QED
  BY <1>2, <1>3, <1>4, <1>5 DEF Core

\* A session the operator has not seen satisfies the invariant.
LEMMA InitCore == Init => Core
<1> SUFFICES ASSUME Init PROVE Core
  OBVIOUS
<1>1. JobAtStep /\ CacheIsOld /\ ExpiryWasSeen /\ JobStillHolds /\ TornDownSoFar
  BY DEF Init, JobAtStep, EnsureSteps, CacheIsOld, ExpiryWasSeen, JobStillHolds, TornDownSoFar,
         Adopted, Due, Created, Absent, NoResult, AliveJobs, TeardownJobs
<1>2. Released /\ FinalizerFirst
  BY KindsEnumerated DEF Init, ClusterInit, Released, FinalizerFirst, Gone, Exists
<1> QED
  BY <1>1, <1>2 DEF Core

\* Every step keeps the invariant; one step per action of the operator.
LEMMA StepCore == TypeOK /\ Core /\ [Next]_vars => Core'
<1> SUFFICES ASSUME TypeOK, Core, [Next]_vars PROVE Core'
  OBVIOUS
<1>r. result.phase /= "Expired" /\ NoResult.phase /= "Expired"
  BY DEF Core, JobStillHolds, NoResult
<1>1. CASE UNCHANGED vars \/ TimerFires \/ Resync \/ NothingToDo
  <2>1. UNCHANGED <<cr, cache, job, pc, result, ttl, child>>
    BY <1>1 DEF vars, operatorVars, clusterVars, TimerFires, Resync, NothingToDo
  <2> QED
    BY <2>1, CoreUnderShrinking DEF Shrinks
<1>2. CASE StartPass
  <2>1. CASE StartFinalize
    BY <1>r, <2>1, CoreAtStart DEF StartFinalize, Start, clusterVars, Jobs, Steps, DeleteSteps
  <2>2. CASE StartAdopt
    BY <1>r, <2>2, CoreAtStart DEF StartAdopt, Start, clusterVars, Jobs, Steps
  <2>3. CASE StartExpire
    BY <1>r, <2>3, CoreAtStart DEF StartExpire, Start, clusterVars, Jobs, Steps, DeleteSteps
  <2>4. CASE StartSuspend \/ StartPark
    BY <1>r, <2>4, CoreAtStart
    DEF StartSuspend, StartPark, Pausing, Start, clusterVars, Jobs, Steps, DeleteSteps
  <2>5. CASE StartUnpark
    BY <1>r, <2>5, CoreAtStart DEF StartUnpark, Resuming, Start, clusterVars, Jobs, Steps
  <2>6. CASE StartConverge
    BY <1>r, <2>6, CoreAtStart
    DEF StartConverge, Running, Start, clusterVars, Jobs, Steps, EnsureSteps
  <2>7. CASE StartUnresolved
    BY <2>7, CoreAtStart
    DEF StartUnresolved, Running, NoResult, clusterVars, Jobs, Steps
  <2> QED
    BY <1>1, <1>2, <2>1, <2>2, <2>3, <2>4, <2>5, <2>6, <2>7 DEF StartPass
<1>3. CASE Teardown
  <2>1. CASE job \in TeardownJobs
    BY <1>3, <2>1, CoreInTeardown
  <2>2. CASE job \notin TeardownJobs
    <3>1. /\ job \in AliveJobs
          /\ JobAtStep'
          /\ pc' \notin {"patchExpired", "removeFinalizer", "deleteSnapshot"} \/ pc' = "deleteSnapshot"
      BY <1>3, <2>2
      DEF Core, JobAtStep, TeardownJobs, AliveJobs, EnsureSteps, Teardown, DeleteVMI,
          DeleteNetworkPolicy, DeleteService, DeleteDataVolume, DeleteSnapshot, Proceed
    <3> QED
      BY <1>r, <1>3, <2>2, <3>1, CoreWhileAlive
      DEF Core, JobAtStep, JobStillHolds, TeardownJobs, Teardown, DeleteVMI, DeleteNetworkPolicy,
          DeleteService, DeleteDataVolume, DeleteSnapshot, Proceed
  <2> QED
    BY <2>1, <2>2
<1>4. CASE \/ EnsureDisk \/ EnsureSecret \/ EnsureMachine \/ EnsureService \/ EnsureNetworkPolicy
           \/ TakeSnapshot \/ SnapshotIsReady \/ KeepPhase \/ DropSnapshot
  <2>1. job \in AliveJobs /\ job' = job /\ UNCHANGED <<cr, cache, ttl, result>>
    BY <1>4
    DEF Core, JobAtStep, AliveJobs, EnsureSteps, EnsureDisk, EnsureSecret, EnsureMachine,
        EnsureService, EnsureNetworkPolicy, TakeSnapshot, SnapshotIsReady, KeepPhase, DropSnapshot,
        Proceed
  <2>2. JobAtStep' /\ pc' \notin {"patchExpired", "removeFinalizer", "deleteSnapshot"}
    BY <1>4
    DEF Core, JobAtStep, EnsureSteps, EnsureDisk, EnsureSecret, EnsureMachine, EnsureService,
        EnsureNetworkPolicy, TakeSnapshot, SnapshotIsReady, KeepPhase, DropSnapshot, AfterPhase,
        TeardownJobs, Proceed
  <2> QED
    BY <1>r, <2>1, <2>2, CoreWhileAlive DEF Core, JobStillHolds
<1>5. CASE Observe \/ ProbeFails
  <2>1. job = "converge" /\ pc' = "patchPhase" /\ UNCHANGED <<cr, cache, ttl, job>>
    BY <1>5 DEF Core, JobAtStep, Observe, ProbeFails, ObserveWith
  <2>2. result'.phase /= "Expired"
    <3>1. ObservedPhase /= "Expired"
      BY DEF ObservedPhase
    <3>2. \E p, d, n : p /= "Expired" /\ result' = [phase |-> p, serviceDNS |-> d, drop |-> n]
      BY <1>5, <3>1 DEF Observe, ProbeFails, ObserveWith
    <3> QED
      BY <3>2
  <2>3. JobAtStep'
    BY <2>1 DEF JobAtStep, EnsureSteps
  <2> QED
    BY <2>1, <2>2, <2>3, CoreWhileAlive DEF Core, JobStillHolds, AliveJobs
<1>6. CASE PatchPhase \/ ClearSnapshotName
  <2>1. /\ job = "converge" /\ pc' \in {"dropSnapshot", "clearSnapshotName", "rest"}
        /\ UNCHANGED <<cache, ttl, job, result>>
    BY <1>6 DEF Core, JobAtStep, PatchPhase, ClearSnapshotName, AfterPhase
  <2>2. /\ cr'.state = cr.state /\ cr'.finalizers = cr.finalizers /\ cr'.expiresAt = cr.expiresAt
        /\ cr'.phase \in {cr.phase, result.phase}
    <3>1. CASE PatchPhase
      BY <3>1 DEF TypeOK, Sessions, PatchPhase, OperatorWrites, Merge
    <3>2. CASE ClearSnapshotName
      BY <3>2 DEF TypeOK, Sessions, ClearSnapshotName, OperatorWrites, Merge
    <3> QED
      BY <1>6, <3>1, <3>2
  <2>3. JobAtStep'
    BY <2>1 DEF JobAtStep, EnsureSteps
  <2> QED
    BY <1>r, <2>1, <2>2, <2>3, CoreWhileAlive DEF Core, JobStillHolds, AliveJobs
<1>7. CASE PatchSnapshotName \/ PatchPaused \/ PatchResumed
  <2>1. /\ job \in AliveJobs /\ job' = "none" /\ pc' = "idle" /\ result' = NoResult
        /\ UNCHANGED <<cache, ttl>>
    BY <1>7
    DEF Core, JobAtStep, AliveJobs, PatchSnapshotName, PatchPaused, PatchResumed, WriteAndReturn, EndPass
  <2>2. /\ cr'.state = cr.state /\ cr'.finalizers = cr.finalizers /\ cr'.expiresAt = cr.expiresAt
        /\ cr'.phase \in {cr.phase, "Paused", "Provisioning"}
    BY <1>7 DEF TypeOK, Sessions, PatchSnapshotName, PatchPaused, PatchResumed, WriteAndReturn
  <2>3. JobAtStep'
    BY <2>1 DEF JobAtStep, EnsureSteps
  <2> QED
    BY <1>r, <2>1, <2>2, <2>3, CoreWhileAlive DEF Core, JobStillHolds
<1>8. CASE Rest \/ SnapshotNotReady \/ Conflict \/ CallFails
  BY <1>8, CoreAtReturn
  DEF Rest, SnapshotNotReady, Conflict, CallFails, Return, EndPass, clusterVars
<1>9. CASE PatchExpired
  <2>1. /\ job = "expire" /\ job' = "none" /\ pc' = "idle" /\ result' = NoResult
        /\ UNCHANGED <<cache, ttl, child>>
    BY <1>9 DEF Core, JobAtStep, PatchExpired, WriteAndReturn, EndPass, clusterVars
  <2>2. cr'.state = cr.state /\ cr'.finalizers = cr.finalizers /\ cr'.expiresAt = cr.expiresAt
    BY <1>9 DEF TypeOK, Sessions, PatchExpired, WriteAndReturn
  <2>3. JobAtStep' /\ CacheIsOld' /\ ExpiryWasSeen' /\ JobStillHolds' /\ TornDownSoFar'
    BY <1>r, <2>1, <2>2
    DEF Core, JobAtStep, EnsureSteps, CacheIsOld, ExpiryWasSeen, JobStillHolds, TornDownSoFar,
        AliveJobs, Adopted, Due
  <2>4. Released'
    BY <1>9, <2>1, KindsEnumerated
    DEF Core, TornDownSoFar, TeardownJobs, PatchExpired, Released
  <2>5. FinalizerFirst'
    BY <2>1, <2>2 DEF Core, FinalizerFirst, Gone, Exists
  <2> QED
    BY <2>3, <2>4, <2>5 DEF Core
<1>10. CASE RemoveFinalizer
  <2>1. /\ job = "finalize" /\ job' = "none" /\ pc' = "idle" /\ result' = NoResult
        /\ UNCHANGED <<cache, ttl, child>>
    BY <1>10 DEF Core, JobAtStep, RemoveFinalizer, WriteAndReturn, EndPass, clusterVars
  <2>2. cr'.state = "absent" /\ cr'.expiresAt = cr.expiresAt /\ cr'.phase = cr.phase
    BY <1>10 DEF TypeOK, Sessions, RemoveFinalizer, WriteAndReturn
  <2>3. JobAtStep' /\ CacheIsOld' /\ ExpiryWasSeen' /\ JobStillHolds' /\ TornDownSoFar'
    BY <1>r, <2>1, <2>2
    DEF Core, JobAtStep, EnsureSteps, CacheIsOld, ExpiryWasSeen, JobStillHolds, TornDownSoFar,
        AliveJobs, Adopted, Due
  <2>4. Released'
    BY <1>10, <2>1, KindsEnumerated
    DEF Core, TornDownSoFar, TeardownJobs, RemoveFinalizer, Released
  <2>5. FinalizerFirst'
    BY <2>2 DEF FinalizerFirst, Gone
  <2> QED
    BY <2>3, <2>4, <2>5 DEF Core
<1>11. CASE AddFinalizer
  <2>1. /\ job' = "none" /\ pc' = "idle" /\ result' = NoResult
        /\ UNCHANGED <<cache, ttl, child>>
    BY <1>11 DEF AddFinalizer, WriteAndReturn, EndPass, clusterVars
  <2>2. /\ cr'.state = cr.state /\ cr'.expiresAt = cr.expiresAt /\ cr'.phase = cr.phase
        /\ Finalizer \in cr'.finalizers
    BY <1>11 DEF TypeOK, Sessions, AddFinalizer, WriteAndReturn
  <2>3. JobAtStep' /\ CacheIsOld' /\ ExpiryWasSeen' /\ JobStillHolds' /\ TornDownSoFar'
    BY <1>r, <2>1, <2>2
    DEF Core, JobAtStep, EnsureSteps, CacheIsOld, ExpiryWasSeen, JobStillHolds, TornDownSoFar,
        AliveJobs, Adopted, Due
  <2>4. Released' /\ FinalizerFirst'
    BY <2>1, <2>2 DEF Core, Released, FinalizerFirst, Gone
  <2> QED
    BY <2>3, <2>4 DEF Core
<1>12. CASE Server
  <2>1. UNCHANGED <<cache, job, pc, result, ttl, child>> /\ cr.state /= "absent"
    BY <1>12
    DEF Server, Expire, Pause, Resume, Delete, MarkStepComplete, Request, clusterVars
  <2>2. /\ cr'.finalizers = cr.finalizers /\ cr'.phase = cr.phase
        /\ cr.expiresAt = "now" => cr'.expiresAt = "now"
        /\ cr.state = "deleting" => cr'.state /= "live"
        /\ cr'.state = cr.state \/ cr'.state = "deleting" \/ (cr'.state = "absent" /\ cr.finalizers = {})
    BY <1>12
    DEF TypeOK, Sessions, Server, Expire, Pause, Resume, Delete, MarkStepComplete, Request
  <2>3. cr'.state = "absent" => Finalizer \notin cr.finalizers
    BY <2>1, <2>2
  <2>4. JobAtStep' /\ TornDownSoFar'
    BY <2>1 DEF Core, JobAtStep, TornDownSoFar
  <2>5. CacheIsOld' /\ ExpiryWasSeen' /\ JobStillHolds'
    BY <2>1, <2>2, <2>3, FieldTypes
    DEF TypeOK, Core, CacheIsOld, ExpiryWasSeen, JobStillHolds, Adopted, Due
  <2>6. FinalizerFirst'
    BY <2>1, <2>2 DEF Core, FinalizerFirst, Gone, Exists
  <2>7. Released'
    BY <2>1, <2>2, <2>3, KindsEnumerated DEF Core, Released, FinalizerFirst, Gone, Exists
  <2> QED
    BY <2>4, <2>5, <2>6, <2>7 DEF Core
<1>13. CASE Watch
  <2>1. cache' = cr /\ UNCHANGED <<cr, job, pc, result, ttl, child>>
    BY <1>13 DEF Watch, clusterVars
  <2>2. CacheIsOld' /\ ExpiryWasSeen' /\ JobStillHolds'
    BY <2>1, FieldTypes DEF TypeOK, Core, CacheIsOld, ExpiryWasSeen, JobStillHolds, Adopted, Due
  <2>3. JobAtStep' /\ TornDownSoFar' /\ Released' /\ FinalizerFirst'
    BY <2>1 DEF Core, JobAtStep, TornDownSoFar, Released, FinalizerFirst, Gone, Exists
  <2> QED
    BY <2>2, <2>3 DEF Core
<1>14. CASE TtlPasses
  <2>1. ttl' = "passed" /\ UNCHANGED <<cr, cache, job, pc, result, child>>
    BY <1>14 DEF TtlPasses, operatorVars, clusterVars
  <2>2. ExpiryWasSeen'
    BY <2>1 DEF ExpiryWasSeen, Due
  <2>3. JobAtStep' /\ CacheIsOld' /\ JobStillHolds' /\ TornDownSoFar' /\ Released' /\ FinalizerFirst'
    BY <2>1
    DEF Core, JobAtStep, CacheIsOld, JobStillHolds, TornDownSoFar, Released, FinalizerFirst, Gone,
        Exists, Adopted
  <2> QED
    BY <2>2, <2>3 DEF Core
<1>15. CASE Restart
  <2>1. /\ cache' = cr /\ job' = "none" /\ pc' = "idle" /\ result' = NoResult
        /\ UNCHANGED <<cr, ttl, child>>
    BY <1>15 DEF Restart, clusterVars
  <2>2. CacheIsOld' /\ ExpiryWasSeen' /\ JobStillHolds'
    BY <1>r, <2>1, FieldTypes
    DEF TypeOK, Core, CacheIsOld, ExpiryWasSeen, JobStillHolds, AliveJobs, Adopted, Due
  <2>3. JobAtStep' /\ TornDownSoFar' /\ Released' /\ FinalizerFirst'
    BY <2>1
    DEF Core, JobAtStep, EnsureSteps, TornDownSoFar, Released, FinalizerFirst, Gone, Exists
  <2> QED
    BY <2>2, <2>3 DEF Core
<1>16. CASE ClusterStep \/ GarbageStep \/ Study \/ VmCrashes
  <2>1. Shrinks
    BY <1>16, ClusterShrinks, DeletionShrinks
    DEF TypeOK, ClusterStep, GarbageStep, CollectGarbage, Study, VmCrashes
  <2> QED
    BY <1>16, <2>1, CoreUnderShrinking
    DEF ClusterStep, GarbageStep, Study, VmCrashes, operatorVars
<1> QED
  BY <1>1, <1>2, <1>3, <1>4, <1>5, <1>6, <1>7, <1>8, <1>9, <1>10, <1>11, <1>12, <1>13, <1>14,
     <1>15, <1>16
  DEF Next, Operator, Provision, Suspension, Bookkeeping, Faults

\* The invariant is inductive.
THEOREM Inductive == Spec => []IInv
<1>1. Init => IInv
  BY InitTypeOK, InitCore DEF IInv, Core
<1>2. IInv /\ [Next]_vars => IInv'
  BY StepTypeOK, StepCore DEF IInv, Core
<1> QED
  BY <1>1, <1>2, PTL DEF Spec

\* Infrastructure is gone for good once the session is Expired or deleted.
THEOREM SessionsAreReleased == Spec => []Released
  BY Inductive, PTL DEF IInv

\* Nothing exists before the finalizer that guards it.
THEOREM FinalizerGuards == Spec => []FinalizerFirst
  BY Inductive, PTL DEF IInv

-----------------------------------------------------------------------------
(* Refinement *)

\* The session as SessionLifecycle sees it.
Shown == IF Gone THEN "Gone" ELSE cr.phase
Deadline == IF Due(cr) THEN "passed" ELSE "ahead"
Held == {k \in Infrastructure : child[k] = "present"}

\* What creates no object acquires no infrastructure.
LEMMA ShrinkingHeld == Shrinks => Held' \subseteq Held
  BY KindsEnumerated DEF Held, Shrinks

\* A created session is an initial state of SessionLifecycle.
LEMMA InitRefines == Init => Abstract!Init
<1> SUFFICES ASSUME Init PROVE Abstract!Init
  OBVIOUS
<1>1. ~Gone /\ cr.phase = "" /\ ~Due(cr)
  BY DEF Init, Created, Gone, Due
<1>2. \A k \in Infrastructure : child[k] /= "present"
  BY KindsEnumerated DEF Init, ClusterInit
<1> QED
  BY <1>1, <1>2 DEF Abstract!Init

\* Its actions, in these terms.
LEMMA AbstractSteps ==
  /\ Held' \subseteq Held /\ Shown' = Shown /\ Deadline' = Deadline => Abstract!Release
  /\ Held \subseteq Held' /\ Shown' = Shown /\ Deadline' = Deadline /\ Shown \in Abstract!LivePhases
       => Abstract!Acquire
  /\ Held' = Held /\ Deadline' = Deadline /\ {Shown, Shown'} \subseteq Abstract!LivePhases
       => Abstract!Report
  /\ Held' = Held /\ Shown' = Shown /\ Deadline' = "passed" => Abstract!FallDue
  /\ Held = {} /\ Held' = Held /\ Deadline' = Deadline /\ Shown' = "Gone" => Abstract!Vanish
  /\ Held = {} /\ Held' = Held /\ Deadline' = Deadline /\ Shown' = "Expired"
       /\ Shown \in Abstract!LivePhases /\ Deadline = "passed" => Abstract!Expire
  BY DEF Held, Shown, Deadline, Abstract!Release, Abstract!Acquire, Abstract!Report,
         Abstract!FallDue, Abstract!Vanish, Abstract!Expire, Abstract!LivePhases, Abstract!Ended

\* A pass that treats the session as alive acquires, releases or reports.
LEMMA AliveRefines ==
  ASSUME TypeOK, Core, job \in AliveJobs, cr'.phase \in Phases \ {"Expired"},
         cr'.state = cr.state, cr'.expiresAt = cr.expiresAt, UNCHANGED ttl,
         \/ UNCHANGED child
         \/ UNCHANGED cr /\ (Held' \subseteq Held \/ Held \subseteq Held')
  PROVE  Abstract!Next
<1>1. Deadline' = Deadline
  BY DEF Deadline, Due
<1>2. {Shown, Shown'} \subseteq Abstract!LivePhases
  BY FieldTypes DEF TypeOK, Core, JobStillHolds, Shown, Gone, Phases, Abstract!LivePhases
<1>3. CASE UNCHANGED child
  BY <1>1, <1>2, <1>3, AbstractSteps DEF Held, Abstract!Next
<1>4. CASE UNCHANGED cr /\ (Held' \subseteq Held \/ Held \subseteq Held')
  BY <1>1, <1>2, <1>4, AbstractSteps DEF Shown, Gone, Abstract!Next
<1> QED
  BY <1>3, <1>4

\* Every step is a step of SessionLifecycle, or none.
LEMMA StepRefines ==
  TypeOK /\ Core /\ [Next]_vars => [Abstract!Next]_(Abstract!lifecycle)
<1> SUFFICES ASSUME TypeOK, Core, [Next]_vars
             PROVE  [Abstract!Next]_(Abstract!lifecycle)
  OBVIOUS
<1>b. ASSUME UNCHANGED <<cr, ttl>>, Shrinks
      PROVE  [Abstract!Next]_(Abstract!lifecycle)
  BY <1>b, ShrinkingHeld, AbstractSteps DEF Shown, Deadline, Gone, Due, Abstract!Next
<1>1. CASE UNCHANGED vars \/ Watch \/ TimerFires \/ Resync \/ StartPass \/ Observe \/ ProbeFails \/ KeepPhase
           \/ SnapshotIsReady \/ Restart
  <2>1. UNCHANGED <<cr, ttl, child>>
    BY <1>1
    DEF vars, clusterVars, Watch, TimerFires, Resync, StartPass, StartFinalize, StartAdopt,
        StartExpire, StartSuspend, StartPark, StartUnpark, StartConverge, Start, StartUnresolved,
        NothingToDo, Observe, ProbeFails, ObserveWith, KeepPhase, SnapshotIsReady, Proceed, Restart
  <2> QED
    BY <1>b, <2>1 DEF Shrinks
<1>2. CASE Rest \/ SnapshotNotReady \/ Conflict \/ CallFails
  <2>1. UNCHANGED <<cr, ttl, child>>
    BY <1>2
    DEF clusterVars, Rest, SnapshotNotReady, Conflict, CallFails, Return, EndPass
  <2> QED
    BY <1>b, <2>1 DEF Shrinks
<1>3. CASE Teardown \/ DropSnapshot
  BY <1>b, <1>3, DeletionShrinks, KindsEnumerated
  DEF TypeOK, Teardown, DeleteVMI, DeleteNetworkPolicy, DeleteService, DeleteDataVolume,
      DeleteSnapshot, DropSnapshot, Proceed
<1>4. CASE ClusterStep \/ GarbageStep \/ Study \/ VmCrashes
  BY <1>b, <1>4, ClusterShrinks, DeletionShrinks
  DEF TypeOK, ClusterStep, GarbageStep, CollectGarbage, Study, VmCrashes
<1>5. CASE \/ EnsureDisk \/ EnsureSecret \/ EnsureMachine \/ EnsureService \/ EnsureNetworkPolicy
           \/ TakeSnapshot
  <2>1. job \in AliveJobs /\ UNCHANGED <<cr, ttl>>
    BY <1>5
    DEF Core, JobAtStep, AliveJobs, EnsureSteps, EnsureDisk, EnsureSecret, EnsureMachine,
        EnsureService, EnsureNetworkPolicy, TakeSnapshot, Proceed
  <2>2. \A k \in Kinds : child[k] = "present" => child'[k] = "present"
    <3>1. CASE EnsureSecret \/ EnsureService \/ EnsureNetworkPolicy
      BY <3>1, KindsEnumerated
      DEF TypeOK, ClusterTypeOK, EnsureSecret, EnsureService, EnsureNetworkPolicy, EnsurePlain
    <3>2. CASE EnsureDisk
      BY <3>2 DEF TypeOK, ClusterTypeOK, EnsureDisk, EnsureDataVolume
    <3>3. CASE EnsureMachine
      BY <3>3 DEF TypeOK, ClusterTypeOK, EnsureMachine, EnsureVMI
    <3>4. CASE TakeSnapshot
      BY <3>4 DEF TypeOK, ClusterTypeOK, TakeSnapshot, CreateSnapshot
    <3> QED
      BY <1>5, <3>1, <3>2, <3>3, <3>4
  <2>3. Held \subseteq Held'
    BY <2>2, KindsEnumerated DEF Held
  <2>4. cr.phase \in Phases \ {"Expired"}
    BY <2>1, FieldTypes DEF TypeOK, Core, JobStillHolds
  <2> QED
    BY <2>1, <2>3, <2>4, AliveRefines
<1>6. CASE PatchPhase \/ ClearSnapshotName \/ PatchSnapshotName \/ PatchPaused \/ PatchResumed
  <2>1. job \in AliveJobs /\ UNCHANGED <<ttl, child>>
    BY <1>6
    DEF Core, JobAtStep, AliveJobs, clusterVars, PatchPhase, ClearSnapshotName, PatchSnapshotName,
        PatchPaused, PatchResumed, WriteAndReturn, EndPass
  <2>2. /\ cr'.state = cr.state /\ cr'.expiresAt = cr.expiresAt
        /\ cr'.phase \in {cr.phase, result.phase, "Paused", "Provisioning"}
    <3>1. CASE PatchPhase
      BY <3>1 DEF TypeOK, Sessions, PatchPhase, OperatorWrites, Merge
    <3>2. CASE ClearSnapshotName
      BY <3>2 DEF TypeOK, Sessions, ClearSnapshotName, OperatorWrites
    <3>3. CASE PatchSnapshotName \/ PatchPaused \/ PatchResumed
      BY <3>3 DEF TypeOK, Sessions, PatchSnapshotName, PatchPaused, PatchResumed, WriteAndReturn
    <3> QED
      BY <1>6, <3>1, <3>2, <3>3
  <2>3. {cr.phase, result.phase, "Paused", "Provisioning"} \subseteq Phases \ {"Expired"}
    BY <2>1, FieldTypes DEF TypeOK, Results, Core, JobStillHolds, Phases
  <2> QED
    BY <2>1, <2>2, <2>3, AliveRefines
<1>7. CASE PatchExpired
  <2>1. job = "expire" /\ UNCHANGED <<ttl, child>> /\ cr.state /= "absent"
    BY <1>7 DEF Core, JobAtStep, clusterVars, PatchExpired, WriteAndReturn, EndPass
  <2>2. cr'.state = cr.state /\ cr'.expiresAt = cr.expiresAt /\ cr'.phase = "Expired"
    BY <1>7 DEF TypeOK, Sessions, PatchExpired, WriteAndReturn
  <2>3. Held = {} /\ Held' = Held
    BY <1>7, <2>1, KindsEnumerated DEF Core, TornDownSoFar, TeardownJobs, PatchExpired, Held
  <2>4. Deadline = "passed" /\ Deadline' = Deadline
    BY <2>1, <2>2 DEF Core, ExpiryWasSeen, CacheIsOld, Deadline, Due
  <2>5. Shown' = "Expired" /\ Shown = cr.phase
    BY <2>1, <2>2 DEF Shown, Gone
  <2>6. CASE cr.phase = "Expired"
    BY <2>3, <2>4, <2>5, <2>6, AbstractSteps DEF Abstract!Next
  <2>7. CASE cr.phase /= "Expired"
    <3>1. Shown \in Abstract!LivePhases
      BY <2>5, <2>7, FieldTypes DEF TypeOK, Phases, Abstract!LivePhases
    <3> QED
      BY <2>3, <2>4, <2>5, <3>1, AbstractSteps DEF Abstract!Next
  <2> QED
    BY <2>6, <2>7
<1>8. CASE RemoveFinalizer
  <2>1. job = "finalize" /\ UNCHANGED <<ttl, child>>
    BY <1>8 DEF Core, JobAtStep, clusterVars, RemoveFinalizer, WriteAndReturn, EndPass
  <2>2. cr'.state = "absent" /\ cr'.expiresAt = cr.expiresAt
    BY <1>8 DEF TypeOK, Sessions, RemoveFinalizer, WriteAndReturn
  <2>3. Held = {} /\ Held' = Held
    BY <1>8, <2>1, KindsEnumerated DEF Core, TornDownSoFar, TeardownJobs, RemoveFinalizer, Held
  <2> QED
    BY <2>1, <2>2, <2>3, AbstractSteps DEF Shown, Gone, Deadline, Due, Abstract!Next
<1>9. CASE AddFinalizer
  <2>1. UNCHANGED <<ttl, child>>
    BY <1>9 DEF clusterVars, AddFinalizer, WriteAndReturn, EndPass
  <2>2. cr'.state = cr.state /\ cr'.expiresAt = cr.expiresAt /\ cr'.phase = cr.phase
    BY <1>9 DEF TypeOK, Sessions, AddFinalizer, WriteAndReturn
  <2> QED
    BY <2>1, <2>2, AbstractSteps DEF Held, Shown, Gone, Deadline, Due, Abstract!Next
<1>10. CASE Server
  <2>1. UNCHANGED <<ttl, child>> /\ cr.state /= "absent"
    BY <1>10 DEF Server, Expire, Pause, Resume, Delete, MarkStepComplete, Request, clusterVars
  <2>2. CASE Delete
    <3>1. cr'.phase = cr.phase /\ cr'.expiresAt = cr.expiresAt
      BY <2>2 DEF TypeOK, Sessions, Delete, Request
    <3>2. Deadline' = Deadline /\ Held' = Held
      BY <2>1, <3>1 DEF Deadline, Due, Held
    <3>3. CASE cr.finalizers = {}
      <4>1. Shown' = "Gone"
        BY <2>2, <3>3 DEF TypeOK, Sessions, Delete, Request, Shown, Gone
      <4>2. Held = {}
        BY <2>1, <3>3, KindsEnumerated DEF Core, FinalizerFirst, Gone, Exists, Held
      <4> QED
        BY <3>2, <4>1, <4>2, AbstractSteps DEF Abstract!Next
    <3>4. CASE cr.finalizers /= {}
      <4>1. cr'.state = "deleting"
        BY <2>2, <3>4 DEF TypeOK, Sessions, Delete, Request
      <4> QED
        BY <2>1, <3>1, <3>2, <4>1, AbstractSteps DEF Shown, Gone, Abstract!Next
    <3> QED
      BY <3>3, <3>4
  <2>3. CASE Expire
    <3>1. cr'.phase = cr.phase /\ cr'.expiresAt = "now" /\ cr'.state = cr.state
      BY <2>3 DEF TypeOK, Sessions, Expire, Request
    <3> QED
      BY <2>1, <3>1, AbstractSteps DEF Shown, Gone, Deadline, Due, Held, Abstract!Next
  <2>4. CASE Pause \/ Resume \/ MarkStepComplete
    <3>1. cr'.phase = cr.phase /\ cr'.expiresAt = cr.expiresAt /\ cr'.state = cr.state
      BY <2>4 DEF TypeOK, Sessions, Pause, Resume, MarkStepComplete, Request
    <3> QED
      BY <2>1, <3>1, AbstractSteps DEF Shown, Gone, Deadline, Due, Held, Abstract!Next
  <2> QED
    BY <1>10, <2>2, <2>3, <2>4 DEF Server
<1>11. CASE TtlPasses
  <2>1. ttl' = "passed" /\ UNCHANGED <<cr, child>>
    BY <1>11 DEF TtlPasses, clusterVars
  <2> QED
    BY <2>1, AbstractSteps DEF Shown, Gone, Deadline, Due, Held, Abstract!Next
<1> QED
  BY <1>1, <1>2, <1>3, <1>4, <1>5, <1>6, <1>7, <1>8, <1>9, <1>10, <1>11
  DEF Next, Operator, Provision, Suspension, Bookkeeping, Faults

\* The operator implements the abstract lifecycle: a session ends once, only
\* when due or deleted, and never while it holds infrastructure.
THEOREM OperatorKeepsPromise == Spec => KeepsPromise
<1>1. IInv /\ [Next]_vars => [Abstract!Next]_(Abstract!lifecycle)
  BY StepRefines DEF IInv, Core
<1> QED
  BY <1>1, InitRefines, Inductive, PTL DEF Spec, KeepsPromise, Abstract!Spec

-----------------------------------------------------------------------------
(* The snapshot of a Paused session *)

\* The two states of the record are told apart.
LEMMA RecordTypes ==
  ASSUME NEW c \in Sessions
  PROVE  (c.snapshotName = "" <=> ~OnRecord(c)) /\ (c.snapshotName /= "" <=> OnRecord(c))
  BY DEF Sessions, OnRecord

\* Deleting an object whose deletion takes no time removes it at once; deleting
\* another one leaves it alone.
LEMMA DeletedAtOnce ==
  ASSUME "VolumeSnapshot" \notin Lingers, ClusterTypeOK, NEW k \in Kinds, DeleteChild(k)
  PROVE  /\ k = "VolumeSnapshot" => child'["VolumeSnapshot"] = "absent"
         /\ k /= "VolumeSnapshot" => child'["VolumeSnapshot"] = child["VolumeSnapshot"]
  BY KindsEnumerated DEF ClusterTypeOK, DeleteChild

\* Nothing but the operator and the garbage collector touches the snapshot then.
LEMMA SnapshotAlone ==
  ASSUME "VolumeSnapshot" \notin Lingers, ClusterTypeOK, NEW n, NEW k \in {"Secret", "Service", "NetworkPolicy"},
         \/ Cluster \/ VmFails \/ DoWork \/ EnsurePlain(k) \/ EnsureVMI \/ EnsureDataVolume(n)
  PROVE  child'["VolumeSnapshot"] = child["VolumeSnapshot"]
  BY LingersAssumption, KindsEnumerated
  DEF ClusterTypeOK, Cluster, Populate, Boot, CutSnapshot, ReclaimDisk, ChildGone, VmFails, DoWork,
      EnsurePlain, EnsureVMI, EnsureDataVolume

\* A session the operator has not seen has no snapshot and none on record.
LEMMA InitSnapshot == Init => SnapshotInv
<1> SUFFICES ASSUME Init PROVE SnapshotInv
  OBVIOUS
<1>1. child["VolumeSnapshot"] = "absent"
  BY KindsEnumerated DEF Init, ClusterInit
<1>2. ~OnRecord(cache) /\ ~OnRecord(ls) /\ cr.phase /= "Paused"
  BY DEF Init, Absent, Created, OnRecord
<1> QED
  BY <1>1, <1>2
  DEF Init, NoResult, SnapshotInv, Taken, RecordKept, SuspendsUnrecorded, ParksOnRecord,
      PausedOnRecord, ClearedAfterDeletion

\* Frame lemma: steps that at most delete the snapshot and leave the resource's
\* phase and record, the cache and the pass alone.
LEMMA SnapshotFrame ==
  ASSUME SnapshotInv, child'["VolumeSnapshot"] \in {child["VolumeSnapshot"], "absent"},
         cr'.phase = cr.phase, cr'.snapshotName = cr.snapshotName,
         UNCHANGED <<cache, ls, job, pc, result>>
  PROVE  SnapshotInv'
<1>1. Taken' => Taken
  BY DEF Taken
<1>2. OnRecord(cr)' <=> OnRecord(cr)
  BY DEF OnRecord
<1> QED
  BY <1>1, <1>2
  DEF SnapshotInv, Taken, RecordKept, SuspendsUnrecorded, ParksOnRecord, PausedOnRecord,
      ClearedAfterDeletion, OnRecord

\* Frame lemma: a pass that ends, having cleared no record and not reported Paused.
LEMMA SnapshotAtReturn ==
  ASSUME SnapshotInv, job' = "none", pc' = "idle", result' = NoResult, ls' = Absent,
         OnRecord(cr) => OnRecord(cr'), cr'.phase \in {cr.phase, "Provisioning"},
         UNCHANGED <<cache, child>>
  PROVE  SnapshotInv'
<1>1. ~OnRecord(ls')
  BY DEF Absent, Created, OnRecord
<1> QED
  BY <1>1
  DEF SnapshotInv, NoResult, Taken, RecordKept, SuspendsUnrecorded, ParksOnRecord, PausedOnRecord,
      ClearedAfterDeletion, OnRecord

\* Frame lemma: a pass that starts from the cached copy.
LEMMA SnapshotAtStart ==
  ASSUME SnapshotInv, ls' = cache, result'.phase /= "Paused",
         pc' \notin {"patchExpired", "clearSnapshotName"},
         job' = "suspend" => ~OnRecord(cache) /\ cache.phase /= "Paused",
         job' = "park" => OnRecord(cache) /\ pc' = "awaitSnapshot",
         UNCHANGED <<cr, cache, child>>
  PROVE  SnapshotInv'
  BY DEF SnapshotInv, Taken, RecordKept, SuspendsUnrecorded, ParksOnRecord, PausedOnRecord,
         ClearedAfterDeletion, OnRecord

\* Frame lemma: a pass that makes a call which creates no snapshot.
LEMMA SnapshotMovesOn ==
  ASSUME SnapshotInv, child'["VolumeSnapshot"] \in {child["VolumeSnapshot"], "absent"},
         result'.phase /= "Paused",
         job = "park" /\ pc = "awaitSnapshot" => OnRecord(cr),
         pc' = "patchExpired" /\ OnRecord(ls) => child'["VolumeSnapshot"] /= "present",
         pc' = "clearSnapshotName" => child'["VolumeSnapshot"] /= "present",
         UNCHANGED <<cr, cache, ls, job>>
  PROVE  SnapshotInv'
  BY DEF SnapshotInv, Taken, RecordKept, SuspendsUnrecorded, ParksOnRecord, PausedOnRecord,
         ClearedAfterDeletion, OnRecord

\* Every step keeps the records in order, where deleting a snapshot takes no time.
LEMMA StepSnapshot ==
  ASSUME "VolumeSnapshot" \notin Lingers
  PROVE  IInv /\ SnapshotInv /\ [Next]_vars => SnapshotInv'
<1> SUFFICES ASSUME IInv, SnapshotInv, [Next]_vars PROVE SnapshotInv'
  OBVIOUS
<1>t. /\ TypeOK /\ ClusterTypeOK /\ JobAtStep
      /\ cr \in Sessions /\ cache \in Sessions /\ ls \in Sessions
  BY DEF IInv, TypeOK
<1>r. result.phase /= "Paused" /\ NoResult.phase /= "Paused"
  BY DEF SnapshotInv, NoResult
<1>1. CASE UNCHANGED vars \/ TimerFires \/ Resync \/ NothingToDo \/ TtlPasses
  BY <1>1, SnapshotFrame
  DEF vars, operatorVars, clusterVars, TimerFires, Resync, NothingToDo, TtlPasses
<1>2. CASE ClusterStep \/ Study \/ VmCrashes
  <2>1. child'["VolumeSnapshot"] = child["VolumeSnapshot"]
    BY <1>t, <1>2, SnapshotAlone DEF ClusterStep, Study, VmCrashes
  <2> QED
    BY <1>2, <2>1, SnapshotFrame DEF ClusterStep, Study, VmCrashes, operatorVars
<1>3. CASE GarbageStep
  <2>1. PICK k \in Kinds : DeleteChild(k)
    BY <1>3 DEF GarbageStep, CollectGarbage
  <2>2. child'["VolumeSnapshot"] \in {child["VolumeSnapshot"], "absent"}
    BY <1>t, <2>1, DeletedAtOnce
  <2> QED
    BY <1>3, <2>2, SnapshotFrame DEF GarbageStep, operatorVars
<1>4. CASE Server
  <2>1. /\ UNCHANGED <<cache, ls, job, pc, result, child>>
        /\ cr'.phase = cr.phase /\ cr'.snapshotName = cr.snapshotName
    BY <1>t, <1>4
    DEF Sessions, Server, Expire, Pause, Resume, Delete, MarkStepComplete, Request, clusterVars
  <2> QED
    BY <2>1, SnapshotFrame
<1>5. CASE Watch
  <2>1. cache' = cr /\ UNCHANGED <<cr, ls, job, pc, result, child>>
    BY <1>5 DEF Watch, clusterVars
  <2> QED
    BY <2>1
    DEF SnapshotInv, Taken, RecordKept, SuspendsUnrecorded, ParksOnRecord, PausedOnRecord,
        ClearedAfterDeletion, OnRecord
<1>6. CASE Restart
  <2>1. /\ cache' = cr /\ ls' = Absent /\ job' = "none" /\ pc' = "idle" /\ result' = NoResult
        /\ UNCHANGED <<cr, child>>
    BY <1>6 DEF Restart, clusterVars
  <2>2. ~OnRecord(ls')
    BY <2>1 DEF Absent, Created, OnRecord
  <2> QED
    BY <1>r, <2>1, <2>2
    DEF SnapshotInv, Taken, RecordKept, SuspendsUnrecorded, ParksOnRecord, PausedOnRecord,
        ClearedAfterDeletion, OnRecord
<1>7. CASE Rest \/ SnapshotNotReady \/ Conflict \/ CallFails
  BY <1>7, SnapshotAtReturn
  DEF Rest, SnapshotNotReady, Conflict, CallFails, Return, EndPass, clusterVars
<1>8. CASE AddFinalizer \/ RemoveFinalizer \/ PatchResumed \/ PatchSnapshotName
  <2>1. /\ job' = "none" /\ pc' = "idle" /\ result' = NoResult /\ ls' = Absent
        /\ UNCHANGED <<cache, child>>
    BY <1>8
    DEF AddFinalizer, RemoveFinalizer, PatchResumed, PatchSnapshotName, WriteAndReturn, EndPass,
        clusterVars
  <2>2. /\ OnRecord(cr) => OnRecord(cr')
        /\ cr'.phase \in {cr.phase, "Provisioning"}
    BY <1>t, <1>8
    DEF Sessions, OnRecord, AddFinalizer, RemoveFinalizer, PatchResumed, PatchSnapshotName,
        WriteAndReturn
  <2> QED
    BY <2>1, <2>2, SnapshotAtReturn
<1>9. CASE PatchPaused
  <2>1. /\ job = "park" /\ job' = "none" /\ pc' = "idle" /\ result' = NoResult /\ ls' = Absent
        /\ UNCHANGED <<cache, child>>
    BY <1>t, <1>9 DEF JobAtStep, PatchPaused, WriteAndReturn, EndPass, clusterVars
  <2>2. cr'.snapshotName = cr.snapshotName /\ pc = "patchPaused"
    BY <1>t, <1>9 DEF Sessions, PatchPaused, WriteAndReturn
  <2>3. OnRecord(cr) /\ OnRecord(cache) /\ OnRecord(cr')
    BY <2>1, <2>2 DEF SnapshotInv, ParksOnRecord, OnRecord
  <2>4. ~OnRecord(ls')
    BY <2>1 DEF Absent, Created, OnRecord
  <2> QED
    BY <1>r, <2>1, <2>3, <2>4
    DEF SnapshotInv, Taken, RecordKept, SuspendsUnrecorded, ParksOnRecord, PausedOnRecord,
        ClearedAfterDeletion, OnRecord
<1>10. CASE PatchExpired
  <2>1. /\ pc = "patchExpired"
        /\ job' = "none" /\ pc' = "idle" /\ result' = NoResult /\ ls' = Absent
        /\ UNCHANGED <<cache, child>>
    BY <1>10 DEF PatchExpired, WriteAndReturn, EndPass, clusterVars
  <2>2. /\ cr'.phase = "Expired"
        /\ ~OnRecord(ls) => (OnRecord(cr') <=> OnRecord(cr))
    <3>1. cr' = [cr EXCEPT !.phase = "Expired",
                           !.snapshotName = Merge(ls.snapshotName, "", cr.snapshotName)]
      BY <1>10 DEF PatchExpired, WriteAndReturn
    <3>2. ~OnRecord(ls) => Merge(ls.snapshotName, "", cr.snapshotName) = cr.snapshotName
      BY <1>t, RecordTypes DEF Merge
    <3> QED
      BY <1>t, <3>1, <3>2 DEF Sessions, OnRecord
  <2>3. ~OnRecord(ls')
    BY <2>1 DEF Absent, Created, OnRecord
  <2> QED
    BY <1>r, <2>1, <2>2, <2>3
    DEF SnapshotInv, Taken, RecordKept, SuspendsUnrecorded, ParksOnRecord, PausedOnRecord,
        ClearedAfterDeletion, OnRecord
<1>11. CASE StartPass
  <2>1. CASE StartFinalize \/ StartAdopt \/ StartExpire \/ StartUnpark \/ StartConverge
    BY <1>r, <2>1, SnapshotAtStart
    DEF StartFinalize, StartAdopt, StartExpire, StartUnpark, StartConverge, Start, clusterVars
  <2>2. CASE StartSuspend
    <3>1. ~OnRecord(cache) /\ cache.phase /= "Paused"
      BY <1>t, <2>2, RecordTypes DEF StartSuspend, Pausing
    <3> QED
      BY <1>r, <2>2, <3>1, SnapshotAtStart DEF StartSuspend, Start, clusterVars
  <2>3. CASE StartPark
    <3>1. OnRecord(cache)
      BY <1>t, <2>3, RecordTypes DEF StartPark
    <3> QED
      BY <1>r, <2>3, <3>1, SnapshotAtStart DEF StartPark, Start, clusterVars
  <2>4. CASE StartUnresolved
    BY <2>4, SnapshotAtStart DEF StartUnresolved, NoResult, clusterVars
  <2> QED
    BY <1>1, <1>11, <2>1, <2>2, <2>3, <2>4 DEF StartPass
<1>12. CASE DeleteVMI \/ DeleteNetworkPolicy \/ DeleteService
  <2>1. child'["VolumeSnapshot"] = child["VolumeSnapshot"]
    BY <1>t, <1>12, DeletedAtOnce, KindsEnumerated DEF DeleteVMI, DeleteNetworkPolicy, DeleteService
  <2> QED
    BY <1>r, <1>12, <2>1, SnapshotMovesOn DEF DeleteVMI, DeleteNetworkPolicy, DeleteService, Proceed
<1>13. CASE DeleteDataVolume
  <2>1. child'["VolumeSnapshot"] = child["VolumeSnapshot"]
    BY <1>t, <1>13, DeletedAtOnce, KindsEnumerated DEF DeleteDataVolume
  <2>2. /\ pc = "deleteDataVolume" /\ pc' /= "clearSnapshotName"
        /\ OnRecord(ls) => pc' /= "patchExpired"
    BY <1>t, <1>13, RecordTypes DEF DeleteDataVolume, AfterTeardown, Proceed
  <2> QED
    BY <1>r, <1>13, <2>1, <2>2, SnapshotMovesOn DEF DeleteDataVolume, Proceed
<1>14. CASE DeleteSnapshot \/ DropSnapshot
  <2>1. child'["VolumeSnapshot"] = "absent"
    BY <1>t, <1>14, DeletedAtOnce, KindsEnumerated DEF DeleteSnapshot, DropSnapshot
  <2> QED
    BY <1>r, <1>14, <2>1, SnapshotMovesOn DEF DeleteSnapshot, DropSnapshot, Proceed
<1>15. CASE EnsureDisk \/ EnsureSecret \/ EnsureMachine \/ EnsureService \/ EnsureNetworkPolicy
  <2>1. child'["VolumeSnapshot"] = child["VolumeSnapshot"]
    BY <1>t, <1>15, SnapshotAlone
    DEF EnsureDisk, EnsureSecret, EnsureMachine, EnsureService, EnsureNetworkPolicy
  <2> QED
    BY <1>r, <1>15, <2>1, SnapshotMovesOn
    DEF EnsureDisk, EnsureSecret, EnsureMachine, EnsureService, EnsureNetworkPolicy, Proceed
<1>16. CASE SnapshotIsReady
  <2>1. /\ job = "park" /\ pc = "awaitSnapshot" /\ pc' = "deleteDataVolume"
        /\ UNCHANGED <<cr, cache, ls, job, result, child>>
    BY <1>t, <1>16 DEF JobAtStep, SnapshotIsReady, Proceed, clusterVars
  <2>2. Taken
    BY <1>16 DEF SnapshotIsReady, SnapshotReady, Exists, SnapshotInv
  <2>3. OnRecord(cr)
    BY <2>1, <2>2 DEF SnapshotInv, ParksOnRecord, RecordKept
  <2> QED
    BY <1>r, <2>1, <2>3, SnapshotMovesOn
<1>17. CASE KeepPhase
  BY <1>r, <1>17, SnapshotMovesOn DEF KeepPhase, AfterPhase, Proceed, clusterVars
<1>18. CASE Observe \/ ProbeFails
  <2>1. /\ pc = "observe" /\ pc' = "patchPhase"
        /\ UNCHANGED <<cr, cache, ls, job, child>>
    BY <1>18 DEF Observe, ProbeFails, ObserveWith, clusterVars
  <2>2. result'.phase /= "Paused"
    <3>1. ObservedPhase /= "Paused"
      BY DEF ObservedPhase
    <3>2. \E p, d, n : p /= "Paused" /\ result' = [phase |-> p, serviceDNS |-> d, drop |-> n]
      BY <1>18, <3>1 DEF Observe, ProbeFails, ObserveWith
    <3> QED
      BY <3>2
  <2> QED
    BY <2>1, <2>2, SnapshotMovesOn
<1>19. CASE TakeSnapshot
  <2>1. /\ job = "suspend" /\ pc' = "patchSnapshotName"
        /\ UNCHANGED <<cr, cache, ls, job, result>>
    BY <1>t, <1>19 DEF JobAtStep, TakeSnapshot, Proceed
  <2>2. child'["VolumeSnapshot"] = "present"
    BY <1>t, <1>19, KindsEnumerated
    DEF TakeSnapshot, CreateSnapshot, ClusterTypeOK, SnapshotInv, Taken
  <2> QED
    BY <2>1, <2>2
    DEF SnapshotInv, Taken, RecordKept, SuspendsUnrecorded, ParksOnRecord, PausedOnRecord,
        ClearedAfterDeletion, OnRecord
<1>20. CASE PatchPhase
  <2>1. /\ job = "converge" /\ job' = job /\ ls' = cr' /\ pc' \in {"dropSnapshot", "rest"}
        /\ UNCHANGED <<cache, result, child>>
    BY <1>t, <1>20 DEF JobAtStep, PatchPhase, OperatorWrites, AfterPhase, clusterVars
  <2>2. cr'.snapshotName = cr.snapshotName /\ cr'.phase \in {cr.phase, result.phase}
    BY <1>t, <1>20 DEF Sessions, PatchPhase, OperatorWrites, Merge
  <2> QED
    BY <1>r, <2>1, <2>2
    DEF SnapshotInv, Taken, RecordKept, SuspendsUnrecorded, ParksOnRecord, PausedOnRecord,
        ClearedAfterDeletion, OnRecord
<1>21. CASE ClearSnapshotName
  <2>1. /\ pc = "clearSnapshotName" /\ job = "converge" /\ job' = job /\ pc' = "rest"
        /\ UNCHANGED <<cache, result, child>>
    BY <1>t, <1>21 DEF JobAtStep, ClearSnapshotName, clusterVars
  <2>2. cr'.phase = cr.phase /\ ~Taken
    BY <1>t, <1>21
    DEF Sessions, ClearSnapshotName, OperatorWrites, SnapshotInv, ClearedAfterDeletion
  <2> QED
    BY <2>1, <2>2
    DEF SnapshotInv, Taken, RecordKept, SuspendsUnrecorded, ParksOnRecord, PausedOnRecord,
        ClearedAfterDeletion, OnRecord
<1> QED
  BY <1>1, <1>2, <1>3, <1>4, <1>5, <1>6, <1>7, <1>8, <1>9, <1>10, <1>11, <1>12, <1>13, <1>14,
     <1>15, <1>16, <1>17, <1>18, <1>19, <1>20, <1>21
  DEF Next, Operator, Teardown, Provision, Suspension, Bookkeeping, Faults

\* Only the last call of an expiring pass reports Expired.
LEMMA OnlyExpiryExpires ==
  ASSUME IInv, [Next]_vars, cr.phase /= "Expired", cr'.phase = "Expired"
  PROVE  pc = "patchExpired"
<1>t. cr \in Sessions /\ result.phase /= "Expired"
  BY DEF IInv, TypeOK, JobStillHolds
<1>1. CASE PatchPhase
  <2>1. cr'.phase \in {cr.phase, result.phase}
    BY <1>t, <1>1 DEF Sessions, PatchPhase, OperatorWrites, Merge
  <2> QED
    BY <1>t, <2>1
<1>2. CASE ClearSnapshotName
  BY <1>t, <1>2 DEF Sessions, ClearSnapshotName, OperatorWrites
<1>3. CASE AddFinalizer \/ RemoveFinalizer \/ PatchSnapshotName \/ PatchPaused \/ PatchResumed
  BY <1>t, <1>3
  DEF Sessions, AddFinalizer, RemoveFinalizer, PatchSnapshotName, PatchPaused, PatchResumed,
      WriteAndReturn
<1>4. CASE Server
  BY <1>t, <1>4 DEF Sessions, Server, Expire, Pause, Resume, Delete, MarkStepComplete, Request
<1>5. CASE PatchExpired
  BY <1>5 DEF PatchExpired
<1>6. CASE \/ UNCHANGED vars \/ StartPass \/ Teardown \/ Watch \/ TimerFires \/ Resync \/ TtlPasses
           \/ ClusterStep \/ GarbageStep \/ Study \/ Faults \/ Conflict
  BY <1>6
  DEF vars, StartPass, StartFinalize, StartAdopt, StartExpire, StartSuspend, StartPark, StartUnpark,
      StartConverge, StartUnresolved, NothingToDo, Start, Teardown, DeleteVMI, DeleteNetworkPolicy,
      DeleteService, DeleteDataVolume, DeleteSnapshot, Proceed, Watch, TimerFires, Resync, TtlPasses,
      ClusterStep, GarbageStep, Study, Faults, CallFails, ProbeFails, ObserveWith, VmCrashes,
      Restart, Conflict, Return
<1>7. CASE \/ EnsureDisk \/ EnsureSecret \/ EnsureMachine \/ EnsureService \/ EnsureNetworkPolicy
           \/ Observe \/ KeepPhase \/ DropSnapshot \/ Rest
           \/ TakeSnapshot \/ SnapshotIsReady \/ SnapshotNotReady
  BY <1>7
  DEF EnsureDisk, EnsureSecret, EnsureMachine, EnsureService, EnsureNetworkPolicy, Observe,
      ObserveWith, KeepPhase, DropSnapshot, Rest, TakeSnapshot, SnapshotIsReady, SnapshotNotReady,
      Proceed, Return
<1> QED
  BY <1>1, <1>2, <1>3, <1>4, <1>5, <1>6, <1>7
  DEF Next, Operator, Provision, Suspension, Bookkeeping

\* Where deleting a VolumeSnapshot takes no time, a Paused session that expires
\* leaves no snapshot behind: the expiring pass works from a cached copy, and no
\* such copy is older than the record of the snapshot.  (Where the deletion takes
\* time this is false: a park pass can take a snapshot that is going away for
\* the one it waits for.)
THEOREM PausedSnapshots ==
  ASSUME "VolumeSnapshot" \notin Lingers
  PROVE  Spec => PausedSnapshotGoes
<1>1. Init => SnapshotInv
  BY InitSnapshot
<1>2. IInv /\ SnapshotInv /\ [Next]_vars => SnapshotInv'
  BY StepSnapshot
<1>3. IInv /\ SnapshotInv /\ [Next]_vars
        => [cr.phase = "Paused" /\ cr'.phase = "Expired" => child["VolumeSnapshot"] /= "present"]_vars
  <2> SUFFICES ASSUME IInv, SnapshotInv, [Next]_vars, cr.phase = "Paused", cr'.phase = "Expired"
               PROVE  child["VolumeSnapshot"] /= "present"
    OBVIOUS
  <2>1. pc = "patchExpired" /\ job = "expire"
    BY OnlyExpiryExpires DEF IInv, JobAtStep
  <2> QED
    BY <2>1 DEF SnapshotInv, ClearedAfterDeletion, Taken
<1> QED
  BY <1>1, <1>2, <1>3, Inductive, PTL DEF Spec, PausedSnapshotGoes

-----------------------------------------------------------------------------
(* The work of an unhurried student *)

\* Deletion, an early end and the deadline are never undone.
LEMMA FactsStay ==
  ASSUME TypeOK, [Next]_vars
  PROVE  /\ cr'.state = "live" => cr.state = "live"
         /\ cr.state = "absent" => cr'.state = "absent"
         /\ cr.expiresAt = "now" => cr'.expiresAt = "now"
         /\ ttl = "passed" => ttl' = "passed"
<1>t. cr \in Sessions
  BY DEF TypeOK
<1>1. CASE PatchPhase \/ ClearSnapshotName
  BY <1>t, <1>1 DEF Sessions, PatchPhase, ClearSnapshotName, OperatorWrites
<1>2. CASE \/ AddFinalizer \/ RemoveFinalizer \/ PatchSnapshotName \/ PatchPaused \/ PatchResumed
           \/ PatchExpired
  BY <1>t, <1>2
  DEF Sessions, AddFinalizer, RemoveFinalizer, PatchSnapshotName, PatchPaused, PatchResumed,
      PatchExpired, WriteAndReturn, EndPass
<1>3. CASE Server
  BY <1>t, <1>3 DEF Sessions, Server, Expire, Pause, Resume, Delete, MarkStepComplete, Request
<1>4. CASE TtlPasses
  BY <1>4 DEF TtlPasses
<1>5. CASE \/ UNCHANGED vars \/ StartPass \/ Teardown \/ Watch \/ TimerFires \/ Resync
           \/ ClusterStep \/ GarbageStep \/ Study \/ Faults \/ Conflict
  BY <1>5
  DEF vars, StartPass, StartFinalize, StartAdopt, StartExpire, StartSuspend, StartPark, StartUnpark,
      StartConverge, StartUnresolved, NothingToDo, Start, Teardown, DeleteVMI, DeleteNetworkPolicy,
      DeleteService, DeleteDataVolume, DeleteSnapshot, Proceed, Watch, TimerFires, Resync,
      ClusterStep, GarbageStep, Study, Faults, CallFails, ProbeFails, ObserveWith, VmCrashes,
      Restart, Conflict, Return, EndPass
<1>6. CASE \/ EnsureDisk \/ EnsureSecret \/ EnsureMachine \/ EnsureService \/ EnsureNetworkPolicy
           \/ Observe \/ KeepPhase \/ DropSnapshot \/ Rest
           \/ TakeSnapshot \/ SnapshotIsReady \/ SnapshotNotReady
  BY <1>6
  DEF EnsureDisk, EnsureSecret, EnsureMachine, EnsureService, EnsureNetworkPolicy, Observe,
      ObserveWith, KeepPhase, DropSnapshot, Rest, TakeSnapshot, SnapshotIsReady, SnapshotNotReady,
      Proceed, Return, EndPass
<1> QED
  BY <1>1, <1>2, <1>3, <1>4, <1>5, <1>6
  DEF Next, Operator, Provision, Suspension, Bookkeeping

\* A session that is not over is not seen to be.
LEMMA NotOver == IInv /\ ~Over => Unseen
  BY DEF IInv, TypeOK, Sessions, Over, Live, CacheIsOld, Due, Unseen

\* The cached copy is replaced by the resource, and by nothing else.
LEMMA CacheFollows ==
  ASSUME [Next]_vars
  PROVE  cache' = cache \/ (cache' = cr /\ cr' = cr)
<1>1. CASE Watch \/ Restart
  BY <1>1 DEF Watch, Restart
<1>2. CASE \/ UNCHANGED vars \/ StartPass \/ Teardown \/ Bookkeeping \/ TimerFires \/ Resync
           \/ ClusterStep \/ GarbageStep \/ Study \/ CallFails \/ ProbeFails \/ VmCrashes
           \/ TtlPasses \/ Server
  BY <1>2
  DEF vars, operatorVars, StartPass, StartFinalize, StartAdopt, StartExpire, StartSuspend, StartPark,
      StartUnpark, StartConverge, StartUnresolved, NothingToDo, Start, Teardown, DeleteVMI,
      DeleteNetworkPolicy, DeleteService, DeleteDataVolume, DeleteSnapshot, Proceed, Bookkeeping,
      AddFinalizer, RemoveFinalizer, Conflict, PatchExpired, WriteAndReturn, Return, EndPass,
      TimerFires, Resync, ClusterStep, GarbageStep, Study, CallFails, ProbeFails, ObserveWith,
      VmCrashes, TtlPasses, Server, Expire, Pause, Resume, Delete, MarkStepComplete, Request
<1>3. CASE Provision \/ Suspension
  BY <1>3
  DEF Provision, EnsureDisk, EnsureSecret, EnsureMachine, EnsureService, EnsureNetworkPolicy, Observe,
      ObserveWith, PatchPhase, KeepPhase, DropSnapshot, ClearSnapshotName, OperatorWrites, Rest,
      Suspension, TakeSnapshot, PatchSnapshotName, SnapshotIsReady, SnapshotNotReady, PatchPaused,
      PatchResumed, WriteAndReturn, Return, EndPass, Proceed
<1> QED
  BY <1>1, <1>2, <1>3 DEF Next, Operator, Faults

\* The end of a session stays unseen until the operator sees it, and what is
\* not seen to be over is not being torn down.
LEMMA StaysUnseen ==
  ASSUME IInv, [Next]_vars, Unseen'
  PROVE  Unseen /\ job \notin TeardownJobs /\ ~Deleting(cache) /\ ~Due(cache)
<1>1. TypeOK /\ cr \in Sessions /\ cache \in Sessions /\ cr' \in Sessions
  BY StepTypeOK DEF IInv, TypeOK
<1>2. /\ cr'.state = "live" => cr.state = "live"
      /\ cr.expiresAt = "now" => cr'.expiresAt = "now"
      /\ ttl = "passed" => ttl' = "passed"
  BY <1>1, FactsStay
<1>3. ~Due(cache)
  BY <1>2, CacheFollows DEF Due, Unseen, IInv, CacheIsOld
<1>4. cr.state /= "absent"
  BY <1>1, FactsStay DEF Unseen
<1>5. cr.state = "deleting" => cache.state = "live"
  BY <1>1, <1>2, CacheFollows DEF Unseen, Sessions
<1>6. Unseen
  BY <1>3, <1>4, <1>5 DEF Unseen
<1>7. ~Deleting(cache)
  BY <1>1, <1>4, <1>5 DEF Deleting, Sessions, IInv, CacheIsOld
<1>8. job \notin TeardownJobs
  BY <1>1, <1>3, <1>4, <1>5 DEF IInv, ExpiryWasSeen, JobStillHolds, TeardownJobs, Sessions
<1> QED
  BY <1>3, <1>6, <1>7, <1>8

\* The objects and the data that the work depends on stay as they are.
SameObjects ==
    /\ child'["VMI"] = child["VMI"] /\ child'["DataVolume"] = child["DataVolume"]
    /\ child'["VolumeSnapshot"] = child["VolumeSnapshot"]
    /\ UNCHANGED <<vmiPhase, dvSource, pvc, disk, snapshot, snapData, work>>

\* The parts of the resource that the work depends on stay as they are.
SameResource ==
    cr'.paused = cr.paused /\ cr'.phase = cr.phase /\ cr'.snapshotName = cr.snapshotName

\* Nothing a cluster's frame leaves alone is an object the work depends on.
LEMMA ClusterUnchanged == UNCHANGED clusterVars => SameObjects
  BY DEF clusterVars, SameObjects

\* The data side depends on the objects only.
LEMMA SameWork == WorkIsSomewhere /\ SameObjects => WorkIsSomewhere'
  BY DEF WorkIsSomewhere, SameObjects, Bound, Taken

\* Frame lemma: a step that only touches other parts of the resource.
LEMMA WorkFrame ==
  ASSUME WorkFacts, SameObjects, SameResource, UNCHANGED <<cache, ls, job, pc, result>>
  PROVE  WorkFacts'
<1>1. WorkIsSomewhere'
  BY SameWork DEF WorkFacts
<1>2. GoingVM' /\ AtRest'
  BY DEF WorkFacts, SameObjects, SameResource, GoingVM, AtRest, Taken, Exists
<1>3. PausedCopies'
  BY DEF WorkFacts, SameResource, PausedCopies
<1>4. InSnapshot' /\ RestoresOnRecord'
  BY DEF WorkFacts, SameObjects, SameResource, InSnapshot, RestoresOnRecord, OnRecord, Taken, Exists
<1>5. PassHasSeen'
  BY DEF WorkFacts, SameObjects, PassHasSeen, Taken, Bound
<1>6. RecordKept' /\ SuspendsUnrecorded' /\ ParksOnRecord'
  BY DEF WorkFacts, SameObjects, SameResource, RecordKept, SuspendsUnrecorded, ParksOnRecord,
         OnRecord, Taken
<1> QED
  BY <1>1, <1>2, <1>3, <1>4, <1>5, <1>6 DEF WorkFacts

\* Frame lemma: a pass that ends without a new phase; the name may be recorded.
LEMMA WorkAtReturn ==
  ASSUME WorkFacts, SameObjects, job' = "none", pc' = "idle", result' = NoResult, ls' = Absent,
         cr'.paused = cr.paused, cr'.phase = cr.phase, OnRecord(cr) => OnRecord(cr'),
         UNCHANGED cache
  PROVE  WorkFacts'
<1>0. ~OnRecord(ls') /\ NoResult.phase /= "Paused"
  BY DEF Absent, Created, OnRecord, NoResult
<1>1. WorkIsSomewhere'
  BY SameWork DEF WorkFacts
<1>2. GoingVM' /\ AtRest'
  BY DEF WorkFacts, SameObjects, GoingVM, AtRest, Taken, Exists
<1>3. PausedCopies'
  BY DEF WorkFacts, PausedCopies
<1>4. InSnapshot' /\ RestoresOnRecord'
  BY DEF WorkFacts, SameObjects, InSnapshot, RestoresOnRecord, OnRecord, Taken, Exists
<1>5. PassHasSeen'
  BY DEF PassHasSeen
<1>6. RecordKept' /\ SuspendsUnrecorded' /\ ParksOnRecord'
  BY <1>0 DEF WorkFacts, SameObjects, RecordKept, SuspendsUnrecorded, ParksOnRecord, OnRecord, Taken
<1> QED
  BY <1>0, <1>1, <1>2, <1>3, <1>4, <1>5, <1>6 DEF WorkFacts

\* Frame lemma: a pass that starts from the cached copy.
LEMMA WorkAtStart ==
  ASSUME WorkFacts, SameObjects, pc = "idle", job = "none", ls' = cache, result'.phase /= "Paused",
         \/ job' = "adopt" /\ pc' = "addFinalizer"
         \/ job' = "suspend" /\ pc' = "deleteVMI" /\ Pausing(cache) /\ ~OnRecord(cache)
         \/ job' = "park" /\ pc' = "awaitSnapshot" /\ Pausing(cache) /\ OnRecord(cache)
         \/ job' = "unpark" /\ pc' = "patchResumed" /\ Resuming(cache)
         \/ /\ job' = "converge" /\ Running(cache)
            /\ pc' = "ensureDataVolume" \/ (pc' = "patchPhase" /\ result'.drop /= "snap"),
         UNCHANGED <<cr, cache>>
  PROVE  WorkFacts'
<1>1. WorkIsSomewhere'
  BY SameWork DEF WorkFacts
<1>2. GoingVM' /\ AtRest'
  BY DEF WorkFacts, SameObjects, GoingVM, AtRest, Taken, Exists, Resuming, Running
<1>3. PausedCopies'
  BY DEF WorkFacts, PausedCopies, Pausing, Resuming
<1>4. InSnapshot'
  BY DEF WorkFacts, SameObjects, PausedCopies, InSnapshot, OnRecord, Taken, Exists, Resuming, Running
<1>5. RestoresOnRecord'
  BY DEF WorkFacts, SameObjects, RestoresOnRecord, OnRecord, Taken
<1>6. PassHasSeen'
  BY DEF PassHasSeen
<1>7. RecordKept' /\ SuspendsUnrecorded' /\ ParksOnRecord'
  BY DEF WorkFacts, SameObjects, RecordKept, SuspendsUnrecorded, ParksOnRecord, InSnapshot, OnRecord,
         Taken
<1> QED
  BY <1>1, <1>2, <1>3, <1>4, <1>5, <1>6, <1>7 DEF WorkFacts

\* Frame lemma: a step that takes no snapshot and leaves all copies of the
\* resource alone; what is left to show are the facts about objects and calls.
LEMMA WorkAlong ==
  ASSUME WorkFacts, WorkIsSomewhere', GoingVM', AtRest', InSnapshot', PassHasSeen', Taken' => Taken,
         result'.phase /= "Paused", job = "park" /\ pc' /= "awaitSnapshot" => OnRecord(cr),
         UNCHANGED <<cr, cache, ls, job>>
  PROVE  WorkFacts'
<1>1. PausedCopies'
  BY DEF WorkFacts, PausedCopies
<1>2. RestoresOnRecord' /\ RecordKept'
  BY DEF WorkFacts, RestoresOnRecord, RecordKept, OnRecord
<1>3. SuspendsUnrecorded' /\ ParksOnRecord'
  BY DEF WorkFacts, SuspendsUnrecorded, ParksOnRecord, OnRecord
<1> QED
  BY <1>1, <1>2, <1>3 DEF WorkFacts

\* Frame lemma: a call that leaves the objects the work depends on alone.
LEMMA WorkMovesOn ==
  ASSUME WorkFacts, SameObjects, PassHasSeen', result'.phase /= "Paused",
         job = "park" /\ pc' /= "awaitSnapshot" => OnRecord(cr),
         UNCHANGED <<cr, cache, ls, job>>
  PROVE  WorkFacts'
<1>1. WorkIsSomewhere' /\ (Taken' => Taken)
  BY SameWork DEF WorkFacts, SameObjects, Taken
<1>2. GoingVM' /\ AtRest' /\ InSnapshot'
  BY DEF WorkFacts, SameObjects, GoingVM, AtRest, InSnapshot, OnRecord, Taken, Exists
<1> QED
  BY <1>1, <1>2, WorkAlong

\* One object at a time.
LEMMA OneDeleted ==
  ASSUME ClusterTypeOK, NEW k \in Kinds, DeleteChild(k)
  PROVE  /\ child'[k] /= "present" /\ \A j \in Kinds \ {k} : child'[j] = child[j]
         /\ child[k] = "absent" => child'[k] = "absent"
         /\ k /= "DataVolume" => pvc' = pvc
         /\ k = "DataVolume" /\ child'[k] = "absent" => pvc' /= "bound"
         /\ pvc' \in {pvc, "orphaned"}
         /\ UNCHANGED <<vmiPhase, dvSource, disk, snapshot, snapData, work>>
  BY DEF ClusterTypeOK, DeleteChild, Orphaned

\* Suspending deletes the VM: the session stays paused.
LEMMA WorkDeleteVMI ==
  ASSUME IInv, WorkFacts, job = "suspend", DeleteVMI
  PROVE  WorkFacts'
<1>1. /\ UNCHANGED <<cr, cache, ls, job, result>> /\ pc' = "deleteNetworkPolicy"
      /\ child'["VMI"] /= "present" /\ (child["VMI"] = "absent" => child'["VMI"] = "absent")
      /\ child'["DataVolume"] = child["DataVolume"]
      /\ child'["VolumeSnapshot"] = child["VolumeSnapshot"]
      /\ UNCHANGED <<vmiPhase, dvSource, pvc, disk, snapshot, snapData, work>>
  BY OneDeleted, KindsEnumerated DEF IInv, TypeOK, DeleteVMI, Proceed
<1>2. cr.phase /= "Paused" /\ cr.paused /\ cache.paused
  BY DEF WorkFacts, SuspendsUnrecorded, PausedCopies
<1>3. WorkIsSomewhere'
  BY <1>1 DEF WorkFacts, WorkIsSomewhere, Bound, Taken
<1>4. GoingVM' /\ AtRest'
  BY <1>1, <1>2 DEF WorkFacts, GoingVM, AtRest, Taken, Exists
<1>5. InSnapshot' /\ (Taken' => Taken)
  BY <1>1, <1>2 DEF WorkFacts, InSnapshot, OnRecord, Taken, Exists
<1>6. PassHasSeen'
  BY <1>1 DEF PassHasSeen
<1> QED
  BY <1>1, <1>3, <1>4, <1>5, <1>6, WorkAlong DEF WorkFacts

\* Parking deletes the disk: the snapshot has what is on it.
LEMMA WorkDeleteDisk ==
  ASSUME IInv, WorkFacts, job = "park", DeleteDataVolume
  PROVE  WorkFacts'
<1>1. /\ UNCHANGED <<cr, cache, ls, job, result>> /\ pc = "deleteDataVolume" /\ pc' = "patchPaused"
      /\ child'["DataVolume"] /= "present" /\ child'["VMI"] = child["VMI"]
      /\ child'["VolumeSnapshot"] = child["VolumeSnapshot"]
      /\ child'["DataVolume"] = "absent" => pvc' /= "bound"
      /\ pvc' \in {pvc, "orphaned"}
      /\ UNCHANGED <<vmiPhase, dvSource, disk, snapshot, snapData, work>>
  BY OneDeleted, KindsEnumerated DEF IInv, TypeOK, DeleteDataVolume, Proceed
<1>2. Taken /\ snapshot = "ready" /\ OnRecord(cr)
  BY <1>1 DEF WorkFacts, PassHasSeen, ParksOnRecord
<1>3. child["VMI"] /= "present" /\ (cr.paused => snapData = work)
  BY <1>2 DEF WorkFacts, PausedCopies, AtRest, InSnapshot, Taken, Exists
<1>4. ~cr.paused => child["DataVolume"] /= "present"
  BY DEF WorkFacts, PausedCopies, InSnapshot
<1>5. work > 0 => snapData = work
  BY <1>3, <1>4 DEF WorkFacts, WorkIsSomewhere, Bound
<1>6. WorkIsSomewhere'
  BY <1>1, <1>2, <1>3, <1>5 DEF WorkFacts, WorkIsSomewhere, Bound, Taken
<1>7. GoingVM' /\ AtRest' /\ InSnapshot' /\ (Taken' => Taken)
  BY <1>1 DEF WorkFacts, GoingVM, AtRest, InSnapshot, OnRecord, Taken, Exists
<1>8. PassHasSeen'
  BY <1>1, <1>2 DEF PassHasSeen, Taken
<1> QED
  BY <1>1, <1>2, <1>6, <1>7, <1>8, WorkAlong DEF WorkFacts

\* A converging pass deletes the snapshot: the disk is restored.
LEMMA WorkDropSnapshot ==
  ASSUME IInv, WorkFacts, DropSnapshot
  PROVE  WorkFacts'
<1>1. /\ UNCHANGED <<cr, cache, ls, job, result>> /\ pc = "dropSnapshot" /\ pc' = "clearSnapshotName"
      /\ child'["VolumeSnapshot"] /= "present" /\ child'["VMI"] = child["VMI"]
      /\ child'["DataVolume"] = child["DataVolume"]
      /\ child["VolumeSnapshot"] = "absent" => child'["VolumeSnapshot"] = "absent"
      /\ UNCHANGED <<vmiPhase, dvSource, pvc, disk, snapshot, snapData, work>>
  BY OneDeleted, KindsEnumerated DEF IInv, TypeOK, DropSnapshot, Proceed
<1>2. job = "converge" /\ Bound
  BY <1>1 DEF IInv, JobAtStep, WorkFacts, PassHasSeen
<1>3. WorkIsSomewhere'
  BY <1>1, <1>2 DEF WorkFacts, WorkIsSomewhere, Bound
<1>4. GoingVM' /\ AtRest' /\ InSnapshot' /\ ~Taken'
  BY <1>1, <1>2 DEF WorkFacts, GoingVM, AtRest, InSnapshot, Taken, Exists
<1>5. PassHasSeen'
  BY <1>1, <1>2, <1>4 DEF PassHasSeen
<1> QED
  BY <1>1, <1>2, <1>3, <1>4, <1>5, WorkAlong DEF WorkFacts

\* A converging pass is of a session that no copy shows as paused or Paused.
LEMMA ConvergesUnpaused ==
  ASSUME WorkFacts, job = "converge"
  PROVE  /\ cr.phase /= "Paused" /\ cache.phase /= "Paused"
         /\ cr.paused => ~Exists("VolumeSnapshot")
         /\ Taken => ~cr.paused /\ OnRecord(cr) /\ OnRecord(cache) /\ OnRecord(ls)
         /\ child["VMI"] /= "terminating"
  BY DEF WorkFacts, InSnapshot, AtRest, RestoresOnRecord, GoingVM, Taken, Exists

\* A missing disk is created from the snapshot if the student's work is there.
LEMMA WorkEnsureDisk ==
  ASSUME IInv, WorkFacts, EnsureDisk
  PROVE  WorkFacts'
<1>1. /\ UNCHANGED <<cr, cache, ls, job, result>> /\ pc = "ensureDataVolume" /\ pc' = "ensureSecret"
      /\ child'["DataVolume"] = IF child["DataVolume"] = "absent" THEN "present"
                                ELSE child["DataVolume"]
      /\ child'["VMI"] = child["VMI"] /\ child'["VolumeSnapshot"] = child["VolumeSnapshot"]
      /\ child["DataVolume"] /= "absent" => dvSource' = dvSource
      /\ child["DataVolume"] = "absent" /\ ls.snapshotName /= "" => dvSource' = "snapshot"
      /\ UNCHANGED <<vmiPhase, pvc, disk, snapshot, snapData, work>>
  BY KindsEnumerated
  DEF IInv, TypeOK, ClusterTypeOK, EnsureDisk, EnsureDataVolume, Proceed, Exists
<1>2. job = "converge"
  BY <1>1 DEF IInv, JobAtStep, EnsureSteps
<1>3. Taken => ls.snapshotName /= ""
  BY <1>2, ConvergesUnpaused DEF OnRecord
<1>4. Bound' = Bound /\ Taken' = Taken
  BY <1>1 DEF WorkFacts, WorkIsSomewhere, Bound, Taken
<1>5. WorkIsSomewhere'
  BY <1>1, <1>3, <1>4 DEF WorkFacts, WorkIsSomewhere
<1>6. GoingVM' /\ AtRest' /\ InSnapshot'
  BY <1>1, <1>2, <1>4 DEF WorkFacts, GoingVM, AtRest, InSnapshot, Taken, Exists
<1>7. PassHasSeen'
  BY <1>1, <1>2 DEF PassHasSeen
<1> QED
  BY <1>1, <1>2, <1>4, <1>5, <1>6, <1>7, WorkAlong DEF WorkFacts

\* A missing VM is created; it is not up yet.
LEMMA WorkEnsureMachine ==
  ASSUME IInv, WorkFacts, EnsureMachine
  PROVE  WorkFacts'
<1>1. /\ UNCHANGED <<cr, cache, ls, job, result>> /\ pc = "ensureVMI" /\ pc' = "ensureService"
      /\ child'["VMI"] = IF child["VMI"] = "absent" THEN "present" ELSE child["VMI"]
      /\ child'["DataVolume"] = child["DataVolume"]
      /\ child'["VolumeSnapshot"] = child["VolumeSnapshot"]
      /\ vmiPhase' = IF child["VMI"] = "absent" THEN "Pending" ELSE vmiPhase
      /\ UNCHANGED <<dvSource, pvc, disk, snapshot, snapData, work>>
  BY KindsEnumerated DEF IInv, TypeOK, ClusterTypeOK, EnsureMachine, EnsureVMI, Proceed, Exists
<1>2. job = "converge"
  BY <1>1 DEF IInv, JobAtStep, EnsureSteps
<1>3. WorkIsSomewhere'
  BY <1>1 DEF WorkFacts, WorkIsSomewhere, Bound, Taken
<1>4. GoingVM' /\ AtRest' /\ InSnapshot' /\ (Taken' => Taken)
  BY <1>1, <1>2, ConvergesUnpaused DEF WorkFacts, GoingVM, AtRest, InSnapshot, Taken, Exists
<1>5. PassHasSeen'
  BY <1>1, <1>2 DEF PassHasSeen
<1> QED
  BY <1>1, <1>2, <1>3, <1>4, <1>5, WorkAlong DEF WorkFacts

\* The other objects do not matter to the work.
LEMMA WorkOtherObjects ==
  ASSUME IInv, WorkFacts, job \notin TeardownJobs,
         \/ EnsureSecret \/ EnsureService \/ EnsureNetworkPolicy
         \/ DeleteNetworkPolicy \/ DeleteService
  PROVE  WorkFacts'
<1>1. CASE EnsureSecret \/ EnsureService \/ EnsureNetworkPolicy
  <2>1. /\ UNCHANGED <<cr, cache, ls, job, result>> /\ SameObjects
        /\ pc' \in {"ensureVMI", "ensureNetworkPolicy", "observe"} /\ pc \in EnsureSteps
    BY <1>1, KindsEnumerated
    DEF IInv, TypeOK, ClusterTypeOK, EnsureSecret, EnsureService, EnsureNetworkPolicy, EnsurePlain,
        Proceed, EnsureSteps, SameObjects
  <2>2. job = "converge"
    BY <2>1 DEF IInv, JobAtStep
  <2>3. PassHasSeen'
    BY <2>1, <2>2 DEF PassHasSeen
  <2> QED
    BY <2>1, <2>2, <2>3, WorkMovesOn DEF WorkFacts
<1>2. CASE DeleteNetworkPolicy \/ DeleteService
  <2>1. job = "suspend" /\ pc \in {"deleteNetworkPolicy", "deleteService"}
    BY <1>2 DEF IInv, JobAtStep, DeleteNetworkPolicy, DeleteService
  <2>2. /\ UNCHANGED <<cr, cache, ls, job, result>>
        /\ pc' \in {"deleteService", "createSnapshot"}
    BY <1>2, <2>1 DEF DeleteNetworkPolicy, DeleteService, Proceed
  <2>3. SameObjects
    BY <1>2, OneDeleted, KindsEnumerated
    DEF IInv, TypeOK, DeleteNetworkPolicy, DeleteService, SameObjects
  <2>4. PassHasSeen'
    BY <2>1, <2>2, <2>3 DEF WorkFacts, PassHasSeen, SameObjects
  <2> QED
    BY <2>1, <2>2, <2>3, <2>4, WorkMovesOn DEF WorkFacts
<1> QED
  BY <1>1, <1>2

\* A snapshot is taken of a disk that no VM changes any more.
LEMMA WorkTakeSnapshot ==
  ASSUME IInv, WorkFacts, TakeSnapshot
  PROVE  WorkFacts'
<1>1. /\ UNCHANGED <<cr, cache, ls, job, result>> /\ pc = "createSnapshot"
      /\ pc' = "patchSnapshotName"
      /\ child'["VMI"] = child["VMI"] /\ child'["DataVolume"] = child["DataVolume"]
      /\ child'["VolumeSnapshot"] = IF child["VolumeSnapshot"] = "absent" THEN "present"
                                    ELSE child["VolumeSnapshot"]
      /\ snapshot' = IF child["VolumeSnapshot"] = "absent" THEN "cutting" ELSE snapshot
      /\ UNCHANGED <<vmiPhase, dvSource, pvc, disk, snapData, work>>
  BY KindsEnumerated DEF IInv, TypeOK, ClusterTypeOK, TakeSnapshot, CreateSnapshot, Proceed, Exists
<1>2. job = "suspend" /\ ~OnRecord(ls) /\ cr.phase /= "Paused" /\ (OnRecord(cache) => OnRecord(cr))
  BY <1>1 DEF IInv, JobAtStep, WorkFacts, SuspendsUnrecorded
<1>3. cr.paused /\ cache.paused /\ child["VMI"] /= "present"
  BY <1>1, <1>2 DEF WorkFacts, PausedCopies, PassHasSeen
<1>4. WorkIsSomewhere'
  BY <1>1 DEF WorkFacts, WorkIsSomewhere, Bound, Taken
<1>5. GoingVM' /\ AtRest'
  BY <1>1, <1>2, <1>3 DEF WorkFacts, GoingVM, AtRest, Taken, Exists
<1>6. PausedCopies'
  BY <1>1 DEF WorkFacts, PausedCopies
<1>7. InSnapshot' /\ RestoresOnRecord'
  BY <1>1, <1>2, <1>3 DEF WorkFacts, InSnapshot, RestoresOnRecord, OnRecord, Taken, Exists
<1>8. PassHasSeen'
  BY <1>1, <1>2, <1>3 DEF PassHasSeen
<1>9. RecordKept' /\ SuspendsUnrecorded' /\ ParksOnRecord'
  BY <1>1, <1>2 DEF WorkFacts, RecordKept, SuspendsUnrecorded, ParksOnRecord, OnRecord
<1> QED
  BY <1>1, <1>4, <1>5, <1>6, <1>7, <1>8, <1>9 DEF WorkFacts

\* A pass that goes on to delete the disk has seen a usable snapshot, which is
\* on record.
LEMMA WorkSnapshotIsReady ==
  ASSUME IInv, WorkFacts, SnapshotIsReady
  PROVE  WorkFacts'
<1>1. /\ UNCHANGED <<cr, cache, ls, job, result, clusterVars>> /\ pc = "awaitSnapshot"
      /\ pc' = "deleteDataVolume" /\ Exists("VolumeSnapshot") /\ snapshot = "ready"
  BY DEF SnapshotIsReady, SnapshotReady, Proceed
<1>2. job = "park" /\ OnRecord(ls)
  BY <1>1 DEF IInv, JobAtStep, WorkFacts, ParksOnRecord
<1>3. Taken
  BY <1>1, <1>2 DEF WorkFacts, PausedCopies, AtRest, InSnapshot
<1>4. OnRecord(cr)
  BY <1>2, <1>3 DEF WorkFacts, RecordKept
<1>5. SameObjects
  BY <1>1, ClusterUnchanged
<1>6. PassHasSeen'
  BY <1>1, <1>2, <1>3, <1>5 DEF PassHasSeen, Taken, SameObjects
<1> QED
  BY <1>1, <1>4, <1>5, <1>6, WorkMovesOn DEF WorkFacts

\* A VM that is seen up runs on a populated disk.
LEMMA WorkObserve ==
  ASSUME IInv, WorkFacts, NEW probed \in BOOLEAN, ObserveWith(probed)
  PROVE  WorkFacts'
<1>1. /\ UNCHANGED <<cr, cache, ls, job, clusterVars>> /\ pc = "observe" /\ pc' = "patchPhase"
  BY DEF ObserveWith
<1>2. job = "converge"
  BY <1>1 DEF IInv, JobAtStep
<1>3. result'.phase /= "Paused" /\ (result'.drop = "snap" => ObservedPhase = "Running")
  BY DEF ObserveWith, ObservedPhase
<1>4. ObservedPhase = "Running" => child["VMI"] = "present" /\ vmiPhase \in {"Running", "Serving"}
  BY <1>2, ConvergesUnpaused, KindsEnumerated
  DEF IInv, TypeOK, ClusterTypeOK, ObservedPhase, Exists
<1>5. ObservedPhase = "Running" => Bound
  BY <1>4 DEF WorkFacts, WorkIsSomewhere
<1>6. SameObjects
  BY <1>1, ClusterUnchanged
<1>7. PassHasSeen'
  BY <1>1, <1>2, <1>3, <1>5, <1>6 DEF PassHasSeen, Bound, SameObjects
<1> QED
  BY <1>1, <1>2, <1>3, <1>6, <1>7, WorkMovesOn

\* The next call of a converging pass that has looked at the VM.
LEMMA WorkKeepPhase ==
  ASSUME IInv, WorkFacts, KeepPhase
  PROVE  WorkFacts'
<1>1. /\ UNCHANGED <<cr, cache, ls, job, result, clusterVars>> /\ pc = "patchPhase"
      /\ pc' = AfterPhase
  BY DEF KeepPhase, Proceed
<1>2. job = "converge" /\ result.drop \in {"", "snap"}
  BY <1>1 DEF IInv, JobAtStep, TypeOK, Results
<1>3. pc' = "rest" \/ (pc' = "dropSnapshot" /\ Bound)
  BY <1>1, <1>2 DEF AfterPhase, WorkFacts, PassHasSeen
<1>4. SameObjects
  BY <1>1, ClusterUnchanged
<1>5. PassHasSeen'
  BY <1>1, <1>2, <1>3, <1>4 DEF PassHasSeen, Bound, SameObjects
<1> QED
  BY <1>1, <1>2, <1>4, <1>5, WorkMovesOn DEF WorkFacts

\* Frame lemma: a converging pass writes the resource and keeps its copy of it.
LEMMA WorkConvergeWrites ==
  ASSUME WorkFacts, SameObjects, job = "converge", ls' = cr', UNCHANGED <<cache, job, result>>,
         cr'.paused = cr.paused, cr'.phase /= "Paused", Taken => (OnRecord(cr) => OnRecord(cr')),
         PassHasSeen'
  PROVE  WorkFacts'
<1>1. WorkIsSomewhere' /\ (Taken' = Taken)
  BY SameWork DEF WorkFacts, SameObjects, Taken
<1>2. GoingVM' /\ AtRest'
  BY DEF WorkFacts, SameObjects, GoingVM, AtRest, Taken, Exists
<1>3. PausedCopies' /\ InSnapshot'
  BY ConvergesUnpaused DEF WorkFacts, PausedCopies, InSnapshot
<1>4. RestoresOnRecord' /\ RecordKept'
  BY <1>1, ConvergesUnpaused DEF WorkFacts, RestoresOnRecord, RecordKept, OnRecord
<1>5. SuspendsUnrecorded' /\ ParksOnRecord'
  BY DEF SuspendsUnrecorded, ParksOnRecord
<1> QED
  BY <1>1, <1>2, <1>3, <1>4, <1>5 DEF WorkFacts

LEMMA WorkPatchPhase ==
  ASSUME IInv, WorkFacts, PatchPhase
  PROVE  WorkFacts'
<1>1. /\ UNCHANGED <<cache, job, result, clusterVars>> /\ pc = "patchPhase" /\ pc' = AfterPhase
      /\ ls' = cr'
  BY DEF PatchPhase, OperatorWrites
<1>2. /\ cr'.paused = cr.paused /\ cr'.snapshotName = cr.snapshotName
      /\ cr'.phase \in {cr.phase, result.phase}
  BY DEF IInv, TypeOK, Sessions, PatchPhase, OperatorWrites, Merge
<1>3. job = "converge" /\ result.drop \in {"", "snap"}
  BY <1>1 DEF IInv, JobAtStep, TypeOK, Results
<1>4. pc' = "rest" \/ (pc' = "dropSnapshot" /\ Bound)
  BY <1>1, <1>3 DEF AfterPhase, WorkFacts, PassHasSeen
<1>5. SameObjects
  BY <1>1, ClusterUnchanged
<1>6. PassHasSeen'
  BY <1>1, <1>3, <1>4, <1>5 DEF PassHasSeen, Bound, SameObjects
<1>7. cr'.phase /= "Paused"
  BY <1>2, <1>3, ConvergesUnpaused DEF WorkFacts
<1> QED
  BY <1>1, <1>2, <1>3, <1>5, <1>6, <1>7, WorkConvergeWrites DEF OnRecord

LEMMA WorkClearSnapshotName ==
  ASSUME IInv, WorkFacts, ClearSnapshotName
  PROVE  WorkFacts'
<1>1. /\ UNCHANGED <<cache, job, result, clusterVars>> /\ pc = "clearSnapshotName" /\ pc' = "rest"
      /\ ls' = cr'
  BY DEF ClearSnapshotName, OperatorWrites
<1>2. cr'.paused = cr.paused /\ cr'.phase = cr.phase
  BY DEF IInv, TypeOK, Sessions, ClearSnapshotName, OperatorWrites
<1>3. job = "converge" /\ ~Taken
  BY <1>1 DEF IInv, JobAtStep, WorkFacts, PassHasSeen
<1>4. SameObjects
  BY <1>1, ClusterUnchanged
<1>5. PassHasSeen'
  BY <1>1, <1>3 DEF PassHasSeen
<1> QED
  BY <1>1, <1>2, <1>3, <1>4, <1>5, ConvergesUnpaused, WorkConvergeWrites

\* Frame lemma: a step of the cluster, or of the student in the VM.
LEMMA WorkOutside ==
  ASSUME WorkFacts, UNCHANGED <<cr, operatorVars>>, WorkIsSomewhere', AtRest',
         UNCHANGED child, snapshot = "ready" => snapshot' = "ready", Bound => Bound'
  PROVE  WorkFacts'
<1>1. UNCHANGED <<cr, cache, ls, job, pc, result>>
  BY DEF operatorVars
<1>2. GoingVM' /\ InSnapshot' /\ (Taken' => Taken)
  BY <1>1 DEF WorkFacts, GoingVM, InSnapshot, OnRecord, Taken, Exists
<1>3. PassHasSeen'
  BY <1>1 DEF WorkFacts, PassHasSeen, Taken
<1> QED
  BY <1>1, <1>2, <1>3, WorkAlong DEF WorkFacts, ParksOnRecord

\* A restored disk has what the snapshot has.
LEMMA WorkPopulate ==
  ASSUME IInv, WorkFacts, Populate, UNCHANGED <<cr, operatorVars>>
  PROVE  WorkFacts'
<1>1. /\ child["DataVolume"] = "present" /\ pvc = "none" /\ pvc' = "bound"
      /\ disk' = (IF dvSource = "snapshot" THEN snapData ELSE 0)
      /\ UNCHANGED <<child, vmiPhase, dvSource, snapshot, snapData, work>>
  BY DEF Populate
<1>2. work \in Nat
  BY MaxWorkAssumption DEF IInv, TypeOK, ClusterTypeOK
<1>3. ~Bound /\ Bound'
  BY <1>1 DEF Bound
<1>4. disk' = work
  BY <1>1, <1>2, <1>3 DEF WorkFacts, WorkIsSomewhere
<1>5. WorkIsSomewhere'
  BY <1>1, <1>3, <1>4 DEF WorkFacts, WorkIsSomewhere
<1>6. AtRest'
  BY <1>1 DEF operatorVars, WorkFacts, AtRest, Taken, Exists
<1> QED
  BY <1>1, <1>3, <1>5, <1>6, WorkOutside

\* A VM runs on a populated disk, and its end loses nothing.
LEMMA WorkBoot ==
  ASSUME IInv, WorkFacts, Boot \/ VmFails, UNCHANGED <<cr, operatorVars>>
  PROVE  WorkFacts'
<1>1. /\ vmiPhase' \in {"Running", "Serving"} => Bound
      /\ UNCHANGED <<child, dvSource, pvc, disk, snapshot, snapData, work>>
  BY DEF Boot, VmFails, Bound
<1>2. Bound' = Bound /\ Taken' = Taken
  BY <1>1 DEF Bound, Taken
<1>3. WorkIsSomewhere'
  BY <1>1, <1>2 DEF WorkFacts, WorkIsSomewhere
<1>4. AtRest'
  BY <1>1 DEF operatorVars, WorkFacts, AtRest, Taken, Exists
<1> QED
  BY <1>1, <1>2, <1>3, <1>4, WorkOutside

\* A snapshot is cut from a current disk.
LEMMA WorkCutSnapshot ==
  ASSUME IInv, WorkFacts, CutSnapshot, UNCHANGED <<cr, operatorVars>>
  PROVE  WorkFacts'
<1>1. /\ snapshot = "cutting" /\ snapshot' = "ready" /\ pvc = "bound" /\ snapData' = disk
      /\ UNCHANGED <<child, vmiPhase, dvSource, pvc, disk, work>>
  BY DEF CutSnapshot
<1>2. Bound' = Bound /\ Taken' = Taken
  BY <1>1 DEF Bound, Taken
<1>3. disk = work
  BY <1>1 DEF WorkFacts, WorkIsSomewhere
<1>4. WorkIsSomewhere'
  BY <1>1, <1>2, <1>3 DEF WorkFacts, WorkIsSomewhere
<1>5. AtRest'
  BY <1>1, <1>3 DEF operatorVars, WorkFacts, AtRest, Taken, Exists
<1> QED
  BY <1>1, <1>2, <1>4, <1>5, WorkOutside

\* Only a disk without its DataVolume is reclaimed.
LEMMA WorkReclaimDisk ==
  ASSUME IInv, WorkFacts, ReclaimDisk, UNCHANGED <<cr, operatorVars>>
  PROVE  WorkFacts'
<1>1. /\ pvc = "orphaned" /\ pvc' = "none" /\ disk' = 0
      /\ UNCHANGED <<child, vmiPhase, dvSource, snapshot, snapData, work>>
  BY DEF ReclaimDisk
<1>2. ~Bound /\ ~Bound' /\ Taken' = Taken
  BY <1>1 DEF Bound, Taken
<1>3. WorkIsSomewhere'
  BY <1>1, <1>2 DEF WorkFacts, WorkIsSomewhere
<1>4. AtRest'
  BY <1>1 DEF operatorVars, WorkFacts, AtRest, Taken, Exists
<1> QED
  BY <1>1, <1>2, <1>3, <1>4, WorkOutside

\* The student works on the disk only while there is no snapshot to fall behind.
LEMMA WorkDoWork ==
  ASSUME IInv, WorkFacts, DoWork, UNCHANGED <<cr, operatorVars>>
  PROVE  WorkFacts'
<1>1. /\ child["VMI"] = "present" /\ vmiPhase = "Serving"
      /\ work' = work + 1 /\ disk' = disk + 1
      /\ UNCHANGED <<child, vmiPhase, dvSource, pvc, snapshot, snapData>>
  BY DEF DoWork
<1>2. work \in Nat /\ disk \in Nat
  BY MaxWorkAssumption DEF IInv, TypeOK, ClusterTypeOK
<1>3. Bound /\ Bound'
  BY <1>1 DEF WorkFacts, WorkIsSomewhere, Bound
<1>4. disk' = work' /\ work' /= 0
  BY <1>1, <1>2, <1>3 DEF WorkFacts, WorkIsSomewhere, Bound
<1>5. WorkIsSomewhere'
  BY <1>1, <1>3, <1>4 DEF WorkFacts, WorkIsSomewhere, Bound
<1>6. AtRest'
  BY <1>1 DEF operatorVars, WorkFacts, AtRest, Taken, Exists
<1> QED
  BY <1>1, <1>3, <1>5, <1>6, WorkOutside

\* What finally goes was already given up.
LEMMA WorkChildGone ==
  ASSUME IInv, WorkFacts, NEW k \in Lingers, ChildGone(k), UNCHANGED <<cr, operatorVars>>
  PROVE  WorkFacts'
<1>1. UNCHANGED <<cr, cache, ls, job, pc, result>>
  BY DEF operatorVars
<1>2. /\ child[k] = "terminating" /\ child'[k] = "absent"
      /\ \A j \in Kinds \ {k} : child'[j] = child[j]
      /\ k /= "DataVolume" => pvc' = pvc
      /\ k = "DataVolume" => pvc' /= "bound"
      /\ UNCHANGED <<vmiPhase, dvSource, disk, snapshot, snapData, work>>
  BY LingersAssumption DEF IInv, TypeOK, ClusterTypeOK, ChildGone, Orphaned
<1>3. /\ Taken' = Taken
      /\ child'["DataVolume"] = "present" <=> child["DataVolume"] = "present"
      /\ child'["VMI"] = "present" <=> child["VMI"] = "present"
      /\ child'["VMI"] = "terminating" => child["VMI"] = "terminating"
      /\ child'["VolumeSnapshot"] = "terminating" => child["VolumeSnapshot"] = "terminating"
      /\ Exists("VolumeSnapshot")' => Exists("VolumeSnapshot")
      /\ Exists("VMI")' => Exists("VMI")
  BY <1>2, KindsEnumerated DEF Taken, Exists
<1>4. Bound' = Bound
  BY <1>2, <1>3 DEF Bound
<1>5. pvc' = "bound" => pvc = "bound" /\ child'["DataVolume"] = child["DataVolume"]
  BY <1>2, KindsEnumerated
<1>6. WorkIsSomewhere'
  BY <1>2, <1>3, <1>4, <1>5 DEF WorkFacts, WorkIsSomewhere
<1>7. GoingVM' /\ AtRest' /\ InSnapshot'
  BY <1>1, <1>2, <1>3 DEF WorkFacts, GoingVM, AtRest, InSnapshot, OnRecord
<1>8. PassHasSeen'
  BY <1>1, <1>2, <1>3, <1>4 DEF WorkFacts, PassHasSeen
<1> QED
  BY <1>1, <1>3, <1>6, <1>7, <1>8, WorkAlong DEF WorkFacts, ParksOnRecord

\* A pause comes when no snapshot is left that it could be taken for.
LEMMA WorkPause ==
  ASSUME IInv, WorkFacts, Pause, UnhurriedStep
  PROVE  WorkFacts'
<1>1. /\ UNCHANGED <<cache, ls, job, pc, result, clusterVars>> /\ ~cr.paused /\ cr'.paused
      /\ cr'.phase = cr.phase
  BY DEF IInv, TypeOK, Sessions, Pause, Request
<1>2. SameObjects /\ ~Taken /\ ~Exists("VolumeSnapshot")
  BY <1>1, ClusterUnchanged DEF UnhurriedStep, Taken, Exists
<1>3. cr.phase /= "Paused" /\ cache.phase /= "Paused" /\ job /= "unpark"
  BY <1>2 DEF WorkFacts, InSnapshot
<1>4. WorkIsSomewhere'
  BY <1>2, SameWork DEF WorkFacts
<1>5. GoingVM' /\ AtRest'
  BY <1>1, <1>2 DEF WorkFacts, SameObjects, GoingVM, AtRest, Exists
<1>6. PausedCopies' /\ InSnapshot'
  BY <1>1, <1>3 DEF WorkFacts, PausedCopies, InSnapshot
<1>7. RestoresOnRecord' /\ RecordKept'
  BY <1>2 DEF RestoresOnRecord, RecordKept, Taken, SameObjects
<1>8. PassHasSeen'
  BY <1>1, <1>2 DEF WorkFacts, PassHasSeen, SameObjects, Taken, Bound
<1>9. SuspendsUnrecorded' /\ ParksOnRecord'
  <2>1. cr'.snapshotName = cr.snapshotName
    BY DEF IInv, TypeOK, Sessions, Pause, Request
  <2> QED
    BY <1>1, <2>1 DEF WorkFacts, SuspendsUnrecorded, ParksOnRecord, OnRecord
<1> QED
  BY <1>1, <1>4, <1>5, <1>6, <1>7, <1>8, <1>9 DEF WorkFacts

\* A resume comes when the session is Paused and its VM gone.
LEMMA WorkResume ==
  ASSUME IInv, WorkFacts, Resume, UnhurriedStep
  PROVE  WorkFacts'
<1>1. /\ UNCHANGED <<cache, ls, job, pc, result, clusterVars>> /\ cr.paused /\ ~cr'.paused
      /\ cr'.phase = cr.phase /\ cr'.snapshotName = cr.snapshotName
  BY DEF IInv, TypeOK, Sessions, Resume, Request
<1>2. SameObjects /\ cr.phase = "Paused" /\ ~Exists("VMI")
  BY <1>1, ClusterUnchanged DEF UnhurriedStep
<1>3. Taken /\ OnRecord(cr) /\ OnRecord(cache) /\ job /= "converge"
  BY <1>2 DEF WorkFacts, InSnapshot
<1>4. WorkIsSomewhere'
  BY <1>2, SameWork DEF WorkFacts
<1>5. GoingVM' /\ AtRest'
  BY <1>1, <1>2 DEF SameObjects, GoingVM, AtRest, Exists
<1>6. PausedCopies'
  BY <1>1, <1>2 DEF WorkFacts, PausedCopies
<1>7. InSnapshot' /\ RestoresOnRecord'
  BY <1>1, <1>2, <1>3
  DEF WorkFacts, SameObjects, InSnapshot, RestoresOnRecord, OnRecord, Taken, Exists
<1>8. PassHasSeen'
  BY <1>1, <1>2 DEF WorkFacts, PassHasSeen, SameObjects, Taken, Bound
<1>9. RecordKept' /\ SuspendsUnrecorded' /\ ParksOnRecord'
  BY <1>1, <1>2 DEF WorkFacts, RecordKept, SuspendsUnrecorded, ParksOnRecord, OnRecord, Taken,
                    SameObjects
<1> QED
  BY <1>1, <1>4, <1>5, <1>6, <1>7, <1>8, <1>9 DEF WorkFacts

\* The cached copy catches up.
LEMMA WorkWatch ==
  ASSUME WorkFacts, Watch
  PROVE  WorkFacts'
<1>1. UNCHANGED <<cr, ls, job, pc, result, clusterVars>> /\ cache' = cr
  BY DEF Watch
<1>2. SameObjects
  BY <1>1, ClusterUnchanged
<1>3. WorkIsSomewhere'
  BY <1>2, SameWork DEF WorkFacts
<1>4. GoingVM' /\ AtRest'
  BY <1>1, <1>2 DEF WorkFacts, SameObjects, GoingVM, AtRest, Taken, Exists
<1>5. PausedCopies'
  BY <1>1 DEF WorkFacts, PausedCopies
<1>6. InSnapshot' /\ RestoresOnRecord'
  BY <1>1, <1>2 DEF WorkFacts, SameObjects, InSnapshot, RestoresOnRecord, OnRecord, Taken, Exists
<1>7. PassHasSeen'
  BY <1>1, <1>2 DEF WorkFacts, PassHasSeen, SameObjects, Taken, Bound
<1>8. RecordKept' /\ SuspendsUnrecorded' /\ ParksOnRecord'
  BY <1>1, <1>2 DEF WorkFacts, RecordKept, SuspendsUnrecorded, ParksOnRecord, OnRecord, Taken,
                    SameObjects
<1> QED
  BY <1>1, <1>3, <1>4, <1>5, <1>6, <1>7, <1>8 DEF WorkFacts

\* A restarted operator forgets its pass and reads the resource again.
LEMMA WorkRestart ==
  ASSUME WorkFacts, Restart
  PROVE  WorkFacts'
<1>1. /\ UNCHANGED <<cr, clusterVars>> /\ cache' = cr /\ ls' = Absent
      /\ job' = "none" /\ pc' = "idle" /\ result' = NoResult
  BY DEF Restart
<1>2. SameObjects /\ ~OnRecord(ls') /\ NoResult.phase /= "Paused"
  BY <1>1, ClusterUnchanged DEF Absent, Created, OnRecord, NoResult
<1>3. WorkIsSomewhere'
  BY <1>2, SameWork DEF WorkFacts
<1>4. GoingVM' /\ AtRest'
  BY <1>1, <1>2 DEF WorkFacts, SameObjects, GoingVM, AtRest, Taken, Exists
<1>5. PausedCopies'
  BY <1>1 DEF WorkFacts, PausedCopies
<1>6. InSnapshot' /\ RestoresOnRecord'
  BY <1>1, <1>2 DEF WorkFacts, SameObjects, InSnapshot, RestoresOnRecord, OnRecord, Taken, Exists
<1>7. PassHasSeen'
  BY <1>1 DEF PassHasSeen
<1>8. RecordKept' /\ SuspendsUnrecorded' /\ ParksOnRecord'
  BY <1>1, <1>2 DEF RecordKept, SuspendsUnrecorded, ParksOnRecord, OnRecord
<1> QED
  BY <1>1, <1>2, <1>3, <1>4, <1>5, <1>6, <1>7, <1>8 DEF WorkFacts

\* Paused is reported when the snapshot is usable, on record, and all there is.
LEMMA WorkPatchPaused ==
  ASSUME IInv, WorkFacts, PatchPaused
  PROVE  WorkFacts'
<1>1. /\ UNCHANGED <<cache, clusterVars>> /\ ls' = Absent /\ pc = "patchPaused"
      /\ job' = "none" /\ pc' = "idle" /\ result' = NoResult
  BY DEF PatchPaused, WriteAndReturn, EndPass
<1>2. cr'.paused = cr.paused /\ cr'.phase = "Paused" /\ cr'.snapshotName = cr.snapshotName
  BY DEF IInv, TypeOK, Sessions, PatchPaused, WriteAndReturn
<1>3. SameObjects /\ ~OnRecord(ls') /\ NoResult.phase /= "Paused"
  BY <1>1, ClusterUnchanged DEF Absent, Created, OnRecord, NoResult
<1>4. job = "park" /\ OnRecord(cr) /\ OnRecord(cache)
  BY <1>1 DEF IInv, JobAtStep, WorkFacts, ParksOnRecord
<1>5. Taken /\ snapshot = "ready" /\ child["DataVolume"] /= "present"
  BY <1>1, <1>4 DEF WorkFacts, PassHasSeen
<1>6. /\ ~cr.paused => ~Exists("VMI")
      /\ cache.paused \/ cache.phase = "Paused"
      /\ cache.phase = "Paused" /\ ~cache.paused => ~cr.paused
  BY <1>4 DEF WorkFacts, PausedCopies, InSnapshot
<1>7. WorkIsSomewhere'
  BY <1>3, SameWork DEF WorkFacts
<1>8. GoingVM' /\ AtRest'
  BY <1>1, <1>2, <1>3 DEF WorkFacts, SameObjects, GoingVM, AtRest, Taken, Exists
<1>9. PausedCopies'
  BY <1>1, <1>2, <1>6 DEF PausedCopies
<1>10. InSnapshot' /\ RestoresOnRecord'
  BY <1>1, <1>2, <1>3, <1>4, <1>5, <1>6
  DEF SameObjects, InSnapshot, RestoresOnRecord, OnRecord, Taken, Exists
<1>11. PassHasSeen'
  BY <1>1 DEF PassHasSeen
<1>12. RecordKept' /\ SuspendsUnrecorded' /\ ParksOnRecord'
  BY <1>1, <1>2, <1>4 DEF RecordKept, SuspendsUnrecorded, ParksOnRecord, OnRecord
<1> QED
  BY <1>1, <1>3, <1>7, <1>8, <1>9, <1>10, <1>11, <1>12 DEF WorkFacts

\* A resumed session leaves Paused with its snapshot on record.
LEMMA WorkPatchResumed ==
  ASSUME IInv, WorkFacts, PatchResumed
  PROVE  WorkFacts'
<1>1. /\ UNCHANGED <<cache, clusterVars>> /\ ls' = Absent /\ pc = "patchResumed"
      /\ job' = "none" /\ pc' = "idle" /\ result' = NoResult
  BY DEF PatchResumed, WriteAndReturn, EndPass
<1>2. cr'.paused = cr.paused /\ cr'.phase /= "Paused" /\ cr'.snapshotName = cr.snapshotName
  BY DEF IInv, TypeOK, Sessions, PatchResumed, WriteAndReturn
<1>3. SameObjects /\ ~OnRecord(ls') /\ NoResult.phase /= "Paused"
  BY <1>1, ClusterUnchanged DEF Absent, Created, OnRecord, NoResult
<1>4. job = "unpark" /\ ~cr.paused /\ ~cache.paused
  BY <1>1 DEF IInv, JobAtStep, WorkFacts, PausedCopies
<1>5. WorkIsSomewhere'
  BY <1>3, SameWork DEF WorkFacts
<1>6. GoingVM' /\ AtRest' /\ PausedCopies'
  BY <1>1, <1>2, <1>3, <1>4 DEF WorkFacts, SameObjects, GoingVM, AtRest, PausedCopies
<1>7. InSnapshot' /\ RestoresOnRecord'
  BY <1>1, <1>2, <1>3, <1>4
  DEF WorkFacts, SameObjects, InSnapshot, RestoresOnRecord, OnRecord, Taken, Exists
<1>8. PassHasSeen'
  BY <1>1 DEF PassHasSeen
<1>9. RecordKept' /\ SuspendsUnrecorded' /\ ParksOnRecord'
  BY <1>1, <1>2, <1>3
  DEF WorkFacts, RecordKept, SuspendsUnrecorded, ParksOnRecord, OnRecord, SameObjects, Taken
<1> QED
  BY <1>1, <1>3, <1>5, <1>6, <1>7, <1>8, <1>9 DEF WorkFacts

\* Passes that end without a new phase.
LEMMA WorkReturns ==
  ASSUME IInv, WorkFacts,
         \/ AddFinalizer \/ PatchSnapshotName \/ Rest \/ SnapshotNotReady \/ Conflict \/ CallFails
  PROVE  WorkFacts'
<1>1. /\ UNCHANGED <<cache, clusterVars>> /\ ls' = Absent
      /\ job' = "none" /\ pc' = "idle" /\ result' = NoResult
  BY DEF AddFinalizer, PatchSnapshotName, Rest, SnapshotNotReady, Conflict, CallFails, Return,
         WriteAndReturn, EndPass
<1>2. SameObjects
  BY <1>1, ClusterUnchanged
<1>3. CASE AddFinalizer \/ PatchSnapshotName
  <2>1. cr'.paused = cr.paused /\ cr'.phase = cr.phase /\ (OnRecord(cr) => OnRecord(cr'))
    BY <1>3 DEF IInv, TypeOK, Sessions, AddFinalizer, PatchSnapshotName, WriteAndReturn, OnRecord
  <2> QED
    BY <1>1, <1>2, <2>1, WorkAtReturn
<1>4. CASE Rest \/ SnapshotNotReady \/ Conflict \/ CallFails
  <2>1. UNCHANGED cr
    BY <1>4 DEF Rest, SnapshotNotReady, Conflict, CallFails, Return
  <2> QED
    BY <1>1, <1>2, <2>1, WorkAtReturn
<1> QED
  BY <1>3, <1>4

\* Passes of a session whose end is not seen.
LEMMA WorkStarts ==
  ASSUME IInv, WorkFacts, ~Deleting(cache), ~Due(cache), StartPass
  PROVE  WorkFacts'
<1>1. CASE NothingToDo
  BY <1>1, ClusterUnchanged, WorkFrame DEF NothingToDo, SameResource
<1>2. StartFinalize \/ StartExpire => FALSE
  BY DEF StartFinalize, StartExpire
<1>3. CASE StartAdopt \/ StartSuspend \/ StartPark \/ StartUnpark \/ StartConverge
  <2>1. /\ UNCHANGED <<cr, cache, result, clusterVars>> /\ ls' = cache /\ pc = "idle"
    BY <1>3 DEF StartAdopt, StartSuspend, StartPark, StartUnpark, StartConverge, Start
  <2>2. \/ job' = "adopt" /\ pc' = "addFinalizer"
        \/ job' = "suspend" /\ pc' = "deleteVMI" /\ Pausing(cache) /\ ~OnRecord(cache)
        \/ job' = "park" /\ pc' = "awaitSnapshot" /\ Pausing(cache) /\ OnRecord(cache)
        \/ job' = "unpark" /\ pc' = "patchResumed" /\ Resuming(cache)
        \/ job' = "converge" /\ Running(cache) /\ pc' = "ensureDataVolume"
    BY <1>3, RecordTypes
    DEF StartAdopt, StartSuspend, StartPark, StartUnpark, StartConverge, Start, IInv, TypeOK
  <2>3. SameObjects /\ job = "none"
    BY <2>1, ClusterUnchanged DEF IInv, JobAtStep
  <2> QED
    BY <2>1, <2>2, <2>3, WorkAtStart DEF WorkFacts
<1>4. CASE StartUnresolved
  <2>1. /\ UNCHANGED <<cr, cache, clusterVars>> /\ ls' = cache /\ pc = "idle" /\ Running(cache)
        /\ job' = "converge" /\ pc' = "patchPhase"
        /\ result' = [NoResult EXCEPT !.phase = "Failed"]
    BY <1>4 DEF StartUnresolved
  <2>2. result'.phase /= "Paused" /\ result'.drop /= "snap"
    BY <2>1 DEF NoResult
  <2>3. SameObjects /\ job = "none"
    BY <2>1, ClusterUnchanged DEF IInv, JobAtStep
  <2> QED
    BY <2>1, <2>2, <2>3, WorkAtStart
<1> QED
  BY <1>1, <1>2, <1>3, <1>4 DEF StartPass

\* Requests that neither pause nor resume.
LEMMA WorkRequests ==
  ASSUME IInv, WorkFacts, Expire \/ Delete \/ MarkStepComplete
  PROVE  WorkFacts'
<1>1. UNCHANGED <<cache, ls, job, pc, result, clusterVars>>
  BY DEF Expire, Delete, MarkStepComplete, Request
<1>2. SameResource
  BY DEF IInv, TypeOK, Sessions, Expire, Delete, MarkStepComplete, Request, SameResource
<1> QED
  BY <1>1, <1>2, ClusterUnchanged, WorkFrame

LEMMA InitWork == Init => WorkFacts /\ ConvergesSafely
<1> SUFFICES ASSUME Init PROVE WorkFacts /\ ConvergesSafely
  OBVIOUS
<1>1. /\ \A k \in Kinds : child[k] = "absent"
      /\ pvc = "none" /\ disk = 0 /\ snapData = 0 /\ work = 0 /\ job = "none" /\ pc = "idle"
  BY DEF Init, ClusterInit
<1>2. /\ child["VMI"] = "absent" /\ child["DataVolume"] = "absent"
      /\ child["VolumeSnapshot"] = "absent"
  BY <1>1, KindsEnumerated
<1>3. /\ ~cr.paused /\ ~cache.paused /\ cr.phase = "" /\ cache.phase = "" /\ result.phase = ""
  BY DEF Init, Created, Absent, NoResult
<1>4. WorkIsSomewhere /\ GoingVM /\ AtRest
  BY <1>1, <1>2 DEF WorkIsSomewhere, GoingVM, AtRest, Exists
<1>5. PausedCopies /\ InSnapshot
  BY <1>1, <1>3 DEF PausedCopies, InSnapshot
<1>6. RestoresOnRecord /\ RecordKept
  BY <1>2 DEF RestoresOnRecord, RecordKept, Taken
<1>7. PassHasSeen /\ SuspendsUnrecorded /\ ParksOnRecord /\ ConvergesSafely
  BY <1>1 DEF PassHasSeen, SuspendsUnrecorded, ParksOnRecord, ConvergesSafely
<1> QED
  BY <1>3, <1>4, <1>5, <1>6, <1>7 DEF WorkFacts

\* Every step of a session with an unhurried user keeps track of the work.
LEMMA StepWork ==
  ASSUME IInv, WorkInv, [Next]_vars, UnhurriedStep
  PROVE  WorkInv'
<1> SUFFICES ASSUME Unseen' PROVE WorkFacts'
  BY DEF WorkInv
<1>0. WorkFacts /\ job \notin TeardownJobs /\ ~Deleting(cache) /\ ~Due(cache)
      /\ cr.state /= "absent"
  BY StaysUnseen DEF WorkInv, Unseen
<1>1. CASE StartPass
  BY <1>0, <1>1, WorkStarts
<1>2. CASE Teardown
  <2>1. CASE DeleteVMI \/ DeleteNetworkPolicy \/ DeleteService
    <3>1. job = "suspend"
      BY <1>0, <2>1 DEF IInv, JobAtStep, DeleteVMI, DeleteNetworkPolicy, DeleteService
    <3> QED
      BY <1>0, <2>1, <3>1, WorkDeleteVMI, WorkOtherObjects
  <2>2. CASE DeleteDataVolume
    <3>1. job = "park"
      BY <1>0, <2>2 DEF IInv, JobAtStep, DeleteDataVolume
    <3> QED
      BY <1>0, <2>2, <3>1, WorkDeleteDisk
  <2>3. DeleteSnapshot => FALSE
    BY <1>0 DEF IInv, JobAtStep, DeleteSnapshot
  <2> QED
    BY <1>2, <2>1, <2>2, <2>3 DEF Teardown
<1>3. CASE Provision
  <2>1. CASE Observe
    BY <1>0, <2>1, WorkObserve DEF Observe, ProbeAnswers
  <2> QED
    BY <1>0, <1>3, <2>1, WorkEnsureDisk, WorkEnsureMachine, WorkOtherObjects, WorkPatchPhase,
       WorkKeepPhase, WorkDropSnapshot, WorkClearSnapshotName, WorkReturns
    DEF Provision
<1>4. CASE Suspension
  BY <1>0, <1>4, WorkTakeSnapshot, WorkReturns, WorkSnapshotIsReady, WorkPatchPaused,
     WorkPatchResumed
  DEF Suspension
<1>5. CASE Bookkeeping
  <2>1. ~RemoveFinalizer /\ ~PatchExpired
    BY <1>0 DEF IInv, JobAtStep, TeardownJobs, RemoveFinalizer, PatchExpired
  <2> QED
    BY <1>0, <1>5, <2>1, WorkReturns DEF Bookkeeping
<1>6. CASE Server
  BY <1>0, <1>6, WorkRequests, WorkPause, WorkResume DEF Server
<1>7. CASE Faults
  <2>1. CASE ProbeFails
    BY <1>0, <2>1, WorkObserve DEF ProbeFails
  <2>2. CASE VmCrashes
    BY <1>0, <2>2, WorkBoot DEF VmCrashes
  <2> QED
    BY <1>0, <1>7, <2>1, <2>2, WorkReturns, WorkRestart DEF Faults
<1>8. CASE Study
  BY <1>0, <1>8, WorkDoWork DEF Study
<1>9. CASE Watch
  BY <1>0, <1>9, WorkWatch
<1>10. CASE TimerFires \/ Resync \/ TtlPasses \/ UNCHANGED vars
  <2>1. UNCHANGED <<cr, cache, ls, job, pc, result, clusterVars>>
    BY <1>10 DEF TimerFires, Resync, TtlPasses, vars, operatorVars
  <2> QED
    BY <1>0, <2>1, ClusterUnchanged, WorkFrame DEF SameResource
<1>11. CASE ClusterStep
  <2>1. UNCHANGED <<cr, operatorVars>>
    BY <1>11 DEF ClusterStep
  <2> QED
    BY <1>0, <1>11, <2>1, WorkPopulate, WorkBoot, WorkCutSnapshot, WorkReclaimDisk, WorkChildGone
    DEF ClusterStep, Cluster
<1>12. GarbageStep => FALSE
  BY <1>0 DEF GarbageStep
<1> QED
  BY <1>1, <1>2, <1>3, <1>4, <1>5, <1>6, <1>7, <1>8, <1>9, <1>10, <1>11, <1>12 DEF Next, Operator

\* A pass that begins to converge has not seen the session's end.
LEMMA ConvergesUnseen ==
  ASSUME IInv, Running(cache)
  PROVE  Unseen
  BY DEF IInv, CacheIsOld, Running, Active, Adopted, Unseen

\* A pass begins to converge in one of two ways.
LEMMA BeginsToConverge ==
  ASSUME IInv, job /= "converge", job' = "converge", [Next]_vars
  PROVE  StartConverge \/ StartUnresolved
<1>1. CASE StartPass
  BY <1>1
  DEF StartPass, StartFinalize, StartAdopt, StartExpire, StartSuspend, StartPark, StartUnpark, Start,
      NothingToDo
<1>2. Teardown \/ Provision \/ Suspension => job' \in {job, "none"}
  BY DEF Teardown, DeleteVMI, DeleteNetworkPolicy, DeleteService, DeleteDataVolume, DeleteSnapshot,
         Provision, EnsureDisk, EnsureSecret, EnsureMachine, EnsureService, EnsureNetworkPolicy,
         Observe, ObserveWith, PatchPhase, KeepPhase, DropSnapshot, ClearSnapshotName, Rest,
         Suspension, TakeSnapshot, PatchSnapshotName, SnapshotIsReady, SnapshotNotReady, PatchPaused,
         PatchResumed, WriteAndReturn, Return, EndPass, Proceed
<1>3. Bookkeeping \/ Server \/ Faults => job' \in {job, "none"}
  BY DEF Bookkeeping, AddFinalizer, RemoveFinalizer, Conflict, PatchExpired, WriteAndReturn, Return,
         EndPass, Server, Expire, Pause, Resume, Delete, MarkStepComplete, Request, Faults, CallFails,
         ProbeFails, ObserveWith, VmCrashes, Restart, operatorVars
<1>4. \/ Study \/ Watch \/ TimerFires \/ Resync \/ TtlPasses \/ ClusterStep \/ GarbageStep
      \/ UNCHANGED vars
      => job' = job
  BY DEF Study, Watch, TimerFires, Resync, TtlPasses, ClusterStep, GarbageStep, vars, operatorVars
<1> QED
  BY <1>1, <1>2, <1>3, <1>4 DEF Next, Operator

\* Which steps a converging pass and those beside it can take.
LEMMA WhileConverging ==
  ASSUME IInv, job = "converge", job' = "converge", [Next]_vars
  PROVE  \/ Provision \/ ProbeFails \/ VmCrashes \/ Study \/ ClusterStep
         \/ /\ Server \/ Watch \/ TimerFires \/ Resync \/ TtlPasses \/ UNCHANGED vars
            /\ UNCHANGED <<pc, result, clusterVars>>
<1>1. pc /= "idle" /\ cr.state /= "absent"
  BY DEF IInv, JobAtStep, JobStillHolds, AliveJobs
<1>2. ~StartPass /\ ~GarbageStep
  BY <1>1
  DEF StartPass, StartFinalize, StartAdopt, StartExpire, StartSuspend, StartPark, StartUnpark,
      StartConverge, StartUnresolved, NothingToDo, Start, GarbageStep
<1>3. ~Teardown /\ ~Bookkeeping
  BY DEF IInv, JobAtStep, TeardownJobs, Teardown, DeleteVMI, DeleteNetworkPolicy, DeleteService,
         DeleteDataVolume, DeleteSnapshot, Bookkeeping, AddFinalizer, RemoveFinalizer, Conflict,
         PatchExpired
<1>4. ~Suspension
  BY DEF IInv, JobAtStep, Suspension, TakeSnapshot, PatchSnapshotName, SnapshotIsReady,
         SnapshotNotReady, PatchPaused, PatchResumed
<1>5. ~CallFails /\ ~Restart
  BY DEF CallFails, Return, EndPass, Restart
<1>6. Server \/ Watch \/ TimerFires \/ Resync \/ TtlPasses \/ UNCHANGED vars
      => UNCHANGED <<pc, result, clusterVars>>
  BY DEF Server, Expire, Pause, Resume, Delete, MarkStepComplete, Request, Watch, TimerFires, Resync,
         TtlPasses, vars, operatorVars
<1> QED
  BY <1>2, <1>3, <1>4, <1>5, <1>6 DEF Next, Operator, Faults

\* Frame lemma: a call of a converging pass that leaves the objects alone.
LEMMA SafelyOn ==
  ASSUME ConvergesSafely, job = "converge", SameObjects,
         pc' = "patchPhase" /\ result'.drop = "snap" => Bound, pc' = "dropSnapshot" => Bound
  PROVE  ConvergesSafely'
  BY DEF ConvergesSafely, SameObjects, Bound

\* A converging pass creates objects.
LEMMA SafelyEnsures ==
  ASSUME IInv, ConvergesSafely, job = "converge",
         EnsureDisk \/ EnsureMachine \/ EnsureSecret \/ EnsureService \/ EnsureNetworkPolicy
  PROVE  ConvergesSafely'
<1>1. pc' \notin {"patchPhase", "dropSnapshot"}
  BY DEF EnsureDisk, EnsureMachine, EnsureSecret, EnsureService, EnsureNetworkPolicy, Proceed
<1>2. CASE EnsureDisk
  <2>1. /\ child'["VMI"] = child["VMI"] /\ child'["VolumeSnapshot"] = child["VolumeSnapshot"]
        /\ child["DataVolume"] = "present" => child'["DataVolume"] = "present"
        /\ UNCHANGED <<vmiPhase, pvc>>
    BY <1>2, KindsEnumerated DEF IInv, TypeOK, ClusterTypeOK, EnsureDisk, EnsureDataVolume
  <2> QED
    BY <1>1, <2>1 DEF ConvergesSafely, Bound
<1>3. CASE EnsureMachine
  <2>1. /\ child'["DataVolume"] = child["DataVolume"]
        /\ child'["VolumeSnapshot"] = child["VolumeSnapshot"] /\ pvc' = pvc
        /\ child'["VMI"] = IF child["VMI"] = "absent" THEN "present" ELSE child["VMI"]
        /\ vmiPhase' = IF child["VMI"] = "absent" THEN "Pending" ELSE vmiPhase
    BY <1>3, KindsEnumerated DEF IInv, TypeOK, ClusterTypeOK, EnsureMachine, EnsureVMI, Exists
  <2> QED
    BY <1>1, <2>1 DEF ConvergesSafely, Bound
<1>4. CASE EnsureSecret \/ EnsureService \/ EnsureNetworkPolicy
  <2>1. SameObjects
    BY <1>4, KindsEnumerated
    DEF IInv, TypeOK, ClusterTypeOK, EnsureSecret, EnsureService, EnsureNetworkPolicy, EnsurePlain,
        SameObjects
  <2> QED
    BY <1>1, <2>1, SafelyOn
<1> QED
  BY <1>2, <1>3, <1>4

\* A converging pass looks at its VM.
LEMMA SafelyObserves ==
  ASSUME IInv, ConvergesSafely, job = "converge", NEW probed \in BOOLEAN, ObserveWith(probed)
  PROVE  ConvergesSafely'
<1>1. UNCHANGED clusterVars /\ pc' = "patchPhase"
  BY DEF ObserveWith
<1>2. result'.drop = "snap" => ObservedPhase = "Running"
  BY DEF ObserveWith, ObservedPhase
<1>3. ObservedPhase = "Running" => child["VMI"] = "present" /\ vmiPhase \in {"Running", "Serving"}
  BY KindsEnumerated DEF IInv, TypeOK, ClusterTypeOK, ObservedPhase, Exists, ConvergesSafely
<1>4. ObservedPhase = "Running" => Bound
  BY <1>3 DEF ConvergesSafely
<1> QED
  BY <1>1, <1>2, <1>4, ClusterUnchanged, SafelyOn

\* A converging pass reports what it saw, and may delete the snapshot.
LEMMA SafelyReports ==
  ASSUME IInv, ConvergesSafely, job = "converge",
         PatchPhase \/ KeepPhase \/ DropSnapshot \/ ClearSnapshotName
  PROVE  ConvergesSafely'
<1>1. CASE PatchPhase \/ KeepPhase
  <2>1. UNCHANGED clusterVars /\ pc = "patchPhase" /\ pc' = AfterPhase
    BY <1>1 DEF PatchPhase, KeepPhase, Proceed
  <2>2. result.drop \in {"", "snap"}
    BY DEF IInv, TypeOK, Results
  <2>3. pc' = "rest" \/ (pc' = "dropSnapshot" /\ Bound)
    BY <2>1, <2>2 DEF AfterPhase, ConvergesSafely
  <2> QED
    BY <2>1, <2>3, ClusterUnchanged, SafelyOn
<1>2. CASE DropSnapshot
  <2>1. /\ child'["VMI"] = child["VMI"] /\ child'["DataVolume"] = child["DataVolume"]
        /\ UNCHANGED <<vmiPhase, pvc>> /\ pc = "dropSnapshot" /\ pc' = "clearSnapshotName"
    BY <1>2, OneDeleted, KindsEnumerated DEF IInv, TypeOK, DropSnapshot, Proceed
  <2> QED
    BY <2>1 DEF ConvergesSafely, Bound
<1>3. CASE ClearSnapshotName
  BY <1>3, ClusterUnchanged, SafelyOn DEF ClearSnapshotName
<1> QED
  BY <1>1, <1>2, <1>3

\* Nothing outside the operator takes a disk or a snapshot away from the pass.
LEMMA SafelyOutside ==
  ASSUME IInv, ConvergesSafely, job = "converge", Cluster \/ VmFails \/ DoWork,
         UNCHANGED <<job, pc, result>>
  PROVE  ConvergesSafely'
<1>1. CASE Populate \/ Boot \/ VmFails \/ CutSnapshot \/ ReclaimDisk \/ DoWork
  <2>1. /\ UNCHANGED child /\ (Bound => Bound')
        /\ vmiPhase' \in {"Running", "Serving"} => Bound' \/ vmiPhase' = vmiPhase
    BY <1>1 DEF Populate, Boot, VmFails, CutSnapshot, ReclaimDisk, DoWork, Bound
  <2> QED
    BY <2>1 DEF ConvergesSafely
<1>2. CASE \E k \in Lingers : ChildGone(k)
  <2>1. PICK k \in Lingers : ChildGone(k)
    BY <1>2
  <2>2. /\ child[k] = "terminating" /\ child'[k] = "absent"
        /\ \A j \in Kinds \ {k} : child'[j] = child[j]
        /\ k /= "DataVolume" => pvc' = pvc
        /\ UNCHANGED vmiPhase
    BY <2>1, LingersAssumption DEF IInv, TypeOK, ClusterTypeOK, ChildGone, Orphaned
  <2>3. /\ Bound => Bound'
        /\ child'["VMI"] = "present" => child["VMI"] = "present"
        /\ child'["VMI"] = "terminating" => child["VMI"] = "terminating"
        /\ child'["VolumeSnapshot"] = "terminating" => child["VolumeSnapshot"] = "terminating"
    BY <2>2, KindsEnumerated DEF Bound
  <2> QED
    BY <2>2, <2>3 DEF ConvergesSafely
<1> QED
  BY <1>1, <1>2 DEF Cluster

\* A converging pass stays safe, whatever happens to the session meanwhile.
LEMMA StepConverge ==
  ASSUME IInv, WorkInv, ConvergesSafely, [Next]_vars
  PROVE  ConvergesSafely'
<1> SUFFICES ASSUME job' = "converge" PROVE ConvergesSafely'
  BY DEF ConvergesSafely
<1>1. CASE job = "converge"
  <2>1. CASE Provision
    <3>1. ~Rest
      BY DEF Rest, Return, EndPass
    <3>2. CASE Observe
      BY <1>1, <3>2, SafelyObserves DEF Observe, ProbeAnswers
    <3> QED
      BY <1>1, <2>1, <3>1, <3>2, SafelyEnsures, SafelyReports DEF Provision
  <2>2. CASE ProbeFails
    BY <1>1, <2>2, SafelyObserves DEF ProbeFails
  <2>3. CASE VmCrashes \/ Study \/ ClusterStep
    BY <1>1, <2>3, SafelyOutside DEF VmCrashes, Study, ClusterStep, operatorVars
  <2>4. CASE UNCHANGED <<pc, result, clusterVars>>
    BY <1>1, <2>4, ClusterUnchanged, SafelyOn DEF ConvergesSafely
  <2> QED
    BY <1>1, <2>1, <2>2, <2>3, <2>4, WhileConverging
<1>2. CASE job /= "converge"
  <2>1. CASE StartConverge \/ StartUnresolved
    <3>1. /\ Running(cache) /\ UNCHANGED clusterVars
          /\ pc' = "ensureDataVolume" \/ (pc' = "patchPhase" /\ result'.drop /= "snap")
      BY <2>1 DEF StartConverge, StartUnresolved, Start, NoResult
    <3>2. WorkFacts /\ ~cache.paused
      BY <3>1, ConvergesUnseen DEF WorkInv, Running
    <3>3. SameObjects
      BY <3>1, ClusterUnchanged
    <3> QED
      BY <3>1, <3>2, <3>3
      DEF WorkFacts, WorkIsSomewhere, GoingVM, ConvergesSafely, SameObjects, Bound
  <2>2. ~StartConverge /\ ~StartUnresolved => FALSE
    BY <1>2, BeginsToConverge
  <2> QED
    BY <2>1, <2>2
<1> QED
  BY <1>1, <1>2

\* A converging pass ends in a call that leaves the cluster alone.
LEMMA ConvergeEnds ==
  ASSUME IInv, job = "converge", job' /= "converge", [Next]_vars
  PROVE  UNCHANGED clusterVars
<1>1. pc /= "idle"
  BY DEF IInv, JobAtStep
<1>2. CASE StartPass
  BY <1>1, <1>2
  DEF StartPass, StartFinalize, StartAdopt, StartExpire, StartSuspend, StartPark, StartUnpark,
      StartConverge, StartUnresolved, NothingToDo, Start
<1>3. CASE Rest \/ CallFails \/ Restart
  BY <1>3 DEF Rest, CallFails, Restart, Return, EndPass
<1>4. CASE Teardown \/ Suspension \/ Bookkeeping
  BY <1>4
  DEF IInv, JobAtStep, TeardownJobs, Teardown, DeleteVMI, DeleteNetworkPolicy, DeleteService,
      DeleteDataVolume, DeleteSnapshot, Bookkeeping, AddFinalizer, RemoveFinalizer, Conflict,
      PatchExpired, Suspension, TakeSnapshot, PatchSnapshotName, SnapshotIsReady, SnapshotNotReady,
      PatchPaused, PatchResumed
<1>5. Provision /\ ~Rest => job' = job
  BY DEF Provision, EnsureDisk, EnsureSecret, EnsureMachine, EnsureService, EnsureNetworkPolicy,
         Observe, ObserveWith, PatchPhase, KeepPhase, DropSnapshot, ClearSnapshotName, Proceed
<1>6. \/ Study \/ Watch \/ TimerFires \/ Resync \/ TtlPasses \/ ClusterStep \/ GarbageStep
      \/ UNCHANGED vars \/ Server \/ ProbeFails \/ VmCrashes
      => job' = job
  BY DEF Study, Watch, TimerFires, Resync, TtlPasses, ClusterStep, GarbageStep, vars, operatorVars,
         Server, Expire, Pause, Resume, Delete, MarkStepComplete, Request, ProbeFails, ObserveWith,
         VmCrashes
<1> QED
  BY <1>2, <1>3, <1>4, <1>5, <1>6 DEF Next, Operator, Faults

\* While a pass converges, a snapshot vanishes only because the pass deletes it,
\* or has deleted it before.
LEMMA SnapshotLeaves ==
  ASSUME IInv, [Next]_vars, job = "converge", Exists("VolumeSnapshot"), ~Exists("VolumeSnapshot")'
  PROVE  pc = "dropSnapshot" \/ child["VolumeSnapshot"] = "terminating"
<1>1. child'["VolumeSnapshot"] /= child["VolumeSnapshot"]
  BY DEF Exists
<1>2. CASE job' = "converge"
  <2>1. CASE Provision
    <3>1. CASE EnsureDisk \/ EnsureMachine \/ EnsureSecret \/ EnsureService \/ EnsureNetworkPolicy
      BY <1>1, <3>1, KindsEnumerated
      DEF IInv, TypeOK, ClusterTypeOK, EnsureDisk, EnsureDataVolume, EnsureMachine, EnsureVMI,
          EnsureSecret, EnsureService, EnsureNetworkPolicy, EnsurePlain
    <3>2. CASE Observe \/ PatchPhase \/ KeepPhase \/ ClearSnapshotName \/ Rest
      BY <1>1, <3>2
      DEF Observe, ObserveWith, PatchPhase, KeepPhase, ClearSnapshotName, Rest, Return, EndPass,
          clusterVars
    <3>3. CASE DropSnapshot
      BY <3>3 DEF DropSnapshot
    <3> QED
      BY <2>1, <3>1, <3>2, <3>3 DEF Provision
  <2>2. CASE ProbeFails
    BY <1>1, <2>2 DEF ProbeFails, ObserveWith, clusterVars
  <2>3. CASE VmCrashes \/ Study \/ ClusterStep
    <3>1. CASE \E k \in Lingers : ChildGone(k)
      <4>1. PICK k \in Lingers : ChildGone(k)
        BY <3>1
      <4> QED
        BY <1>1, <4>1, LingersAssumption, KindsEnumerated
        DEF IInv, TypeOK, ClusterTypeOK, ChildGone
    <3>2. CASE Populate \/ Boot \/ CutSnapshot \/ ReclaimDisk \/ VmFails \/ DoWork
      BY <1>1, <3>2 DEF Populate, Boot, CutSnapshot, ReclaimDisk, VmFails, DoWork
    <3> QED
      BY <2>3, <3>1, <3>2 DEF VmCrashes, Study, ClusterStep, Cluster
  <2>4. CASE UNCHANGED clusterVars
    BY <1>1, <2>4 DEF clusterVars
  <2> QED
    BY <1>2, <2>1, <2>2, <2>3, <2>4, WhileConverging
<1>3. CASE job' /= "converge"
  BY <1>1, <1>3, ConvergeEnds DEF clusterVars
<1> QED
  BY <1>2, <1>3

\* With an unhurried user, the three invariants hold together.
LEMMA WorkInductive == Spec /\ Unhurried => [](IInv /\ WorkInv /\ ConvergesSafely)
<1>1. Init => WorkInv /\ ConvergesSafely
  BY InitWork DEF WorkInv
<1>2. /\ IInv /\ WorkInv /\ ConvergesSafely /\ [Next]_vars /\ [UnhurriedStep]_vars
      => WorkInv' /\ ConvergesSafely'
  <2> SUFFICES ASSUME IInv, WorkInv, ConvergesSafely, [Next]_vars, [UnhurriedStep]_vars
               PROVE  WorkInv' /\ ConvergesSafely'
    OBVIOUS
  <2>1. UnhurriedStep
    BY DEF UnhurriedStep, vars
  <2> QED
    BY <2>1, StepWork, StepConverge
<1> QED
  BY <1>1, <1>2, Inductive, PTL DEF Spec, Unhurried

\* The student's work survives any number of pauses and resumes, stale copies,
\* failed calls and restarts of the operator, if no pause comes while the last
\* snapshot is still there and no resume before the session is Paused and its
\* VM gone, for all kinds that linger and all bounds.
THEOREM WorkSurvives == Spec /\ Unhurried => []WorkKept
<1>1. IInv /\ WorkInv => WorkKept
  <2> SUFFICES ASSUME IInv, WorkInv, ~Over, work > 0
               PROVE  \/ pvc = "bound" /\ disk = work
                      \/ SnapshotReady /\ snapData = work
    BY DEF WorkKept
  <2>1. WorkIsSomewhere
    BY NotOver DEF WorkInv, WorkFacts
  <2> QED
    BY <2>1 DEF WorkIsSomewhere, Bound, Taken, SnapshotReady, Exists
<1> QED
  BY <1>1, WorkInductive, PTL

\* Under the same hypothesis a converging pass deletes the snapshot only when the
\* disk has been restored from it, even if the session ends during the pass.
THEOREM SnapshotWaits == Spec /\ Unhurried => SnapshotSuperseded
<1>1. /\ IInv /\ ConvergesSafely /\ [Next]_vars
      => [job = "converge" /\ Exists("VolumeSnapshot") /\ ~Exists("VolumeSnapshot")'
            => child["DataVolume"] = "present" /\ pvc = "bound"]_vars
  <2> SUFFICES ASSUME IInv, ConvergesSafely, [Next]_vars, job = "converge",
                      Exists("VolumeSnapshot"), ~Exists("VolumeSnapshot")'
               PROVE  Bound
    BY DEF Bound
  <2> QED
    BY SnapshotLeaves DEF ConvergesSafely
<1> QED
  BY <1>1, WorkInductive, PTL DEF Spec, SnapshotSuperseded
=============================================================================
