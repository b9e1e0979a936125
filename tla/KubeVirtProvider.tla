-------------------------- MODULE KubeVirtProvider --------------------------
(***************************************************************************)
(* The KubeVirt provider and the cluster objects behind one LabSession:    *)
(* the DataVolume (disk), the cloud-init Secret, the VMI, the headless     *)
(* Service, the NetworkPolicy and, across a pause, the VolumeSnapshot.     *)
(* Every object name is derived from the session id, so there is at most   *)
(* one object of each kind.                                                *)
(*                                                                         *)
(* The first half are the provider's API calls, which the reconciler makes *)
(* one at a time; the second half is the cluster (CDI, KubeVirt, CSI, the  *)
(* garbage collector), external code of which only what the provider       *)
(* relies on is modelled.                                                  *)
(***************************************************************************)
EXTENDS Naturals

CONSTANTS
    Lingers,   \* kinds whose deleted objects stay readable for a while
    MaxWork    \* bound on the units of work a student does in the VM

Compute == {"VMI", "NetworkPolicy", "Service"}

\* What a Teardown deletes whatever the status says.
Infrastructure == Compute \cup {"DataVolume"}

\* Created with a controller reference to the LabSession.
Owned == Infrastructure \cup {"Secret"}

Kinds == Owned \cup {"VolumeSnapshot"}

ASSUME LingersAssumption == Lingers \subseteq Kinds
ASSUME MaxWorkAssumption == MaxWork \in Nat

VARIABLES
    child,     \* [Kinds -> absent, present, or terminating (deleted, readable)]
    vmiPhase,  \* Pending, Running, Serving (Running and ttyd answers), Failed
    dvSource,  \* what the DataVolume was told to clone: golden or snapshot
    pvc,       \* the disk itself: none, bound, or orphaned (its DataVolume went)
    disk,      \* units of work on that disk
    snapshot,  \* of the VolumeSnapshot object: cutting, or ready to use
    snapData,  \* units of work in a ready snapshot
    work       \* units of work the student has done so far

clusterVars == <<child, vmiPhase, dvSource, pvc, disk, snapshot, snapData, work>>

ClusterTypeOK ==
    /\ child \in [Kinds -> {"absent", "present", "terminating"}]
    /\ vmiPhase \in {"Pending", "Running", "Serving", "Failed"}
    /\ dvSource \in {"golden", "snapshot"}
    /\ pvc \in {"none", "bound", "orphaned"}
    /\ snapshot \in {"cutting", "ready"}
    /\ {disk, snapData, work} \subseteq 0..MaxWork

ClusterInit ==
    /\ child = [k \in Kinds |-> "absent"]
    /\ vmiPhase = "Pending"
    /\ dvSource = "golden"
    /\ pvc = "none"
    /\ snapshot = "cutting"
    /\ disk = 0 /\ snapData = 0 /\ work = 0

Exists(k) == child[k] /= "absent"

-----------------------------------------------------------------------------
(* The provider's calls *)

\* The disk of a DataVolume that goes is left to the garbage collector.
Orphaned(k) == IF k = "DataVolume" /\ pvc = "bound" THEN "orphaned" ELSE pvc

\* client.Delete of one object; NotFound counts as success.
DeleteChild(k) ==
    /\ child' = [child EXCEPT ![k] = IF @ = "absent" THEN "absent"
                                     ELSE IF k \in Lingers THEN "terminating"
                                     ELSE "absent"]
    /\ pvc' = IF child'[k] = "absent" THEN Orphaned(k) ELSE pvc
    /\ UNCHANGED <<vmiPhase, dvSource, disk, snapshot, snapData, work>>

\* CreateOrUpdate: an object that can be read, terminating or not, is left as
\* it is; the specs of the DataVolume and the VMI are set on creation only.
EnsureDataVolume(snapshotName) ==
    /\ child' = [child EXCEPT !["DataVolume"] = IF @ = "absent" THEN "present" ELSE @]
    /\ dvSource' = IF Exists("DataVolume") THEN dvSource
                   ELSE IF snapshotName /= "" THEN "snapshot" ELSE "golden"
    /\ UNCHANGED <<vmiPhase, pvc, disk, snapshot, snapData, work>>

EnsureVMI ==
    /\ child' = [child EXCEPT !["VMI"] = IF @ = "absent" THEN "present" ELSE @]
    /\ vmiPhase' = IF Exists("VMI") THEN vmiPhase ELSE "Pending"
    /\ UNCHANGED <<dvSource, pvc, disk, snapshot, snapData, work>>

EnsurePlain(k) ==
    /\ child' = [child EXCEPT ![k] = IF @ = "absent" THEN "present" ELSE @]
    /\ UNCHANGED <<vmiPhase, dvSource, pvc, disk, snapshot, snapData, work>>

\* Snapshot: the name is derived from the session, and AlreadyExists counts as
\* success, so an object left over from an earlier pause is taken as it is.
CreateSnapshot ==
    /\ child' = [child EXCEPT !["VolumeSnapshot"] = IF @ = "absent" THEN "present" ELSE @]
    /\ snapshot' = IF Exists("VolumeSnapshot") THEN snapshot ELSE "cutting"
    /\ UNCHANGED <<vmiPhase, dvSource, pvc, disk, snapData, work>>

SnapshotReady == Exists("VolumeSnapshot") /\ snapshot = "ready"

\* The tail of Provider.Reconcile: the VMI's phase as a session phase.
ObservedPhase ==
    IF ~Exists("VMI") \/ vmiPhase = "Pending" THEN "Provisioning"
    ELSE IF vmiPhase = "Failed" THEN "Failed" ELSE "Running"

\* ttyd is reached through the headless Service.
ProbeAnswers == vmiPhase = "Serving" /\ child["Service"] = "present"

-----------------------------------------------------------------------------
(* The cluster *)

\* CDI clones the source into a new PVC; a snapshot must be ready to be cloned.
Populate ==
    /\ child["DataVolume"] = "present" /\ pvc = "none"
    /\ dvSource = "snapshot" => SnapshotReady
    /\ pvc' = "bound"
    /\ disk' = IF dvSource = "snapshot" THEN snapData ELSE 0
    /\ UNCHANGED <<child, vmiPhase, dvSource, snapshot, snapData, work>>

\* KubeVirt starts the VM once its disk is populated, then ttyd comes up.
Boot ==
    /\ child["VMI"] = "present" /\ child["DataVolume"] = "present" /\ pvc = "bound"
    /\ \/ vmiPhase = "Pending" /\ vmiPhase' = "Running"
       \/ vmiPhase = "Running" /\ vmiPhase' = "Serving"
    /\ UNCHANGED <<child, dvSource, pvc, disk, snapshot, snapData, work>>

VmFails ==
    /\ child["VMI"] = "present" /\ vmiPhase \in {"Running", "Serving"}
    /\ vmiPhase' = "Failed"
    /\ UNCHANGED <<child, dvSource, pvc, disk, snapshot, snapData, work>>

\* The CSI driver cuts the snapshot from the session's PVC.
CutSnapshot ==
    /\ child["VolumeSnapshot"] = "present" /\ snapshot = "cutting" /\ pvc = "bound"
    /\ snapshot' = "ready" /\ snapData' = disk
    /\ UNCHANGED <<child, vmiPhase, dvSource, pvc, disk, work>>

\* A deleted object finally goes.
ChildGone(k) ==
    /\ child[k] = "terminating"
    /\ child' = [child EXCEPT ![k] = "absent"]
    /\ pvc' = Orphaned(k)
    /\ UNCHANGED <<vmiPhase, dvSource, disk, snapshot, snapData, work>>

\* A PVC in use by a running VM is not removed.
ReclaimDisk ==
    /\ pvc = "orphaned" /\ ~(Exists("VMI") /\ vmiPhase \in {"Running", "Serving"})
    /\ pvc' = "none" /\ disk' = 0
    /\ UNCHANGED <<child, vmiPhase, dvSource, snapshot, snapData, work>>

\* Owner references: the garbage collector removes what the LabSession owned.
CollectGarbage(k) ==
    /\ k \in Owned /\ child[k] = "present"
    /\ DeleteChild(k)

\* The student changes something on the disk.
DoWork ==
    /\ work < MaxWork /\ disk < MaxWork
    /\ child["VMI"] = "present" /\ vmiPhase = "Serving" /\ pvc = "bound"
    /\ work' = work + 1 /\ disk' = disk + 1
    /\ UNCHANGED <<child, vmiPhase, dvSource, pvc, snapshot, snapData>>

Cluster ==
    \/ Populate \/ Boot \/ CutSnapshot \/ ReclaimDisk
    \/ \E k \in Lingers : ChildGone(k)
=============================================================================
