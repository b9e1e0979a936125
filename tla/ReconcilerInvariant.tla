------------------------ MODULE ReconcilerInvariant ------------------------
(***************************************************************************)
(* The inductive invariants behind the theorems about the operator.  The   *)
(* first one is for Released, FinalizerFirst and KeepsPromise.  The        *)
(* argument: what the operator decides on may be old, but the facts it     *)
(* decides on (deletion, an early expiry, the deadline) are never undone,  *)
(* so an old copy is wrong in one direction only; and no session is        *)
(* Expired or gone before the operator itself has seen why.                *)
(***************************************************************************)
EXTENDS SessionProperties

\* The jobs that treat the session as alive, and may create objects for it.
AliveJobs == {"suspend", "park", "unpark", "converge"}

TeardownJobs == {"finalize", "expire"}

\* Which call belongs to which job.
JobAtStep ==
    /\ pc = "idle" <=> job = "none"
    /\ pc = "addFinalizer" => job = "adopt"
    /\ pc \in {"deleteVMI", "deleteNetworkPolicy", "deleteService"}
         => job \in TeardownJobs \cup {"suspend"}
    /\ pc = "deleteDataVolume" => job \in TeardownJobs \cup {"park"}
    /\ pc = "deleteSnapshot" => job \in TeardownJobs
    /\ pc = "removeFinalizer" => job = "finalize"
    /\ pc = "patchExpired" => job = "expire"
    /\ pc \in {"createSnapshot", "patchSnapshotName"} => job = "suspend"
    /\ pc \in {"awaitSnapshot", "patchPaused"} => job = "park"
    /\ pc = "patchResumed" => job = "unpark"
    /\ pc \in EnsureSteps \cup
              {"observe", "patchPhase", "dropSnapshot", "clearSnapshotName", "rest"}
         => job = "converge"

\* An old cached copy errs in one direction only.
CacheIsOld ==
    /\ cache.expiresAt = "now" => cr.expiresAt = "now"
    /\ cache.state = "deleting" => cr.state /= "live"
    /\ Adopted(cache) => cr.state /= "absent" /\ Finalizer \in cr.finalizers

\* The operator reports Expired only what it has itself seen to be due.
ExpiryWasSeen ==
    cr.phase = "Expired" \/ job = "expire" => Due(cache)

\* What the job of a running pass says about the resource as it is now.
JobStillHolds ==
    /\ job \in AliveJobs => /\ cr.phase /= "Expired"
                            /\ cr.state /= "absent"
                            /\ Finalizer \in cr.finalizers
    /\ job = "finalize" => cr.state /= "live" /\ cache.state /= "live"
    /\ result.phase /= "Expired"

\* How far a teardown has come.
TornDownSoFar ==
    /\ pc \in {"deleteNetworkPolicy", "deleteService", "deleteDataVolume",
               "deleteSnapshot", "patchExpired", "removeFinalizer"} /\ job \in TeardownJobs
         => child["VMI"] /= "present"
    /\ pc \in {"deleteService", "deleteDataVolume",
               "deleteSnapshot", "patchExpired", "removeFinalizer"} /\ job \in TeardownJobs
         => child["NetworkPolicy"] /= "present"
    /\ pc \in {"deleteDataVolume", "deleteSnapshot", "patchExpired", "removeFinalizer"}
         /\ job \in TeardownJobs => child["Service"] /= "present"
    /\ pc \in {"deleteSnapshot", "patchExpired", "removeFinalizer"}
         => child["DataVolume"] /= "present"

\* Inductive invariant of the operator beside the server and the cluster: the
\* typing and safety claims together with the reasons above.
IInv ==
    /\ TypeOK
    /\ JobAtStep
    /\ CacheIsOld
    /\ ExpiryWasSeen
    /\ JobStillHolds
    /\ TornDownSoFar
    /\ Released
    /\ FinalizerFirst

-----------------------------------------------------------------------------
(* The second invariant, behind PausedSnapshotGoes: which copies of the      *)
(* resource record the snapshot while there is one.                          *)

Taken == child["VolumeSnapshot"] = "present"
OnRecord(c) == c.snapshotName = "snap"

\* No copy records a snapshot that the resource itself has forgotten.
RecordKept == Taken /\ (OnRecord(cache) \/ OnRecord(ls)) => OnRecord(cr)

\* A pass that takes a snapshot found none on record, and the session is not
\* Paused already.
SuspendsUnrecorded ==
    job = "suspend" => ~OnRecord(ls) /\ (OnRecord(cache) => OnRecord(cr)) /\ cr.phase /= "Paused"

\* A pass that reports Paused has seen the snapshot that is on record.
ParksOnRecord ==
    job = "park" => /\ OnRecord(ls)
                    /\ OnRecord(cr) => OnRecord(cache)
                    /\ pc /= "awaitSnapshot" => OnRecord(cr)

\* While the session is Paused, no cached copy is older than the record.
PausedOnRecord ==
    cr.phase = "Paused" => /\ cache.phase /= "Paused" => OnRecord(cache)
                           /\ Taken => OnRecord(cache) /\ OnRecord(cr)

\* The record is cleared only when the snapshot is gone.
ClearedAfterDeletion ==
    /\ job = "expire" /\ cr.phase = "Paused" /\ Taken => OnRecord(ls)
    /\ pc = "patchExpired" /\ OnRecord(ls) => ~Taken
    /\ pc = "clearSnapshotName" => ~Taken

\* Inductive, together with IInv, if VolumeSnapshots do not linger.
SnapshotInv ==
    /\ Taken \/ child["VolumeSnapshot"] = "absent"
    /\ result.phase /= "Paused"
    /\ RecordKept
    /\ SuspendsUnrecorded
    /\ ParksOnRecord
    /\ PausedOnRecord
    /\ ClearedAfterDeletion

-----------------------------------------------------------------------------
(* The third invariant, behind WorkKept and SnapshotSuperseded for unhurried  *)
(* users, of sessions whose end the operator has not seen: where the work is, *)
(* and what each pass can still do to it.                                     *)

\* The operator has no copy that says the session is to be torn down.
Unseen ==
    /\ cr.state /= "absent" /\ ~Due(cache)
    /\ cr.state = "deleting" => cache.state = "live"

Bound == child["DataVolume"] = "present" /\ pvc = "bound"

\* The disk is current, and where there is none a snapshot is.
WorkIsSomewhere ==
    /\ pvc = "bound" => disk = work
    /\ child["DataVolume"] = "absent" => pvc /= "bound"
    /\ work = 0 => disk = 0 /\ snapData = 0
    /\ ~Bound /\ work > 0 => /\ Taken /\ snapshot = "ready" /\ snapData = work
                             /\ child["DataVolume"] = "present" => dvSource = "snapshot"
    /\ child["VMI"] = "present" /\ vmiPhase \in {"Running", "Serving"} => Bound
    /\ child["VolumeSnapshot"] = "terminating" => Bound

\* A VM on its way out belongs to a session that stays paused.
GoingVM ==
    child["VMI"] = "terminating" => cr.paused /\ cache.paused /\ job \notin {"converge", "unpark"}

\* A paused session with a snapshot has no VM that could change the disk.
AtRest ==
    cr.paused /\ Exists("VolumeSnapshot") =>
      /\ Taken /\ cache.paused /\ job \notin {"converge", "unpark"}
      /\ child["VMI"] /= "present"
      /\ snapshot = "ready" => snapData = work

\* Copies that say paused are old only of a session that is Paused.
PausedCopies ==
    /\ cache.paused /\ ~cr.paused => cr.phase = "Paused"
    /\ job \in {"suspend", "park"} => /\ ~cr.paused => cr.phase = "Paused"
                                      /\ cr.paused => cache.paused
    /\ cr.phase = "Paused" => cache.paused \/ cache.phase = "Paused"
    /\ job = "unpark" \/ (cache.phase = "Paused" /\ ~cache.paused) => ~cr.paused /\ ~cache.paused

\* A session some copy shows as Paused is in its snapshot and nowhere else.
InSnapshot ==
    cr.phase = "Paused" \/ cache.phase = "Paused" \/ job = "unpark" =>
      /\ Taken /\ snapshot = "ready" /\ child["DataVolume"] /= "present"
      /\ job /= "converge" /\ OnRecord(cr) /\ OnRecord(cache)
      /\ ~cr.paused => ~Exists("VMI")

\* While it is being restored, the snapshot is on record.
RestoresOnRecord ==
    ~cr.paused /\ Taken =>
      OnRecord(cr) /\ OnRecord(cache) /\ (job = "converge" => OnRecord(ls))

\* What a pass has made sure of before its next call.
PassHasSeen ==
    /\ job = "park" /\ pc \in {"deleteDataVolume", "patchPaused"} => Taken /\ snapshot = "ready"
    /\ pc = "patchPaused" => child["DataVolume"] /= "present"
    /\ pc = "patchPhase" /\ result.drop = "snap" => Bound
    /\ pc = "dropSnapshot" => Bound
    /\ pc = "clearSnapshotName" => ~Taken
    /\ job = "suspend" /\ pc /= "deleteVMI" => child["VMI"] /= "present"

WorkFacts ==
    /\ WorkIsSomewhere
    /\ GoingVM /\ AtRest
    /\ PausedCopies /\ InSnapshot /\ RestoresOnRecord
    /\ PassHasSeen
    /\ RecordKept /\ SuspendsUnrecorded /\ ParksOnRecord
    /\ result.phase /= "Paused"

WorkInv == Unseen => WorkFacts

\* A converging pass that has begun goes on, even if the session ends meanwhile:
\* it deletes no snapshot before the disk is restored.
ConvergesSafely ==
    job = "converge" =>
      /\ child["VMI"] /= "terminating"
      /\ child["VMI"] = "present" /\ vmiPhase \in {"Running", "Serving"} => Bound
      /\ child["VolumeSnapshot"] = "terminating" => Bound
      /\ pc = "patchPhase" /\ result.drop = "snap" => Bound
      /\ pc = "dropSnapshot" => Bound
=============================================================================
