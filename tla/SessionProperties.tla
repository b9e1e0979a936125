-------------------------- MODULE SessionProperties --------------------------
(***************************************************************************)
(* What is claimed of the Lab Operator, and the fairness its liveness      *)
(* claims assume.                                                          *)
(***************************************************************************)
EXTENDS LabSessionReconciler

Live == cr.state = "live"
Gone == cr.state = "absent"

\* Nobody waits for this session's VM any more.
Over == ~Live \/ Due(cr)

-----------------------------------------------------------------------------
(* Safety *)

\* Once the session is reported Expired, or is gone, no VM, disk, Service or
\* NetworkPolicy of it is left or comes back, even if a later pass still works
\* from a cached copy in which the session is alive.
Released ==
    Gone \/ cr.phase = "Expired" => \A k \in Infrastructure : child[k] /= "present"

\* Nothing is created before the finalizer is stored: a resource that can
\* still vanish without a teardown has nothing to tear down.
FinalizerFirst == ~Gone /\ (\E k \in Kinds : Exists(k)) => Finalizer \in cr.finalizers

\* The operator keeps the promise of SessionLifecycle.
Abstract ==
    INSTANCE SessionLifecycle WITH
        phase    <- IF Gone THEN "Gone" ELSE cr.phase,
        deadline <- IF Due(cr) THEN "passed" ELSE "ahead",
        held     <- {k \in Infrastructure : child[k] = "present"}

KeepsPromise == Abstract!Spec

\* The student's work survives a pause and a resume: until the session is over
\* it is on the session's disk or in a usable snapshot.  With more than one pause
\* or a VM that lingers this needs an unhurried user (see below).
WorkKept ==
    ~Over /\ work > 0 => \/ pvc = "bound" /\ disk = work
                         \/ SnapshotReady /\ snapData = work

\* A pass that brings the VM up deletes the snapshot only when the disk that
\* replaces it has been restored.  Users in a hurry break it (see below).
SnapshotSuperseded ==
    [][job = "converge" /\ Exists("VolumeSnapshot") /\ ~Exists("VolumeSnapshot")'
         => child["DataVolume"] = "present" /\ pvc = "bound"]_vars

\* In one pause and resume, in a hurry or not, there is one exception to that:
\* the VM of before the pause still shuts down, and is taken for the new one that
\* runs again (labsession_controller.go:168).
DropsForRunningVM ==
    [][job = "converge" /\ Exists("VolumeSnapshot") /\ ~Exists("VolumeSnapshot")'
         => \/ child["DataVolume"] = "present" /\ pvc = "bound"
            \/ child["VMI"] /= "present"]_vars

\* A Paused session that expires leaves no snapshot behind, although the expiry
\* works from a cached copy, any call of it may fail, and an unpause may come in
\* between: the copy cannot be older than the record of the snapshot.  This needs
\* VolumeSnapshots that do not linger (see PausedSnapshots in ReconcilerProofs).
PausedSnapshotGoes ==
    [][cr.phase = "Paused" /\ cr'.phase = "Expired" => child["VolumeSnapshot"] /= "present"]_vars

\* What the code does not ask of the user, and WorkKept and SnapshotSuperseded
\* need beyond one pause and resume: no pause while the snapshot of the last one
\* is still there, no resume before the session is Paused and its old VM gone.
UnhurriedStep ==
    /\ ~cr.paused /\ cr'.paused => ~Exists("VolumeSnapshot")
    /\ cr.paused /\ ~cr'.paused => cr.phase = "Paused" /\ ~Exists("VMI")

Unhurried == [][UnhurriedStep]_vars

-----------------------------------------------------------------------------
(* Liveness.  The operator's goroutine runs, the informer delivers, delayed   *)
(* requeues fire, and the cluster's controllers act; users are not obliged to *)
(* do anything and no fault has to happen.                                    *)

Fairness ==
    /\ WF_vars(Operator) /\ WF_vars(Watch) /\ WF_vars(TimerFires) /\ WF_vars(ClusterStep)

FairSpec == Spec /\ Fairness

\* Time passes, and the informers resync.
TimedSpec == FairSpec /\ WF_vars(TtlPasses) /\ WF_vars(Resync)

\* The TTL is enforced: a session whose deadline has passed, or whose owner
\* ended it, is eventually Expired (or gone), whatever it was doing.
TTLEnforced == Due(cr) ~> Gone \/ cr.phase = "Expired"

\* A hard-deleted resource does not hang on its finalizer.
DeleteCompletes == cr.state = "deleting" ~> Gone

\* A session paused when it was Ready does reach Paused.
PauseCompletes ==
    cr.phase = "Ready" /\ cr.paused ~> cr.phase = "Paused" \/ ~cr.paused \/ Over

\* The disk is to be restored from a snapshot that is gone.
Unrestorable ==
    child["DataVolume"] = "present" /\ dvSource = "snapshot" /\ pvc /= "bound" /\ ~Exists("VolumeSnapshot")

\* A Paused session that is resumed does get a VM that answers, unless its old VM
\* was still there and made the operator delete the snapshot.
ResumeCompletes ==
    cr.phase = "Paused" /\ ~cr.paused
      ~> (cr.phase = "Ready" /\ vmiPhase = "Serving") \/ cr.paused \/ Over \/ Unrestorable
=============================================================================
