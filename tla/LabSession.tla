----------------------------- MODULE LabSession -----------------------------
(***************************************************************************)
(* The LabSession custom resource: the one record through which the lab    *)
(* server asks for a VM and the Lab Operator reports on it.  Only the      *)
(* fields that some control decision reads are kept; identifiers, e-mail   *)
(* addresses, sizes and the message text are not.                          *)
(***************************************************************************)

\* Status.Phase; "" is the zero value of a resource nobody has reconciled yet.
Phases == {"", "Provisioning", "Running", "Ready", "Expired", "Failed", "Paused"}

Finalizer == "lab.uds.dev/teardown"

\* state          absent: not in the API server; live: DeletionTimestamp zero;
\*                deleting: DeletionTimestamp set, waiting for its finalizers
\* expiresAt      ttl: creation time + TTL; now: overwritten by Manager.Expire
\* serviceDNS, snapshotName   "" or the (single, derived) name
Sessions ==
    [state        : {"absent", "live", "deleting"},
     finalizers   : SUBSET {Finalizer},
     paused       : BOOLEAN,
     expiresAt    : {"ttl", "now"},
     phase        : Phases,
     serviceDNS   : {"", "dns"},
     snapshotName : {"", "snap"}]

\* What Manager.Create stores.
Created ==
    [state |-> "live", finalizers |-> {}, paused |-> FALSE, expiresAt |-> "ttl",
     phase |-> "", serviceDNS |-> "", snapshotName |-> ""]

Absent == [Created EXCEPT !.state = "absent"]
=============================================================================
