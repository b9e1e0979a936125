-------------------------- MODULE SessionLifecycle --------------------------
(***************************************************************************)
(* What the Lab Operator promises about one session, whatever its readers  *)
(* (lab server, catalog, CSM dashboard) and whatever backs it: the session *)
(* ends once, it ends only when it is due or deleted, and it never ends,   *)
(* nor comes back, while it holds infrastructure.                          *)
(***************************************************************************)

LivePhases == {"", "Provisioning", "Running", "Ready", "Failed", "Paused"}
Ended == {"Expired", "Gone"}

VARIABLES
    phase,     \* what the status shows; Gone once the resource is deleted
    deadline,  \* ahead or passed
    held       \* the kinds of infrastructure it holds: VM, disk, Service, ...

lifecycle == <<phase, deadline, held>>

Init == phase = "" /\ deadline = "ahead" /\ held = {}

FallDue == deadline' = "passed" /\ UNCHANGED <<phase, held>>

Report == phase \in LivePhases /\ phase' \in LivePhases /\ UNCHANGED <<deadline, held>>

Acquire == phase \notin Ended /\ held \subseteq held' /\ UNCHANGED <<phase, deadline>>

Release == held' \subseteq held /\ UNCHANGED <<phase, deadline>>

Expire ==
    /\ phase \in LivePhases /\ deadline = "passed" /\ held = {}
    /\ phase' = "Expired" /\ UNCHANGED <<deadline, held>>

Vanish == held = {} /\ phase' = "Gone" /\ UNCHANGED <<deadline, held>>

Next == FallDue \/ Report \/ Acquire \/ Release \/ Expire \/ Vanish

Spec == Init /\ [][Next]_lifecycle
=============================================================================
