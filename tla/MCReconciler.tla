---------------------------- MODULE MCReconciler ----------------------------
(* Model-checking instance of the reconciler: one session, one operator. *)
EXTENDS ReconcilerInvariant

\* Every API call of a pass may fail.
AnyCall == Steps \ {"idle", "rest"}
=============================================================================
