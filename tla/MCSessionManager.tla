-------------------------- MODULE MCSessionManager --------------------------
(* Model-checking instance of the lab server's session layer. *)
EXTENDS SessionManager, TLC

\* Requests and ids are interchangeable: no action or invariant tells two of either
\* apart. Clients and steps are not: Init chooses one of each.
Symmetry == Permutations(Calls) \cup Permutations(Ids)
=============================================================================
