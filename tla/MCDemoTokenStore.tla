-------------------------- MODULE MCDemoTokenStore --------------------------
(* The demo token store for TLC: tokens and sessions are interchangeable. *)
EXTENDS DemoTokenStore, TLC

Symmetry == Permutations(Tokens) \cup Permutations(DemoIds)
=============================================================================
