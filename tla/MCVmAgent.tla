----------------------------- MODULE MCVmAgent -----------------------------
(* The VM agent for TLC, with the timeouts of the code in units of 5 s. *)
EXTENDS VmAgent

MCPatience == [op \in Operations |->
    CASE op = "verify" -> 7 [] op = "services" -> 2 [] OTHER -> 1]
MCLimit == [op \in Operations |->
    CASE op = "verify" -> 6 [] op = "services" -> 2 [] OTHER -> 0]
=============================================================================
