------------------------------ MODULE MCWebIde ------------------------------
(* The web IDE for TLC: one file at the top, one in a directory, and a noisy *)
(* directory; requests are interchangeable.                                  *)
EXTENDS WebIde, TLC

CONSTANTS notes, script, home, sub, snap

MCFiles == {notes, script}
MCDirs == {home, sub, snap}
MCEntries == (home :> {notes, sub, snap}) @@ (sub :> {script}) @@ (snap :> {})
MCNoise == {snap}

Symmetry == Permutations(Reqs)
=============================================================================
