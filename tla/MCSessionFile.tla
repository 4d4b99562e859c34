--------------------------- MODULE MCSessionFile ---------------------------
(* Instances of SessionFile for TLC: processes are model values. *)
EXTENDS SessionFile, TLC

Symmetry == Permutations(Procs)
=============================================================================
