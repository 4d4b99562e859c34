--------------------------- MODULE MCSessionTree ---------------------------
(* Instances of SessionTree for TLC: the bounds are given in the cfg files. *)
EXTENDS SessionTree
=============================================================================
