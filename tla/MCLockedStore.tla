---------------------------- MODULE MCLockedStore ----------------------------
(* Instances of LockedStore for TLC: the cfg file makes actors and keys model
   values and bounds the operations.  The actors are alike. *)
EXTENDS LockedStore, TLC

Symmetry == Permutations(Actors)
=============================================================================
