--------------------------- MODULE MCEventStream ---------------------------
(* Instances of EventStream for TLC: the cfg files make the consumers model
   values and bound the events. *)
EXTENDS EventStream
=============================================================================
