---------------------------- MODULE MCEventStream ---------------------------
(***************************************************************************)
(* EventStream on small instances.  No symmetry: the run checks liveness   *)
(* as well, for which TLC cannot use it.                                   *)
(***************************************************************************)
EXTENDS EventStream

=============================================================================
