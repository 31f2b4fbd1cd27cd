------------------------------ MODULE MCVehicle ------------------------------
(***************************************************************************)
(* Vehicle on a small instance.  No symmetry: the run checks liveness.     *)
(***************************************************************************)
EXTENDS Vehicle

=============================================================================
