--------------------------- MODULE MCGuardedFlight ---------------------------
(***************************************************************************)
(* GuardedFlight on small instances, with limits of one tick.              *)
(***************************************************************************)
EXTENDS GuardedFlight

=============================================================================
