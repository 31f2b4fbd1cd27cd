------------------------- MODULE MCMissionExecution -------------------------
(***************************************************************************)
(* MissionExecution on small instances.  No symmetry: the main run checks  *)
(* liveness as well, for which TLC cannot use it.                          *)
(***************************************************************************)
EXTENDS MissionExecution

=============================================================================
