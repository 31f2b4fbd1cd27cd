---------------------------- MODULE MCMissionStore ---------------------------
(***************************************************************************)
(* MissionStore on small instances.                                        *)
(***************************************************************************)
EXTENDS MissionStore, TLC

MCSymmetry == Permutations(Missions)

=============================================================================
