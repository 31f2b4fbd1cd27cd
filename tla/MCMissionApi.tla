---------------------------- MODULE MCMissionApi ----------------------------
(***************************************************************************)
(* MissionApi on small instances.                                          *)
(***************************************************************************)
EXTENDS MissionApi, TLC

MCSymmetry ==
    Permutations(Missions) \cup Permutations(Requests)
    \cup Permutations(Reviewers) \cup Permutations(Keys)

=============================================================================
