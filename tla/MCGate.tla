-------------------------------- MODULE MCGate -------------------------------
(***************************************************************************)
(* Five stages in three groups, two groups with two stages that interleave *)
(* in the list as those of stages() do.                                    *)
(***************************************************************************)
EXTENDS Gate

MCGroups == {"Host", "Cov", "Misc"}
MCStages == <<"Host", "Cov", "Host", "Misc", "Misc">>

=============================================================================
