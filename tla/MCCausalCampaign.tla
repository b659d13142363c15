--------------------------- MODULE MCCausalCampaign ---------------------------
(***************************************************************************)
(* The instance of CausalCampaign that TLC checks.                         *)
(***************************************************************************)
EXTENDS CausalCampaign

MCLoadouts == {"cat"}
=============================================================================
