---------------------------- MODULE MCAdCampaigns ----------------------------
(***************************************************************************)
(* A small instance of AdCampaigns for TLC.                                *)
(***************************************************************************)
EXTENDS AdCampaigns
=============================================================================
