-------------------------- MODULE MCCampaignFeeder --------------------------
(* An instance of CampaignFeeder for TLC.                                  *)
EXTENDS CampaignFeeder
=============================================================================
