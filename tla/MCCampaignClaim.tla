-------------------------- MODULE MCCampaignClaim --------------------------
(* Instances of CampaignClaim for TLC.                                     *)
EXTENDS CampaignClaim

CONSTANTS A1, A2, A3, B1, PlanA, PlanB

\* Three runs of one plan and one run of a plan that competes for the slot.
MCPlanOf == [a \in Attempts |-> IF a = B1 THEN PlanB ELSE PlanA]
=============================================================================
