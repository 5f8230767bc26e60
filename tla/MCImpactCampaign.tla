-------------------------- MODULE MCImpactCampaign --------------------------
EXTENDS ImpactCampaign
=============================================================================
