------------------------ MODULE MCThroughputCampaign ------------------------
EXTENDS ThroughputCampaign
=============================================================================
