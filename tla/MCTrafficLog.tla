---------------------------- MODULE MCTrafficLog ----------------------------
EXTENDS TrafficLogProps
=============================================================================
