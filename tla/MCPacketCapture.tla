-------------------------- MODULE MCPacketCapture --------------------------
EXTENDS PacketCapture
=============================================================================
