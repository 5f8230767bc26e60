---------------------------- MODULE MCResponder ----------------------------
EXTENDS Responder
=============================================================================
