--------------------------- MODULE MCCaptureFile ---------------------------
EXTENDS CaptureFile
=============================================================================
