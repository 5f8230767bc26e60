--------------------------- MODULE MCImpactTest ----------------------------
(* A small instance of ImpactTest. *)
EXTENDS ImpactTest
=============================================================================
