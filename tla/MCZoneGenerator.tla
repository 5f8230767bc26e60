-------------------------- MODULE MCZoneGenerator --------------------------
(* A small instance of ZoneGenerator. *)
EXTENDS ZoneGenerator

MCTypesOrder == << "ANY", "CNAME", "A" >>
MCWeights    == [Types -> 0..2]
=============================================================================
