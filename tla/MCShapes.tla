------------------------------- MODULE MCShapes -------------------------------
(***************************************************************************)
(* StreamHarvest on the requests of MCStream: every strategy, chunk size,  *)
(* length and checkpoint interval.                                         *)
(***************************************************************************)
EXTENDS StreamHarvest, MCStream

=============================================================================
