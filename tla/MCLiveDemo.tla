------------------------------ MODULE MCLiveDemo ------------------------------
(***************************************************************************)
(* LivePage for every strategy, attack and target of short streams.        *)
(***************************************************************************)
EXTENDS LivePage

=============================================================================
