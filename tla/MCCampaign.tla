------------------------------ MODULE MCCampaign ------------------------------
(***************************************************************************)
(* Both experiments on the campaign's cells, with intervals that fit       *)
(* streams of up to five chunks.                                           *)
(***************************************************************************)
EXTENDS MitmTrials

CONSTANT Intervals

MCCells ==
    {[strategy |-> "per_chunk", k |-> 0]} \cup
    {[strategy |-> "hash_chain", k |-> interval] : interval \in Intervals}

=============================================================================
