------------------------------- MODULE MCStream -------------------------------
(***************************************************************************)
(* StreamTransaction on short streams, for every strategy, with the        *)
(* records of a session that streamed the same text available for replay.  *)
(***************************************************************************)
EXTENDS StreamDelivery

CONSTANTS Intervals, ChunkSizes, Lengths

\* Only a hash_chain request carries a checkpoint interval.
MCRequests ==
    {body \in [strategy: StrategyNames, checkpoint_interval: Intervals,
               chunk_size_tokens: ChunkSizes, max_tokens: Lengths] :
        body.strategy # "hash_chain" => body.checkpoint_interval = 0}

MCDonorTexts == <<<<1>>, <<2>>>>
MCDonorText == FlattenSeq(MCDonorTexts)

=============================================================================
