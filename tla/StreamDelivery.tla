---------------------------- MODULE StreamDelivery ----------------------------
(***************************************************************************)
(* StreamTransaction implements VerifiedDelivery, under every strategy and *)
(* every fault.                                                            *)
(***************************************************************************)
EXTENDS StreamIntegrity

\* buffer_and_sign stands by nothing before it signs the whole text.
Released == IF strategy = "buffer_and_sign" /\ ~finalized THEN <<>> ELSE Genuine

\* A per_chunk client that has seen a failed check relies on nothing more; a
\* hash_chain client keeps what a checkpoint has covered.
Sound == strategy = "per_chunk" => metrics.all_signatures_valid /\ metrics.all_in_order

Verdict ==
    IF cli_pc = "reading" THEN "open"
    ELSE IF cli_pc = "done" /\ metrics.stream_fully_verified = TRUE THEN "accepted"
    ELSE "rejected"

Relied ==
    CASE Verdict = "accepted" -> SubSeq(reconstructed, 1, Len(Genuine))
      [] strategy = "per_chunk" /\ Verdict # "accepted" ->
            IF Sound THEN reconstructed ELSE <<>>
      [] strategy = "hash_chain" /\ Verdict # "accepted" ->
            [i \in 1..(chain_state.n_absorbed - pending) |->
                chain_state.running_hash.links[i].env.text]
      [] strategy = "buffer_and_sign" /\ Verdict # "accepted" -> <<>>

Delivery == INSTANCE VerifiedDelivery WITH
    released <- Released, complete <- finalized, relied <- Relied,
    sound <- Sound, verdict <- Verdict

\* run_streaming_transaction with event_generator keeps the promise: what the
\* client relies on is at every moment a prefix of what the server stands by,
\* it grows until a check withdraws it, and stream_fully_verified is only ever
\* given to the whole of a text the server ended.
KeepsThePromise == Delivery!Spec

=============================================================================
