----------------------------- MODULE StreamVerify -----------------------------
(***************************************************************************)
(* The five verification functions of crypto/streaming.py and the client's *)
(* chain state, which the benchmark client, the attack experiments and the *)
(* live demo share.  The session is Hid's.                                 *)
(***************************************************************************)
EXTENDS StreamRecords

ctx == stream_context(Hid)

\* _decrypt_into, and the callers' test of the plaintext for truth.
Extend(text, piece) == IF piece # <<>> THEN Append(text, piece) ELSE text

-----------------------------------------------------------------------------
\* Mutant: the index is not compared with the position.
verify_per_chunk_any_order(record, expected) ==
    LET valid == Verify(Hid, chunk_message(ctx, record.n, record.env), record.signature)
    IN  [signature_valid |-> valid, in_order |-> TRUE,
         aead_ok |-> valid /\ Decrypts(Hid, record.env)]

verify_per_chunk(record, expected) ==
    LET valid == Verify(Hid, chunk_message(ctx, record.n, record.env), record.signature)
    IN  [signature_valid |-> valid,
         in_order |-> record.n = expected,
         aead_ok |-> valid /\ Decrypts(Hid, record.env)]

\* Mutant: the signed count is not compared with the chunks received.
verify_per_chunk_final_any_count(record, n_received) ==
    Verify(Hid, end_message(ctx, record.n), record.signature)

verify_per_chunk_final(record, n_received) ==
    /\ Verify(Hid, end_message(ctx, record.n), record.signature)
    /\ record.n = n_received

verify_buffer_and_sign_final(record) ==
    LET valid == Verify(Hid, buffered_message(ctx, record.env), record.signature)
    IN  [signature_valid |-> valid, aead_ok |-> valid /\ Decrypts(Hid, record.env)]

-----------------------------------------------------------------------------
\* HashChainClientState.__init__
NewChainState == [running_hash |-> genesis_hash(Hid), n_absorbed |-> 0]

\* HashChainClientState.absorb
ChainAbsorb(state, record) ==
    [running_hash |-> absorb(state.running_hash, record.n, record.env),
     n_absorbed |-> state.n_absorbed + 1]

\* Mutant: the v2 client, which did not enforce the checkpoint schedule.
verify_hash_chain_chunk_v2(record, state, k) ==
    LET signed == record.signature # None
    IN  [checkpoint_missing |-> FALSE,
         checkpoint |-> signed,
         checkpoint_valid |->
            signed /\ Verify(Hid, checkpoint_message(ctx, record.n, state.running_hash), record.signature),
         aead_ok |-> Decrypts(Hid, record.env)]

\* Mutant: the checkpoint is checked against the hash the record claims.
verify_hash_chain_chunk_claimed(record, state, k) ==
    LET signed == record.signature # None
    IN  [checkpoint_missing |-> k > 0 /\ state.n_absorbed % k = 0 /\ ~signed,
         checkpoint |-> signed,
         checkpoint_valid |->
            signed /\ Verify(Hid, checkpoint_message(ctx, record.n, record.chain), record.signature),
         aead_ok |-> Decrypts(Hid, record.env)]

\* state is the chain state after absorbing the chunk.
verify_hash_chain_chunk(record, state, k) ==
    LET signed == record.signature # None
    IN  [checkpoint_missing |-> k > 0 /\ state.n_absorbed % k = 0 /\ ~signed,
         checkpoint |-> signed,
         checkpoint_valid |->
            signed /\ Verify(Hid, checkpoint_message(ctx, record.n, state.running_hash), record.signature),
         aead_ok |-> Decrypts(Hid, record.env)]

\* Mutant: the terminal record is checked against itself, not against the chain.
verify_hash_chain_final_claimed(record, state) ==
    Verify(Hid, final_chain_message(ctx, record.n, record.chain), record.signature)

verify_hash_chain_final(record, state) ==
    /\ record.chain = state.running_hash
    /\ record.n = state.n_absorbed
    /\ Verify(Hid, final_chain_message(ctx, state.n_absorbed, state.running_hash), record.signature)

=============================================================================
