-------------------------- MODULE StreamTransaction --------------------------
(***************************************************************************)
(* One streaming transaction: the SSE generator of                         *)
(* api/secure_app.py:secure_predict_stream with its signing strategy       *)
(* (crypto/streaming.py), the response stream, the faults that threats/    *)
(* and the live demo inject into it, and the client                        *)
(* api/secure_streaming_client.py:run_streaming_transaction.               *)
(*                                                                         *)
(* The server's steps end at its suspension points (an awaited token, a    *)
(* yield), where it can be cancelled; the client's step handles one SSE    *)
(* line.  Token i of the generated text is the number i, the text of a     *)
(* chunk the sequence of its tokens.                                       *)
(***************************************************************************)
EXTENDS StreamVerify, SequencesExt

CONSTANTS Requests,       \* decrypted request bodies a client may send
          DonorTexts,     \* chunk texts of the stream captured from session Other
          DonorText,      \* its text in one piece, for buffer_and_sign
          DonorIntervals, \* checkpoint intervals of that stream
          MaxFaults       \* bound on the records changed in transit

\* checkpoint_interval 0 stands for None: both sides only test it for truth.
RequestBodies ==
    [strategy: StrategyNames, checkpoint_interval: Nat,
     chunk_size_tokens: Nat, max_tokens: Nat]

ASSUME RequestsAssumption == Requests \subseteq RequestBodies
ASSUME DonorAssumption ==
    /\ DonorTexts \in Seq(Seq(Nat)) /\ DonorText \in Seq(Nat)
    /\ DonorIntervals \subseteq Nat
ASSUME MaxFaultsAssumption == MaxFaults \in Nat

VARIABLES
    request,           \* the body the client sent; never changes
    \* event_generator and its strategy object
    srv_pc,            \* where event_generator is suspended
    produced,          \* tokens the backend has yielded
    token_buffer, index,
    buffer,            \* BufferAndSignStrategy._buffer
    running_hash, since_checkpoint,  \* HashChainStrategy
    forgotten,         \* server_crypto.forget(handshake_id) was called
    flushed,           \* history: texts handed to add_chunk
    finalized,         \* history: finalize() has signed the terminal record
    \* the response stream
    wire, cut, faults,
    \* run_streaming_transaction
    cli_pc, metrics, chain_state, terminal_seen, expected_index,
    reconstructed,     \* the plaintexts appended to it, in order
    pending            \* len(pending)

serverVars == <<srv_pc, produced, token_buffer, index, buffer, running_hash,
                since_checkpoint, forgotten, flushed, finalized>>
clientVars == <<cli_pc, metrics, chain_state, terminal_seen, expected_index,
                reconstructed, pending>>
vars == <<request, serverVars, wire, cut, faults, clientVars>>

strategy == request.strategy
k == request.checkpoint_interval
AtLeastOne(n) == IF n >= 1 THEN n ELSE 1
chunk_size_tokens == AtLeastOne(request.chunk_size_tokens)
max_tokens == AtLeastOne(request.max_tokens)

-----------------------------------------------------------------------------
Init ==
    /\ request \in Requests
    /\ srv_pc = "generating" /\ produced = 0
    /\ token_buffer = <<>> /\ index = 0
    /\ buffer = <<>> /\ running_hash = genesis_hash(Hid) /\ since_checkpoint = 0
    /\ forgotten = FALSE /\ flushed = <<>> /\ finalized = FALSE
    /\ wire = <<>> /\ cut = FALSE /\ faults = 0
    /\ cli_pc = "reading"
    /\ metrics = [all_signatures_valid |-> TRUE, all_aead_ok |-> TRUE,
                  all_in_order |-> TRUE, stream_fully_verified |-> None,
                  n_signatures |-> 0, max_unverified_chunks |-> 0]
    /\ chain_state = NewChainState
    /\ terminal_seen = FALSE /\ expected_index = 0
    /\ reconstructed = <<>> /\ pending = 0

-----------------------------------------------------------------------------
(***************************************************************************)
(* The server.                                                             *)
(***************************************************************************)
Connected == ~cut /\ cli_pc = "reading"

\* yield: the record goes to the client if it is still there.
Yield(record) == wire' = IF Connected THEN Append(wire, record) ELSE wire

\* Mutant: signs one chunk late.
CheckpointDueLate == k > 0 /\ since_checkpoint + 1 > k

\* The chunk being added completes a checkpoint interval.
CheckpointDue == k > 0 /\ since_checkpoint + 1 >= k

SinceCheckpoint == IF CheckpointDue THEN 0 ELSE since_checkpoint + 1

\* StreamSigningStrategy.add_chunk(text, index), by strategy.
add_chunk(text) ==
    LET env == aead_encrypt(Hid, index + 1, text)
        hash == absorb(running_hash, index, env)
    IN  \/ /\ strategy = "buffer_and_sign"
           /\ buffer' = buffer \o text
           /\ UNCHANGED <<running_hash, since_checkpoint, wire>>
        \/ /\ strategy = "per_chunk"
           /\ Yield(ChunkRow(index, env, None, Sign(Hid, chunk_message(ctx, index, env))))
           /\ UNCHANGED <<buffer, running_hash, since_checkpoint>>
        \/ /\ strategy = "hash_chain"
           /\ running_hash' = hash
           /\ since_checkpoint' = SinceCheckpoint
           /\ Yield(ChunkRow(index, env, hash,
                     IF CheckpointDue THEN Sign(Hid, checkpoint_message(ctx, index, hash)) ELSE None))
           /\ UNCHANGED buffer

\* flush_buffer with a non-empty buffer holding text.
flush_buffer(text) ==
    /\ add_chunk(text)
    /\ token_buffer' = <<>>
    /\ index' = index + 1
    /\ flushed' = Append(flushed, text)

NoFlush == UNCHANGED <<buffer, running_hash, since_checkpoint, wire, index, flushed>>

\* The backend yields a token; the chunk goes out once the buffer is full.
GenerateToken ==
    /\ srv_pc = "generating" /\ produced < max_tokens
    /\ produced' = produced + 1
    /\ LET text == Append(token_buffer, produced + 1) IN
       IF Len(text) >= chunk_size_tokens
       THEN flush_buffer(text)
       ELSE token_buffer' = text /\ NoFlush
    /\ UNCHANGED <<request, srv_pc, forgotten, finalized, cut, faults, clientVars>>

\* Mutant: the trailing partial chunk is not flushed.
EndGenerationWithoutTrailing ==
    /\ srv_pc = "generating"
    /\ srv_pc' = "finalizing"
    /\ NoFlush
    /\ UNCHANGED <<request, produced, token_buffer, forgotten, finalized, cut, faults, clientVars>>

\* The backend is exhausted, at max_tokens or before: flush what is left.
EndGeneration ==
    /\ srv_pc = "generating"
    /\ srv_pc' = "finalizing"
    /\ IF token_buffer # <<>>
       THEN flush_buffer(token_buffer)
       ELSE NoFlush /\ UNCHANGED token_buffer
    /\ UNCHANGED <<request, produced, forgotten, finalized, cut, faults, clientVars>>

\* StreamSigningStrategy.finalize(n_chunks), by strategy.
finalize(n_chunks) ==
    LET env == aead_encrypt(Hid, 0, buffer) IN
    \/ /\ strategy = "buffer_and_sign"
       /\ Yield(BufferedFinal(env, Sign(Hid, buffered_message(ctx, env))))
    \/ /\ strategy = "per_chunk"
       /\ Yield(PerChunkFinal(n_chunks, Sign(Hid, end_message(ctx, n_chunks))))
    \/ /\ strategy = "hash_chain"
       /\ Yield(ChainFinal(n_chunks, running_hash,
                           Sign(Hid, final_chain_message(ctx, n_chunks, running_hash))))

Finalize ==
    /\ srv_pc = "finalizing"
    /\ srv_pc' = "closing"
    /\ finalize(index)
    /\ finalized' = TRUE
    /\ UNCHANGED <<request, produced, token_buffer, index, buffer, running_hash,
                   since_checkpoint, forgotten, flushed, cut, faults, clientVars>>

SendDone ==
    /\ srv_pc = "closing"
    /\ srv_pc' = "forgetting"
    /\ Yield(DoneEvent(index))
    /\ UNCHANGED <<request, produced, token_buffer, index, buffer, running_hash,
                   since_checkpoint, forgotten, flushed, finalized, cut, faults, clientVars>>

\* Mutant: the handshake is kept, and the response open, until the peer hangs up.
ForgetAfterPeer ==
    /\ srv_pc = "forgetting" /\ ~Connected
    /\ srv_pc' = "closed" /\ forgotten' = TRUE
    /\ UNCHANGED <<request, produced, token_buffer, index, buffer, running_hash,
                   since_checkpoint, flushed, finalized, wire, cut, faults, clientVars>>

Forget ==
    /\ srv_pc = "forgetting"
    /\ srv_pc' = "closed" /\ forgotten' = TRUE
    /\ UNCHANGED <<request, produced, token_buffer, index, buffer, running_hash,
                   since_checkpoint, flushed, finalized, wire, cut, faults, clientVars>>

\* The peer is gone: the response task is cancelled at its suspension point.
Cancelled ==
    /\ srv_pc \notin {"closed", "aborted"} /\ ~Connected
    /\ srv_pc' = "aborted"
    /\ UNCHANGED <<request, produced, token_buffer, index, buffer, running_hash,
                   since_checkpoint, forgotten, flushed, finalized, wire, cut, faults,
                   clientVars>>

\* backend.stream raises: the exception leaves event_generator, the response
\* ends without its closing frame.
BackendFails ==
    /\ srv_pc = "generating"
    /\ srv_pc' = "aborted" /\ cut' = TRUE
    /\ UNCHANGED <<request, produced, token_buffer, index, buffer, running_hash,
                   since_checkpoint, forgotten, flushed, finalized, wire, faults, clientVars>>

ServerNext ==
    \/ GenerateToken \/ EndGeneration \/ Finalize \/ SendDone \/ Forget
    \/ Cancelled \/ BackendFails

-----------------------------------------------------------------------------
(***************************************************************************)
(* The stream in transit.  Each fault is one the attack tables of          *)
(* threats/streaming_mitm_experiment.py, streaming_attack_campaign.py and  *)
(* webapp/demo_transaction.py apply to a stream; here they strike any      *)
(* record, several times, while the stream is being produced and read.     *)
(***************************************************************************)
Fault(stream) ==
    /\ faults < MaxFaults
    /\ faults' = faults + 1
    /\ wire' = stream
    /\ UNCHANGED <<request, serverVars, clientVars>>

Drop(i) == Fault(RemoveAt(wire, i)) /\ UNCHANGED cut

Reorder(i) ==
    /\ i < Len(wire)
    /\ Fault([wire EXCEPT ![i] = wire[i + 1], ![i + 1] = wire[i]])
    /\ UNCHANGED cut

Duplicate(i) == Fault(InsertAt(wire, i + 1, wire[i])) /\ UNCHANGED cut

\* replay, session_replay: records of another session's captured stream.
DonorRecords ==
    UNION {CapturedStream(Other, s, interval, DonorTexts, DonorText) :
           s \in StrategyNames, interval \in DonorIntervals}

Replay(i, record) == Fault([wire EXCEPT ![i] = record]) /\ UNCHANGED cut

\* tamper_ciphertext, tamper_signature: _flip_middle_byte.
TamperCiphertext(i) ==
    /\ wire[i].env # None
    /\ Fault([wire EXCEPT ![i].env.key = NoKey])
    /\ UNCHANGED cut

TamperSignature(i) ==
    /\ wire[i].signature # None
    /\ Fault([wire EXCEPT ![i].signature.signer = NoKey])
    /\ UNCHANGED cut

IsCheckpoint(record) == record.kind = "chunk" /\ record.chain # None /\ record.signature # None

StripCheckpoint(i) ==
    /\ IsCheckpoint(wire[i])
    /\ Fault([wire EXCEPT ![i].signature = None])
    /\ UNCHANGED cut

MoveCheckpoint(i) ==
    /\ i < Len(wire) /\ IsCheckpoint(wire[i]) /\ wire[i + 1].kind = "chunk"
    /\ Fault([wire EXCEPT ![i].signature = None, ![i + 1].signature = wire[i].signature])
    /\ UNCHANGED cut

\* truncate: the rest of the stream never arrives.
Truncate(n) ==
    /\ Connected /\ srv_pc # "closed"
    /\ Fault(SubSeq(wire, 1, n))
    /\ cut' = TRUE

FaultNext ==
    \/ \E i \in 1..Len(wire) :
          \/ Drop(i) \/ Reorder(i) \/ Duplicate(i)
          \/ \E record \in DonorRecords : Replay(i, record)
          \/ TamperCiphertext(i) \/ TamperSignature(i)
          \/ StripCheckpoint(i) \/ MoveCheckpoint(i)
    \/ \E n \in 0..Len(wire) : Truncate(n)

-----------------------------------------------------------------------------
(***************************************************************************)
(* The client.  A step handles the next SSE data line.                     *)
(***************************************************************************)
Larger(a, b) == IF a >= b THEN a ELSE b

\* Taking one line off the stream; only the client's state changes with it.
Read ==
    /\ cli_pc = "reading" /\ wire # <<>>
    /\ wire' = Tail(wire)
    /\ UNCHANGED <<request, serverVars, cut, faults>>

OnPerChunk(record) ==
    /\ Read
    /\ record.kind = "chunk" /\ strategy = "per_chunk" /\ record.signature # None
    /\ LET result == verify_per_chunk(record, expected_index)
           covers == result.signature_valid /\ result.in_order
       IN  /\ metrics' = [metrics EXCEPT
                !.all_signatures_valid = @ /\ result.signature_valid,
                !.all_aead_ok = @ /\ result.aead_ok,
                !.all_in_order = @ /\ result.in_order,
                !.n_signatures = @ + 1,
                !.max_unverified_chunks = IF covers THEN Larger(@, pending + 1) ELSE @]
           /\ pending' = IF covers THEN 0 ELSE pending + 1
           /\ reconstructed' = IF result.aead_ok THEN Extend(reconstructed, record.env.text)
                               ELSE reconstructed
    /\ expected_index' = expected_index + 1
    /\ UNCHANGED <<cli_pc, chain_state, terminal_seen>>

OnChainChunk(record) ==
    /\ Read
    /\ record.kind = "chunk" /\ strategy = "hash_chain" /\ record.chain # None
    /\ chain_state' = ChainAbsorb(chain_state, record)
    /\ LET result == verify_hash_chain_chunk(record, chain_state', k)
       IN  /\ metrics' = [metrics EXCEPT
                !.all_aead_ok = @ /\ result.aead_ok,
                !.all_signatures_valid = @ /\ ~result.checkpoint_missing
                                           /\ (result.checkpoint => result.checkpoint_valid),
                !.n_signatures = IF result.checkpoint THEN @ + 1 ELSE @,
                !.max_unverified_chunks =
                    IF result.checkpoint_valid THEN Larger(@, pending + 1) ELSE @]
           /\ pending' = IF result.checkpoint_valid THEN 0 ELSE pending + 1
           /\ reconstructed' = IF result.aead_ok THEN Extend(reconstructed, record.env.text)
                               ELSE reconstructed
    /\ UNCHANGED <<cli_pc, terminal_seen, expected_index>>

OnFinalBuffered(record) ==
    /\ Read
    /\ record.kind = "final_buffered"
    /\ LET result == verify_buffer_and_sign_final(record)
       IN  /\ metrics' = [metrics EXCEPT
                !.all_signatures_valid = @ /\ result.signature_valid,
                !.all_aead_ok = @ /\ result.aead_ok,
                !.n_signatures = @ + 1]
           /\ reconstructed' = IF result.aead_ok THEN Extend(reconstructed, record.env.text)
                               ELSE reconstructed
    /\ terminal_seen' = TRUE
    /\ UNCHANGED <<cli_pc, chain_state, expected_index, pending>>

OnFinalPerChunk(record) ==
    /\ Read
    /\ record.kind = "final_per_chunk"
    /\ metrics' = [metrics EXCEPT
          !.stream_fully_verified =
              /\ verify_per_chunk_final(record, expected_index)
              /\ metrics.all_signatures_valid /\ metrics.all_aead_ok /\ metrics.all_in_order,
          !.n_signatures = @ + 1]
    /\ terminal_seen' = TRUE
    /\ UNCHANGED <<cli_pc, chain_state, expected_index, reconstructed, pending>>

OnFinalChain(record) ==
    /\ Read
    /\ record.kind = "final_chain" /\ strategy = "hash_chain"
    /\ LET verified == verify_hash_chain_final(record, chain_state)
       IN  /\ metrics' = [metrics EXCEPT
                !.stream_fully_verified = verified,
                !.n_signatures = @ + 1,
                !.max_unverified_chunks =
                    IF verified THEN Larger(@, pending) ELSE @]
           /\ pending' = IF verified THEN 0 ELSE pending
    /\ terminal_seen' = TRUE
    /\ UNCHANGED <<cli_pc, chain_state, expected_index, reconstructed>>

\* The done event, and chunks under buffer_and_sign, match no branch.
OnIgnored(record) ==
    /\ Read
    /\ \/ record.kind = "done"
       \/ record.kind = "chunk" /\ strategy = "buffer_and_sign"
    /\ UNCHANGED clientVars

\* A record of another strategy lacks a field its branch reads, or meets a
\* client without chain state: the exception ends the transaction.
OnMalformed(record) ==
    /\ Read
    /\ \/ record.kind = "chunk" /\ strategy = "per_chunk" /\ record.signature = None
       \/ record.kind = "chunk" /\ strategy = "hash_chain" /\ record.chain = None
       \/ record.kind = "final_chain" /\ strategy # "hash_chain"
    /\ cli_pc' = "error"
    /\ UNCHANGED <<metrics, chain_state, terminal_seen, expected_index, reconstructed, pending>>

\* The response body ended: the verdict is settled.
EndOfBody ==
    /\ cli_pc = "reading" /\ wire = <<>> /\ (srv_pc = "closed" \/ cut)
    /\ cli_pc' = "done"
    /\ metrics' = [metrics EXCEPT !.stream_fully_verified =
          IF ~terminal_seen THEN FALSE
          ELSE IF @ = None THEN metrics.all_signatures_valid /\ metrics.all_aead_ok
          ELSE @]
    /\ UNCHANGED <<request, serverVars, wire, cut, faults, chain_state, terminal_seen,
                   expected_index, reconstructed, pending>>

\* Read timeout or connection reset: httpx raises out of the loop.
ReadError ==
    /\ cli_pc = "reading" /\ wire = <<>> /\ srv_pc # "closed"
    /\ cli_pc' = "error"
    /\ UNCHANGED <<request, serverVars, wire, cut, faults, metrics, chain_state, terminal_seen,
                   expected_index, reconstructed, pending>>

OnRecord(record) ==
    \/ OnPerChunk(record) \/ OnChainChunk(record) \/ OnFinalBuffered(record)
    \/ OnFinalPerChunk(record) \/ OnFinalChain(record)
    \/ OnIgnored(record) \/ OnMalformed(record)

ClientNext == EndOfBody \/ (wire # <<>> /\ OnRecord(Head(wire)))

-----------------------------------------------------------------------------
\* Both sides are through with the transaction.
Over == cli_pc # "reading" /\ srv_pc \in {"closed", "aborted"}
Finished == Over /\ UNCHANGED vars

Next == ServerNext \/ ClientNext \/ FaultNext \/ ReadError \/ Finished

Spec == Init /\ [][Next]_vars

\* The event loops keep running the generator and the reader; nothing forces
\* a fault or a timeout.
FairSpec == Spec /\ WF_vars(ServerNext) /\ WF_vars(ClientNext)

-----------------------------------------------------------------------------
(***************************************************************************)
(* Properties.                                                             *)
(***************************************************************************)
Metrics == [all_signatures_valid: BOOLEAN, all_aead_ok: BOOLEAN, all_in_order: BOOLEAN,
            stream_fully_verified: BOOLEAN \cup {None},
            n_signatures: Nat, max_unverified_chunks: Nat]

\* The variables have their types; the server's counters stay below the
\* limits that empty them: a chunk is flushed as soon as chunk_size_tokens are
\* buffered, a checkpoint signed as soon as the interval is full.
TypeOK ==
    /\ request \in Requests
    /\ srv_pc \in {"generating", "finalizing", "closing", "forgetting", "closed", "aborted"}
    /\ produced \in 0..max_tokens
    /\ token_buffer \in Seq(Nat) /\ Len(token_buffer) < chunk_size_tokens
    /\ index \in Nat /\ buffer \in Seq(Nat) /\ running_hash \in Hashes
    /\ since_checkpoint \in Nat /\ (k > 0 => since_checkpoint < k)
    /\ forgotten \in BOOLEAN /\ flushed \in Seq(Seq(Nat)) /\ finalized \in BOOLEAN
    /\ wire \in Seq(Records) /\ cut \in BOOLEAN /\ faults \in 0..MaxFaults
    /\ cli_pc \in {"reading", "done", "error"} /\ metrics \in Metrics
    /\ chain_state \in [running_hash: Hashes, n_absorbed: Nat]
    /\ terminal_seen \in BOOLEAN /\ expected_index \in Nat
    /\ reconstructed \in Seq(Seq(Nat)) /\ pending \in Nat

\* What the client has to end up with: the chunk texts, or the one buffered text.
Genuine == IF strategy = "buffer_and_sign" THEN Extend(<<>>, buffer) ELSE flushed

\* Every token the backend yields is in exactly one chunk, in order, whatever
\* chunk_size_tokens is and wherever generation stops: flush_buffer loses and
\* repeats nothing, and index counts the chunks.
ChunksCarryTheText ==
    /\ FlattenSeq(flushed) \o token_buffer = [i \in 1..produced |-> i]
    /\ strategy = "buffer_and_sign" => buffer = FlattenSeq(flushed)
    /\ index = Len(flushed)
    /\ finalized => token_buffer = <<>>

\* stream_fully_verified is true only if the server ended the stream and the
\* client holds the whole genuine text first, in order and unaltered: no
\* record lost, repeated, reordered, altered or taken from another session can
\* hide behind a positive verdict.
VerifiedMeansComplete ==
    metrics.stream_fully_verified = TRUE => finalized /\ IsPrefix(Genuine, reconstructed)

\* A stream nothing happened to is accepted, exactly, with every check passed
\* and with one signature per chunk plus the end record (per_chunk), per full
\* interval plus the terminal record (hash_chain), or in all (buffer_and_sign).
\* In particular the server's since_checkpoint and the client's n_absorbed % k
\* agree on the schedule.
SignatureCount ==
    CASE strategy = "buffer_and_sign" -> 1
      [] strategy = "per_chunk" -> index + 1
      [] strategy = "hash_chain" -> (IF k > 0 THEN index \div k ELSE 0) + 1

NoFalseRejection ==
    (cli_pc = "done" /\ srv_pc = "closed" /\ faults = 0) =>
        /\ metrics.stream_fully_verified = TRUE
        /\ metrics.all_signatures_valid /\ metrics.all_aead_ok /\ metrics.all_in_order
        /\ metrics.n_signatures = SignatureCount
        /\ reconstructed = Genuine

\* With a checkpoint interval k requested, a client that has seen no failed
\* check shows at most k chunks before a signature covers them, whatever was
\* done to the checkpoints in transit.
ExposureBounded ==
    (strategy = "hash_chain" /\ k > 0 /\ metrics.all_signatures_valid) =>
        pending < k /\ metrics.max_unverified_chunks <= k

\* What a hash_chain client counts as covered are the first chunks the server
\* produced, unaltered, even after a check has failed.
CoveredIsGenuine ==
    strategy = "hash_chain" =>
        LET covered == chain_state.n_absorbed - pending
        IN  /\ covered \in 0..Len(flushed)
            /\ \A i \in 1..covered :
                  chain_state.running_hash.links[i] = Link(Hid, flushed, i)

\* While no check of a per_chunk client has failed, the text it shows is
\* exactly what the server signed so far, chunk by chunk.
AcceptedPrefix ==
    (strategy = "per_chunk" /\ metrics.all_signatures_valid /\ metrics.all_in_order) =>
        /\ pending = 0 /\ expected_index <= Len(flushed)
        /\ reconstructed = SubSeq(flushed, 1, expected_index)

\* Every transaction ends on both sides, whatever is lost in transit.
TransactionEnds == <>Over

-----------------------------------------------------------------------------
(***************************************************************************)
(* What the repository's documentation says and the code does not do.      *)
(***************************************************************************)
\* docs/STREAMING_HOW_IT_WORKS.md: the server forgets the handshake once the
\* stream ends.
ForgottenOnceEnded == srv_pc \in {"closed", "aborted"} => forgotten

\* threats/streaming_mitm_experiment.py:replay_through_client, which accepts
\* "exactly as" the client: a stream with a missing or failed checkpoint is
\* not accepted as fully verified.
VerifiedPassedEveryCheck ==
    metrics.stream_fully_verified = TRUE => metrics.all_signatures_valid

=============================================================================
