--------------------------- MODULE StreamIntegrity ---------------------------
(***************************************************************************)
(* The invariant behind the client's verdict: what the server has signed,  *)
(* what a record on the wire can therefore carry, and what the client's    *)
(* state says about the text it has shown.  It is inductive; its           *)
(* preservation is proved in StreamProofs.                                 *)
(***************************************************************************)
EXTENDS StreamTransaction

\* event_generator's counters describe the chunks handed to the strategy.
ServerInv ==
    /\ index = Len(flushed)
    /\ \A i \in 1..Len(flushed) : flushed[i] # <<>>
    /\ srv_pc \in {"generating", "finalizing"} => ~finalized
    /\ strategy = "hash_chain" => running_hash = ChainOf(Hid, flushed, index)

\* The messages the server has signed under this handshake.
SignedByServer(msg) ==
    \/ /\ strategy = "buffer_and_sign" /\ finalized
       /\ msg = buffered_message(ctx, aead_encrypt(Hid, 0, buffer))
    \/ /\ strategy = "per_chunk"
       /\ \E i \in 1..Len(flushed) :
             msg = chunk_message(ctx, i - 1, aead_encrypt(Hid, i, flushed[i]))
    \/ /\ strategy = "per_chunk" /\ finalized
       /\ msg = end_message(ctx, Len(flushed))
    \/ /\ strategy = "hash_chain"
       /\ \E i \in 1..Len(flushed) :
             msg = checkpoint_message(ctx, i - 1, ChainOf(Hid, flushed, i))
    \/ /\ strategy = "hash_chain" /\ finalized
       /\ msg = final_chain_message(ctx, Len(flushed), ChainOf(Hid, flushed, Len(flushed)))

\* A signature of this handshake is on a message the server signed: faults
\* move, repeat and spoil signatures, they make none.
Authentic(record) ==
    (record.signature # None /\ record.signature.signer = Hid)
        => SignedByServer(record.signature.msg)
AuthenticRecords == {record \in Records : Authentic(record)}

Complete == finalized /\ IsPrefix(Genuine, reconstructed)

\* buffer_and_sign: nothing is shown before the whole text is verified.
BufferInv ==
    strategy = "buffer_and_sign" => (reconstructed = <<>> \/ Complete)

\* hash_chain: the client's chain is made of the chunks it absorbed; if all of
\* them open under the session key, they are the text it shows.
ChainInv ==
    strategy = "hash_chain" =>
        LET links == chain_state.running_hash.links IN
        /\ chain_state.running_hash.gen = genesis_hash(Hid).gen
        /\ Len(links) = chain_state.n_absorbed
        /\ (\A i \in 1..Len(links) : links[i].env.key = Hid /\ links[i].env.text # <<>>) =>
              reconstructed = [i \in 1..Len(links) |-> links[i].env.text]

\* The verdict the client has, or will derive from its flags at end of body.
VerdictInv ==
    /\ VerifiedMeansComplete
    /\ (/\ terminal_seen /\ metrics.stream_fully_verified = None
        /\ metrics.all_signatures_valid /\ metrics.all_aead_ok) => Complete

\* hash_chain: the chunks shown uncovered are those since the last scheduled
\* checkpoint at most.
ExposureInv ==
    (strategy = "hash_chain" /\ k > 0 /\ metrics.all_signatures_valid) =>
        /\ pending <= chain_state.n_absorbed % k
        /\ metrics.max_unverified_chunks <= k

\* The stream's signatures, and every conclusion the client draws from them,
\* are backed by what the server produced, under all three strategies.
Inv ==
    /\ TypeOK /\ ServerInv
    /\ wire \in Seq(AuthenticRecords)
    /\ AcceptedPrefix /\ BufferInv /\ ChainInv
    /\ VerdictInv /\ CoveredIsGenuine /\ ExposureInv

=============================================================================
