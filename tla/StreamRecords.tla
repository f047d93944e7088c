---------------------------- MODULE StreamRecords ----------------------------
(***************************************************************************)
(* What crypto/streaming.py encrypts, hashes, signs and puts on the wire.  *)
(*                                                                         *)
(* Cryptography is symbolic.  A handshake id stands for the key material   *)
(* of its handshake: the AES session key and the signing key pair.  A hash *)
(* is the tuple of what was hashed and a signature the pair of signer and  *)
(* message, so both are injective; a ciphertext records the key it opens   *)
(* under.  NoKey is the owner of an altered ciphertext or signature: bytes *)
(* that open and verify under no key.                                      *)
(***************************************************************************)
EXTENDS Integers, Sequences

CONSTANTS Hid,    \* handshake_id of the transaction under study
          Other,  \* handshake_id of a different session with the same server
          NoKey,  \* owner of bytes changed in transit
          None    \* Python's None: an absent field of a wire record

ASSUME DistinctIds ==
    /\ Hid # Other /\ Hid # NoKey /\ Other # NoKey
    /\ None \notin BOOLEAN

-----------------------------------------------------------------------------
\* AES-256-GCM.  The nonce is os.urandom, so two encryptions never collide:
\* it is the number of the encryption within its session.
aead_encrypt(key, nonce, text) == [key |-> key, nonce |-> nonce, text |-> text]

\* aead_decrypt raises AEADError unless the key is the encrypting one.
Decrypts(key, env) == env.key = key

\* ServerCryptoConfig.sign / ClientCryptoConfig.verify.
Sign(signer, msg) == [signer |-> signer, msg |-> msg]
Verify(signer, msg, sig) == sig = Sign(signer, msg)

-----------------------------------------------------------------------------
\* Session context and the role-labelled messages that get signed.  Every
\* message has the same four fields; a role that binds no number has n = 0.
stream_context(h) == <<"PQ-Shield-stream-v2", h>>

Message(label, ctx, n, body) == [label |-> label, ctx |-> ctx, n |-> n, body |-> body]

buffered_message(ctx, env) == Message("BUF", ctx, 0, <<env>>)
chunk_message(ctx, index, env) == Message("CHK", ctx, index, <<env>>)
end_message(ctx, n_chunks) == Message("END", ctx, n_chunks, <<>>)
checkpoint_message(ctx, index, hash) == Message("CKP", ctx, index, <<hash>>)
final_chain_message(ctx, n_chunks, hash) == Message("FIN", ctx, n_chunks, <<hash>>)

\* The hash chain: h_0 binds the session, h_i the previous hash, the index and
\* the envelope.  Collision freedom makes h_i the list of the links under it.
genesis_hash(h) == [gen |-> <<"GEN", stream_context(h)>>, links |-> <<>>]
absorb(hash, index, env) ==
    [gen |-> hash.gen, links |-> Append(hash.links, [index |-> index, env |-> env])]

-----------------------------------------------------------------------------
\* Wire records, one uniform shape: n is a chunk's index or a terminal
\* record's n_chunks; a field the strategy does not send is None.
Record(kind, n, env, chain, sig) ==
    [kind |-> kind, n |-> n, env |-> env, chain |-> chain, signature |-> sig]

ChunkRow(index, env, chain, sig) == Record("chunk", index, env, chain, sig)
BufferedFinal(env, sig) == Record("final_buffered", 0, env, None, sig)
PerChunkFinal(n_chunks, sig) == Record("final_per_chunk", n_chunks, None, None, sig)
ChainFinal(n_chunks, hash, sig) == Record("final_chain", n_chunks, None, hash, sig)
\* "event: done": its data line carries n_chunks and no kind.
DoneEvent(n_chunks) == Record("done", n_chunks, None, None, None)

StrategyNames == {"buffer_and_sign", "per_chunk", "hash_chain"}

-----------------------------------------------------------------------------
(***************************************************************************)
(* A whole stream in closed form: what session h sends for the chunk texts *)
(* it was given.  threats/ splices records of such a captured stream into  *)
(* another session's.                                                      *)
(***************************************************************************)
Link(h, texts, i) == [index |-> i - 1, env |-> aead_encrypt(h, i, texts[i])]
ChainOf(h, texts, n) ==
    [gen |-> genesis_hash(h).gen, links |-> [i \in 1..n |-> Link(h, texts, i)]]

CapturedChunk(h, s, k, texts, i) ==
    LET env == aead_encrypt(h, i, texts[i])
        hash == ChainOf(h, texts, i)
    IN  IF s = "per_chunk"
        THEN ChunkRow(i - 1, env, None, Sign(h, chunk_message(stream_context(h), i - 1, env)))
        ELSE ChunkRow(i - 1, env, hash,
                 IF k > 0 /\ i % k = 0
                 THEN Sign(h, checkpoint_message(stream_context(h), i - 1, hash))
                 ELSE None)

CapturedFinal(h, s, texts, whole) ==
    LET n == Len(texts)
        env == aead_encrypt(h, 0, whole)
        hash == ChainOf(h, texts, n)
        ctx == stream_context(h)
    IN  CASE s = "buffer_and_sign" -> BufferedFinal(env, Sign(h, buffered_message(ctx, env)))
          [] s = "per_chunk" -> PerChunkFinal(n, Sign(h, end_message(ctx, n)))
          [] OTHER -> ChainFinal(n, hash, Sign(h, final_chain_message(ctx, n, hash)))

\* The captured stream as the set of its signed records.
CapturedStream(h, s, k, texts, whole) ==
    {CapturedFinal(h, s, texts, whole)} \cup
    (IF s = "buffer_and_sign" THEN {}
     ELSE {CapturedChunk(h, s, k, texts, i) : i \in 1..Len(texts)})

-----------------------------------------------------------------------------
\* What these are made of.
Envelopes == [key: {Hid, Other, NoKey}, nonce: Nat, text: Seq(Nat)]
Hashes == [gen: {genesis_hash(Hid).gen, genesis_hash(Other).gen},
           links: Seq([index: Nat, env: Envelopes])]
Messages == [label: {"BUF", "CHK", "END", "CKP", "FIN"},
             ctx: {stream_context(Hid), stream_context(Other)}, n: Nat,
             body: Seq(Envelopes) \cup Seq(Hashes)]
Signatures == [signer: {Hid, Other, NoKey}, msg: Messages]
Records == {r \in [kind: {"chunk", "final_buffered", "final_per_chunk", "final_chain", "done"},
                  n: Nat, env: Envelopes \cup {None}, chain: Hashes \cup {None},
                  signature: Signatures \cup {None}] :
              r.kind \in {"chunk", "final_buffered"} => r.env \in Envelopes}
\* Python's None equals no number, no record and no field of one.
ASSUME NoneAssumption ==
    /\ None \notin Nat /\ None \notin Records
    /\ None \notin Envelopes /\ None \notin Hashes /\ None \notin Signatures

=============================================================================
