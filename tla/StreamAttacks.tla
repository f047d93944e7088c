----------------------------- MODULE StreamAttacks -----------------------------
(***************************************************************************)
(* The offline side of the stream-integrity experiments: a captured        *)
(* stream, what the attack tables make of it, and replay_through_client,   *)
(* the experiments' own client.  Everything here is a function of its      *)
(* arguments; where the code draws a random number, all draws are given.   *)
(***************************************************************************)
EXTENDS StreamVerify, FiniteSetsExt, SequencesExt

\* _collect_stream: the records of session h, which streamed n chunks.
Texts(n) == [i \in 1..n |-> <<i>>]
Captured(h, s, k, n) ==
    [chunks |-> IF s = "buffer_and_sign" THEN <<>>
                ELSE [i \in 1..n |-> CapturedChunk(h, s, k, Texts(n), i)],
     final |-> CapturedFinal(h, s, Texts(n), [i \in 1..n |-> i])]

-----------------------------------------------------------------------------
\* HashChainClientState after absorbing the first i chunks.
ChainAfter(chunks, i) ==
    [running_hash |-> [gen |-> genesis_hash(Hid).gen,
                       links |-> [j \in 1..i |-> [index |-> chunks[j].n, env |-> chunks[j].env]]],
     n_absorbed |-> i]

\* Mutant: checkpoints that fail to verify are let through.
RejectsIgnoringCheckpoints(s, k, chunks, i) ==
    LET per_chunk == verify_per_chunk(chunks[i], i - 1)
        chained == verify_hash_chain_chunk(chunks[i], ChainAfter(chunks, i), k)
    IN  IF s = "per_chunk"
        THEN ~(per_chunk.in_order /\ per_chunk.signature_valid /\ per_chunk.aead_ok)
        ELSE ~chained.aead_ok

\* The client rejects at the i-th chunk it is given.
Rejects(s, k, chunks, i) ==
    LET per_chunk == verify_per_chunk(chunks[i], i - 1)
        chained == verify_hash_chain_chunk(chunks[i], ChainAfter(chunks, i), k)
    IN  IF s = "per_chunk"
        THEN ~(per_chunk.in_order /\ per_chunk.signature_valid /\ per_chunk.aead_ok)
        ELSE \/ ~chained.aead_ok
             \/ chained.checkpoint_missing
             \/ chained.checkpoint /\ ~chained.checkpoint_valid

\* Mutant: a stream cut before its terminal record passes.
FinalVerifiesIfPresent(s, chunks, final) ==
    final = None \/ (IF s = "per_chunk" THEN verify_per_chunk_final(final, Len(chunks))
                     ELSE verify_hash_chain_final(final, ChainAfter(chunks, Len(chunks))))

FinalVerifies(s, chunks, final) ==
    /\ final # None
    /\ IF s = "per_chunk" THEN verify_per_chunk_final(final, Len(chunks))
       ELSE verify_hash_chain_final(final, ChainAfter(chunks, Len(chunks)))

\* Chunks covered by a signature once the first n have passed.
Covered(s, chunks, n) ==
    IF s = "per_chunk" THEN n ELSE Max({0} \cup {i \in 1..n : chunks[i].signature # None})

\* Position of the first rejection, Len(chunks) if only the terminal record or
\* its absence tells, None if the stream is accepted; and the chunks covered.
\* The v2 client is the one with k = 0.
replay_through_client(s, k, chunks, final) ==
    LET bad == {i \in 1..Len(chunks) : Rejects(s, k, chunks, i)}
        pos == IF bad # {} THEN Min(bad) - 1 ELSE Len(chunks)
    IN  IF bad = {} /\ FinalVerifies(s, chunks, final)
        THEN [pos |-> None, covered |-> Len(chunks)]
        ELSE [pos |-> pos, covered |-> Covered(s, chunks, pos)]

-----------------------------------------------------------------------------
Swap(seq, i) == [seq EXCEPT ![i] = seq[i + 1], ![i + 1] = seq[i]]
Strip(chunk) == [chunk EXCEPT !.signature = None]

STATIC == <<"drop", "reorder", "duplicate", "replay", "truncate", "session_replay">>
ADAPTIVE == <<"checkpoint_strip", "checkpoint_strip_v2client", "checkpoint_move",
              "drop_before_ckpt", "drop_after_ckpt", "reorder_across">>

\* _mutate of the campaign: the outcomes of its draws.  first counts the
\* genuine chunks before the first changed one; None says that the attack does
\* not apply to the stream.
mutate(attack, s, cap, donor) ==
    LET c == cap.chunks
        n == Len(c)
        ck == {i \in 1..n : c[i].signature # None}
        To(chunks, first) == [chunks |-> chunks, final |-> cap.final, first |-> first]
        AtCheckpoint(Change(_), applies) ==
            IF s # "hash_chain" \/ ck = {} THEN {None}
            ELSE {IF j \in applies THEN Change(j) ELSE None : j \in ck}
    IN  CASE attack = "drop" -> {To(RemoveAt(c, i), i - 1) : i \in 1..n}
          [] attack = "reorder" -> {To(Swap(c, i), i - 1) : i \in 1..(n - 1)}
          [] attack = "duplicate" -> {To(InsertAt(c, i + 1, c[i]), i) : i \in 1..n}
          [] attack = "replay" ->
                {To([c EXCEPT ![i] = donor.chunks[i]], i - 1) : i \in 1..Min({n, Len(donor.chunks)})}
          [] attack = "truncate" ->
                {[To(SubSeq(c, 1, m), m) EXCEPT !.final = None] : m \in 1..n}
          [] attack = "session_replay" ->
                {[To(donor.chunks, 0) EXCEPT !.final = donor.final]}
          [] attack \in {"checkpoint_strip", "checkpoint_strip_v2client"} ->
                IF s # "hash_chain" \/ ck = {} THEN {None}
                ELSE {To([i \in 1..n |-> Strip(c[i])], Min(ck) - 1)}
          [] attack = "checkpoint_move" ->
                AtCheckpoint(LAMBDA j : To([c EXCEPT ![j] = Strip(c[j]),
                                                ![j + 1].signature = c[j].signature], j - 1), 1..(n - 1))
          [] attack = "drop_before_ckpt" -> AtCheckpoint(LAMBDA j : To(RemoveAt(c, j - 1), j - 2), 2..n)
          [] attack = "drop_after_ckpt" -> AtCheckpoint(LAMBDA j : To(RemoveAt(c, j + 1), j), 1..(n - 1))
          [] attack = "reorder_across" -> AtCheckpoint(LAMBDA j : To(Swap(c, j), j - 1), 1..(n - 1))

\* randrange of an empty range raises ValueError.
DrawRaises(attack, cap, donor) ==
    LET n == Len(cap.chunks)
    IN  \/ attack \in {"drop", "duplicate", "truncate"} /\ n = 0
        \/ attack = "reorder" /\ n < 2
        \/ attack = "replay" /\ Min({n, Len(donor.chunks)}) = 0

=============================================================================
