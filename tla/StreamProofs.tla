---------------------------- MODULE StreamProofs ----------------------------
(***************************************************************************)
(* Proofs about StreamTransaction for every set of requests, every donor   *)
(* stream and every number of faults.  First its types and the chunks it   *)
(* makes of a text; then Inv of StreamIntegrity, an inductive invariant    *)
(* that implies the safety properties that the runs check.                 *)
(*                                                                         *)
(* Then StreamTransaction implements VerifiedDelivery under the mapping of *)
(* StreamDelivery.  The argument counts.  By Inv, what the client relies   *)
(* on is always the first ReliedCount chunks of what the server has        *)
(* released; so a step is judged by what it does to the released chunks    *)
(* and to that count.                                                      *)
(*                                                                         *)
(* Then the converse of the client's verdict being sound: a stream that    *)
(* arrives as it was sent is accepted.  The capturing client of            *)
(* StreamHarvest reads the same stream, so the last part can say what it   *)
(* has counted.                                                            *)
(***************************************************************************)
EXTENDS StreamHarvest, SequenceTheorems, WellFoundedInduction, TLAPS

-----------------------------------------------------------------------------
(***************************************************************************)
(* Types of the pieces a record is made of.                                *)
(***************************************************************************)
LEMMA ContextTypes ==
    /\ genesis_hash(Hid) \in Hashes /\ genesis_hash(Other) \in Hashes
    /\ stream_context(Hid) \in {stream_context(Hid), stream_context(Other)}
  BY DEF Hashes, genesis_hash

LEMMA EnvelopeType ==
    ASSUME NEW h \in {Hid, Other, NoKey}, NEW n \in Nat, NEW text \in Seq(Nat)
    PROVE  aead_encrypt(h, n, text) \in Envelopes
  BY DEF aead_encrypt, Envelopes

LEMMA AbsorbType ==
    ASSUME NEW hash \in Hashes, NEW n \in Nat, NEW env \in Envelopes
    PROVE  absorb(hash, n, env) \in Hashes
  <1>1. [index |-> n, env |-> env] \in [index: Nat, env: Envelopes]
    OBVIOUS
  <1>2. /\ hash.links \in Seq([index: Nat, env: Envelopes])
        /\ hash.gen \in {genesis_hash(Hid).gen, genesis_hash(Other).gen}
    BY DEF Hashes
  <1>3. Append(hash.links, [index |-> n, env |-> env]) \in Seq([index: Nat, env: Envelopes])
    BY <1>1, <1>2, AppendProperties
  <1>4. QED
    BY <1>2, <1>3 DEF absorb, Hashes

LEMMA MessageTypes ==
    ASSUME NEW h \in {Hid, Other}, NEW n \in Nat, NEW env \in Envelopes, NEW hash \in Hashes
    PROVE  /\ buffered_message(stream_context(h), env) \in Messages
           /\ chunk_message(stream_context(h), n, env) \in Messages
           /\ end_message(stream_context(h), n) \in Messages
           /\ checkpoint_message(stream_context(h), n, hash) \in Messages
           /\ final_chain_message(stream_context(h), n, hash) \in Messages
  <1>1. <<env>> \in Seq(Envelopes) /\ <<hash>> \in Seq(Hashes) /\ <<>> \in Seq(Envelopes)
    OBVIOUS
  <1>2. stream_context(h) \in {stream_context(Hid), stream_context(Other)}
    OBVIOUS
  <1>3. QED
    BY <1>1, <1>2 DEF Messages, Message, buffered_message, chunk_message, end_message,
       checkpoint_message, final_chain_message

LEMMA SignatureType ==
    ASSUME NEW h \in {Hid, Other, NoKey}, NEW msg \in Messages
    PROVE  Sign(h, msg) \in Signatures
  BY DEF Sign, Signatures

LEMMA RecordTypes ==
    ASSUME NEW n \in Nat, NEW env \in Envelopes, NEW chain \in Hashes \cup {None},
           NEW sig \in Signatures \cup {None}
    PROVE  /\ ChunkRow(n, env, chain, sig) \in Records
           /\ BufferedFinal(env, sig) \in Records
           /\ PerChunkFinal(n, sig) \in Records
           /\ ChainFinal(n, chain, sig) \in Records
           /\ DoneEvent(n) \in Records
  BY DEF Records, Record, ChunkRow, BufferedFinal, PerChunkFinal, ChainFinal, DoneEvent

-----------------------------------------------------------------------------
(***************************************************************************)
(* Records of the captured stream.                                         *)
(***************************************************************************)
LEMMA ChainOfType ==
    ASSUME NEW h \in {Hid, Other}, NEW texts \in Seq(Seq(Nat)), NEW n \in 0..Len(texts)
    PROVE  ChainOf(h, texts, n) \in Hashes
  <1>1. \A i \in 1..n : Link(h, texts, i) \in [index: Nat, env: Envelopes]
    <2>1. SUFFICES ASSUME NEW i \in 1..n
                   PROVE  Link(h, texts, i) \in [index: Nat, env: Envelopes]
      OBVIOUS
    <2>2. texts[i] \in Seq(Nat)
      BY ElementOfSeq
    <2>3. aead_encrypt(h, i, texts[i]) \in Envelopes
      BY <2>2, EnvelopeType
    <2>4. QED
      BY <2>3 DEF Link
  <1>2. [i \in 1..n |-> Link(h, texts, i)] \in Seq([index: Nat, env: Envelopes])
    BY <1>1
  <1>3. QED
    BY <1>2 DEF ChainOf, Hashes

LEMMA CapturedType ==
    ASSUME NEW s \in StrategyNames, NEW interval \in Nat,
           NEW texts \in Seq(Seq(Nat)), NEW whole \in Seq(Nat)
    PROVE  CapturedStream(Other, s, interval, texts, whole) \subseteq Records
  <1>1. CapturedFinal(Other, s, texts, whole) \in Records
    <2> DEFINE env == aead_encrypt(Other, 0, whole)
               hash == ChainOf(Other, texts, Len(texts))
    <2>1. env \in Envelopes
      BY EnvelopeType
    <2>2. hash \in Hashes /\ Len(texts) \in Nat
      BY ChainOfType
    <2> HIDE DEF env, hash
    <2>3. /\ BufferedFinal(env, Sign(Other, buffered_message(stream_context(Other), env))) \in Records
          /\ PerChunkFinal(Len(texts), Sign(Other, end_message(stream_context(Other), Len(texts)))) \in Records
          /\ ChainFinal(Len(texts), hash,
                 Sign(Other, final_chain_message(stream_context(Other), Len(texts), hash))) \in Records
      BY <2>1, <2>2, MessageTypes, SignatureType, RecordTypes
    <2>4. QED
      BY <2>3 DEF CapturedFinal, env, hash
  <1>2. ASSUME NEW i \in 1..Len(texts)
        PROVE  CapturedChunk(Other, s, interval, texts, i) \in Records
    <2> DEFINE env == aead_encrypt(Other, i, texts[i])
               hash == ChainOf(Other, texts, i)
    <2>1. env \in Envelopes
      BY EnvelopeType, ElementOfSeq
    <2>2. hash \in Hashes /\ i - 1 \in Nat
      BY ChainOfType
    <2> HIDE DEF env, hash
    <2>3. /\ Sign(Other, chunk_message(stream_context(Other), i - 1, env)) \in Signatures
          /\ Sign(Other, checkpoint_message(stream_context(Other), i - 1, hash)) \in Signatures
      BY <2>1, <2>2, MessageTypes, SignatureType
    <2>4. QED
      BY <2>1, <2>2, <2>3, RecordTypes DEF CapturedChunk, env, hash
  <1>3. QED
    BY <1>1, <1>2 DEF CapturedStream

LEMMA DonorType == DonorRecords \subseteq Records
  BY CapturedType, DonorAssumption DEF DonorRecords

-----------------------------------------------------------------------------
(***************************************************************************)
(* What the faults can make of a stream.  If a set of records is closed    *)
(* under the changes a fault makes to a record, the stream stays in it.    *)
(***************************************************************************)
ClosedUnderFaults(S) ==
    /\ S \subseteq Records
    /\ DonorRecords \subseteq S
    /\ \A r \in S : /\ r.env # None => [r EXCEPT !.env.key = NoKey] \in S
                    /\ r.signature # None => [r EXCEPT !.signature.signer = NoKey] \in S
                    /\ [r EXCEPT !.signature = None] \in S
    /\ \A r, q \in S : [r EXCEPT !.signature = q.signature] \in S

LEMMA FaultKeepsWire ==
    ASSUME NEW S, ClosedUnderFaults(S), wire \in Seq(S), FaultNext
    PROVE  wire' \in Seq(S)
  <1> USE DEF Fault
  <1>1. ASSUME NEW i \in 1..Len(wire), Drop(i)
        PROVE  wire' \in Seq(S)
    <2>1. /\ SubSeq(wire, 1, i - 1) \in Seq(S)
          /\ SubSeq(wire, i + 1, Len(wire)) \in Seq(S)
      BY SubSeqProperties, ElementOfSeq
    <2>2. QED
      BY <1>1, <2>1, ConcatProperties DEF Drop, RemoveAt
  <1>2. ASSUME NEW i \in 1..Len(wire), Reorder(i)
        PROVE  wire' \in Seq(S)
    <2>1. i + 1 \in 1..Len(wire) /\ wire[i] \in S /\ wire[i + 1] \in S
      BY <1>2, ElementOfSeq DEF Reorder
    <2>2. [wire EXCEPT ![i] = wire[i + 1], ![i + 1] = wire[i]] \in Seq(S)
      BY <2>1
    <2>3. QED
      BY <1>2, <2>2 DEF Reorder
  <1>3. ASSUME NEW i \in 1..Len(wire), Duplicate(i)
        PROVE  wire' \in Seq(S)
    <2>1. /\ SubSeq(wire, 1, i + 1 - 1) \in Seq(S)
          /\ SubSeq(wire, i + 1, Len(wire)) \in Seq(S)
          /\ <<wire[i]>> \in Seq(S)
      BY SubSeqProperties, ElementOfSeq
    <2>2. SubSeq(wire, 1, i + 1 - 1) \o <<wire[i]>> \in Seq(S)
      BY <2>1, ConcatProperties
    <2>3. QED
      BY <1>3, <2>1, <2>2, ConcatProperties DEF Duplicate, InsertAt
  <1>4. ASSUME NEW i \in 1..Len(wire), NEW record \in DonorRecords, Replay(i, record)
        PROVE  wire' \in Seq(S)
    BY <1>4, ExceptSeq DEF Replay, ClosedUnderFaults
  <1>5. ASSUME NEW i \in 1..Len(wire), TamperCiphertext(i)
        PROVE  wire' \in Seq(S)
    <2>1. wire[i] \in S
      BY ElementOfSeq
    <2>2. [wire[i] EXCEPT !.env.key = NoKey] \in S
      BY <1>5, <2>1 DEF TamperCiphertext, ClosedUnderFaults
    <2>3. wire' = [wire EXCEPT ![i] = [wire[i] EXCEPT !.env.key = NoKey]]
      BY <1>5 DEF TamperCiphertext
    <2>4. QED
      BY <2>2, <2>3, ExceptSeq
  <1>6. ASSUME NEW i \in 1..Len(wire), TamperSignature(i)
        PROVE  wire' \in Seq(S)
    <2>1. wire[i] \in S
      BY ElementOfSeq
    <2>2. [wire[i] EXCEPT !.signature.signer = NoKey] \in S
      BY <1>6, <2>1 DEF TamperSignature, ClosedUnderFaults
    <2>3. wire' = [wire EXCEPT ![i] = [wire[i] EXCEPT !.signature.signer = NoKey]]
      BY <1>6 DEF TamperSignature
    <2>4. QED
      BY <2>2, <2>3, ExceptSeq
  <1>7. ASSUME NEW i \in 1..Len(wire), StripCheckpoint(i)
        PROVE  wire' \in Seq(S)
    <2>1. [wire[i] EXCEPT !.signature = None] \in S
      BY ElementOfSeq DEF ClosedUnderFaults
    <2>2. wire' = [wire EXCEPT ![i] = [wire[i] EXCEPT !.signature = None]]
      BY <1>7 DEF StripCheckpoint
    <2>3. QED
      BY <2>1, <2>2, ExceptSeq
  <1>8. ASSUME NEW i \in 1..Len(wire), MoveCheckpoint(i)
        PROVE  wire' \in Seq(S)
    <2> DEFINE r == [wire[i] EXCEPT !.signature = None]
               q == [wire[i + 1] EXCEPT !.signature = wire[i].signature]
    <2>1. i + 1 \in 1..Len(wire)
      BY <1>8 DEF MoveCheckpoint
    <2>2. wire[i] \in S /\ wire[i + 1] \in S
      BY <2>1, ElementOfSeq
    <2>3. r \in S /\ q \in S
      BY <2>2 DEF ClosedUnderFaults
    <2>4. wire' = [[wire EXCEPT ![i] = r] EXCEPT ![i + 1] = q]
      BY <1>8, <2>1 DEF MoveCheckpoint
    <2>5. [wire EXCEPT ![i] = r] \in Seq(S) /\ Len([wire EXCEPT ![i] = r]) = Len(wire)
      BY <2>3, ExceptSeq
    <2>6. QED
      BY <2>1, <2>3, <2>4, <2>5, ExceptSeq
  <1>9. ASSUME NEW n \in 0..Len(wire), Truncate(n)
        PROVE  wire' \in Seq(S)
    <2>1. \A i \in 1..n : wire[i] \in S
      BY ElementOfSeq
    <2>2. QED
      BY <1>9, <2>1, SubSeqProperties DEF Truncate
  <1>10. QED
    BY <1>1, <1>2, <1>3, <1>4, <1>5, <1>6, <1>7, <1>8, <1>9 DEF FaultNext

-----------------------------------------------------------------------------
(***************************************************************************)
(* Type correctness.                                                       *)
(***************************************************************************)
LEMMA RequestTypes ==
    ASSUME request \in Requests
    PROVE  /\ strategy \in StrategyNames /\ k \in Nat
           /\ chunk_size_tokens \in Nat \ {0} /\ max_tokens \in Nat \ {0}
  BY RequestsAssumption
     DEF RequestBodies, strategy, k, chunk_size_tokens, max_tokens, AtLeastOne

LEMMA RequestFixed ==
    ASSUME UNCHANGED request
    PROVE  UNCHANGED <<strategy, k, chunk_size_tokens, max_tokens>>
  BY DEF strategy, k, chunk_size_tokens, max_tokens, AtLeastOne

LEMMA RecordsClosed == ClosedUnderFaults(Records)
  BY DonorType DEF ClosedUnderFaults, Records, Signatures, Envelopes

LEMMA YieldKeepsWire ==
    ASSUME NEW S, wire \in Seq(S), NEW record \in S, Yield(record)
    PROVE  wire' \in Seq(S)
  BY AppendProperties DEF Yield

LEMMA ReadKeepsWire ==
    ASSUME NEW S, wire \in Seq(S), Read
    PROVE  wire' \in Seq(S) /\ Head(wire) \in S
  BY HeadTailProperties DEF Read

\* The records the server's strategy sends.
LEMMA ChunkRecordTypes ==
    ASSUME NEW n \in Nat, NEW env \in Envelopes, NEW hash \in Hashes
    PROVE  /\ ChunkRow(n, env, None, Sign(Hid, chunk_message(ctx, n, env))) \in Records
           /\ ChunkRow(n, env, hash, Sign(Hid, checkpoint_message(ctx, n, hash))) \in Records
           /\ ChunkRow(n, env, hash, None) \in Records
  <1>1. /\ chunk_message(ctx, n, env) \in Messages
        /\ checkpoint_message(ctx, n, hash) \in Messages
    BY MessageTypes DEF ctx
  <1>2. QED
    BY <1>1, SignatureType, RecordTypes

LEMMA FinalRecordTypes ==
    ASSUME NEW n \in Nat, NEW env \in Envelopes, NEW hash \in Hashes
    PROVE  /\ BufferedFinal(env, Sign(Hid, buffered_message(ctx, env))) \in Records
           /\ PerChunkFinal(n, Sign(Hid, end_message(ctx, n))) \in Records
           /\ ChainFinal(n, hash, Sign(Hid, final_chain_message(ctx, n, hash))) \in Records
  <1>1. /\ buffered_message(ctx, env) \in Messages
        /\ end_message(ctx, n) \in Messages
        /\ final_chain_message(ctx, n, hash) \in Messages
    BY MessageTypes DEF ctx
  <1>2. QED
    BY <1>1, SignatureType, RecordTypes

LEMMA AddChunkType ==
    ASSUME TypeOK, NEW text \in Seq(Nat), add_chunk(text)
    PROVE  /\ buffer' \in Seq(Nat) /\ running_hash' \in Hashes /\ wire' \in Seq(Records)
           /\ since_checkpoint' \in Nat /\ (k > 0 => since_checkpoint' < k)
  <1> DEFINE env == aead_encrypt(Hid, index + 1, text)
             hash == absorb(running_hash, index, env)
  <1>1. env \in Envelopes
    BY EnvelopeType DEF TypeOK
  <1>2. hash \in Hashes
    BY <1>1, AbsorbType DEF TypeOK
  <1>3. k \in Nat
    BY RequestTypes DEF TypeOK
  <1> HIDE DEF env, hash
  <1>4. CASE strategy = "buffer_and_sign"
    <2>1. buffer' = buffer \o text /\ UNCHANGED <<running_hash, since_checkpoint, wire>>
      BY <1>4 DEF add_chunk
    <2>2. buffer' \in Seq(Nat)
      BY <2>1, ConcatProperties DEF TypeOK
    <2>3. QED
      BY <2>1, <2>2 DEF TypeOK
  <1>5. CASE strategy = "per_chunk"
    <2>1. Yield(ChunkRow(index, env, None, Sign(Hid, chunk_message(ctx, index, env))))
      BY <1>5 DEF add_chunk, env, hash
    <2>2. wire' \in Seq(Records)
      BY <2>1, <1>1, <1>2, ChunkRecordTypes, YieldKeepsWire DEF TypeOK
    <2>3. QED
      BY <1>5, <2>2 DEF add_chunk, TypeOK
  <1>6. CASE strategy = "hash_chain"
    <2>1. /\ Yield(ChunkRow(index, env, hash,
                 IF CheckpointDue THEN Sign(Hid, checkpoint_message(ctx, index, hash)) ELSE None))
          /\ running_hash' = hash /\ since_checkpoint' = SinceCheckpoint /\ UNCHANGED buffer
      BY <1>6 DEF add_chunk, env, hash
    <2>2. ChunkRow(index, env, hash,
              IF CheckpointDue THEN Sign(Hid, checkpoint_message(ctx, index, hash)) ELSE None) \in Records
      BY <1>1, <1>2, ChunkRecordTypes DEF TypeOK
    <2>3. wire' \in Seq(Records)
      BY <2>1, <2>2, YieldKeepsWire DEF TypeOK
    <2>4. since_checkpoint' \in Nat /\ (k > 0 => since_checkpoint' < k)
      BY <1>3, <2>1 DEF TypeOK, SinceCheckpoint, CheckpointDue
    <2>5. QED
      BY <1>2, <2>1, <2>3, <2>4 DEF TypeOK
  <1>7. QED
    BY <1>4, <1>5, <1>6 DEF add_chunk

LEMMA FlushType ==
    ASSUME TypeOK, NEW text \in Seq(Nat), flush_buffer(text)
    PROVE  /\ buffer' \in Seq(Nat) /\ running_hash' \in Hashes /\ wire' \in Seq(Records)
           /\ since_checkpoint' \in Nat /\ (k > 0 => since_checkpoint' < k)
           /\ token_buffer' = <<>> /\ index' \in Nat /\ flushed' \in Seq(Seq(Nat))
  <1>1. add_chunk(text) /\ token_buffer' = <<>> /\ index' = index + 1
        /\ flushed' = Append(flushed, text)
    BY DEF flush_buffer
  <1>2. flushed' \in Seq(Seq(Nat))
    BY <1>1, AppendProperties DEF TypeOK
  <1>3. QED
    BY <1>1, <1>2, AddChunkType DEF TypeOK

LEMMA TypeInit == Init => TypeOK
  <1> SUFFICES ASSUME Init PROVE TypeOK
    OBVIOUS
  <1>1. k \in Nat /\ chunk_size_tokens \in Nat \ {0} /\ max_tokens \in Nat \ {0}
    BY RequestTypes DEF Init
  <1>2. metrics \in Metrics
    BY DEF Init, Metrics
  <1>3. chain_state \in [running_hash: Hashes, n_absorbed: Nat] /\ running_hash \in Hashes
    BY ContextTypes DEF Init, NewChainState
  <1>4. wire = <<>> /\ token_buffer = <<>> /\ buffer = <<>> /\ flushed = <<>> /\ reconstructed = <<>>
    BY DEF Init
  <1>5. wire \in Seq(Records) /\ token_buffer \in Seq(Nat) /\ Len(token_buffer) = 0
        /\ buffer \in Seq(Nat) /\ flushed \in Seq(Seq(Nat)) /\ reconstructed \in Seq(Seq(Nat))
    BY <1>4
  <1>6. /\ request \in Requests /\ srv_pc = "generating" /\ produced = 0 /\ index = 0
        /\ since_checkpoint = 0 /\ forgotten = FALSE /\ finalized = FALSE /\ cut = FALSE /\ faults = 0
        /\ cli_pc = "reading" /\ terminal_seen = FALSE /\ expected_index = 0 /\ pending = 0
    BY DEF Init
  <1>7. /\ produced \in 0..max_tokens /\ Len(token_buffer) < chunk_size_tokens
        /\ (k > 0 => since_checkpoint < k) /\ faults \in 0..MaxFaults
        /\ index \in Nat /\ since_checkpoint \in Nat /\ expected_index \in Nat /\ pending \in Nat
    BY <1>1, <1>5, <1>6, MaxFaultsAssumption
  <1>8. forgotten \in BOOLEAN /\ finalized \in BOOLEAN /\ cut \in BOOLEAN /\ terminal_seen \in BOOLEAN
    BY <1>6
  <1>9. QED
    BY <1>2, <1>3, <1>5, <1>6, <1>7, <1>8, Zenon DEF TypeOK

LEMMA TypeServerSteps == TypeOK /\ ServerNext => TypeOK'
  <1> SUFFICES ASSUME TypeOK, ServerNext PROVE TypeOK'
    OBVIOUS
  <1>1. UNCHANGED <<request, clientVars, faults>>
    BY DEF ServerNext, GenerateToken, EndGeneration, Finalize, SendDone, Forget, Cancelled,
       BackendFails
  <1>2. UNCHANGED <<strategy, k, chunk_size_tokens, max_tokens>>
    BY <1>1, RequestFixed
  <1>3. k \in Nat /\ chunk_size_tokens \in Nat \ {0} /\ max_tokens \in Nat \ {0}
    BY RequestTypes DEF TypeOK
  <1>4. CASE GenerateToken
    <2> DEFINE text == Append(token_buffer, produced + 1)
    <2>1. text \in Seq(Nat) /\ produced' \in 0..max_tokens
      BY <1>3, <1>4, AppendProperties DEF GenerateToken, TypeOK
    <2>2. CASE Len(text) >= chunk_size_tokens
      <3>1. flush_buffer(text)
        BY <1>4, <2>2 DEF GenerateToken
      <3> HIDE DEF text
      <3>2. /\ buffer' \in Seq(Nat) /\ running_hash' \in Hashes /\ wire' \in Seq(Records)
            /\ since_checkpoint' \in Nat /\ (k > 0 => since_checkpoint' < k)
            /\ token_buffer' = <<>> /\ index' \in Nat /\ flushed' \in Seq(Seq(Nat))
        BY <2>1, <3>1, FlushType
      <3>3. token_buffer' \in Seq(Nat) /\ Len(token_buffer') < chunk_size_tokens
        BY <1>3, <3>2
      <3>4. QED
        BY <1>1, <1>2, <1>4, <2>1, <3>2, <3>3 DEF GenerateToken, TypeOK, clientVars
    <2>3. CASE ~(Len(text) >= chunk_size_tokens)
      <3>1. token_buffer' = text /\ NoFlush
        BY <1>4, <2>3 DEF GenerateToken
      <3>2. Len(token_buffer') < chunk_size_tokens
        BY <1>3, <2>1, <2>3, <3>1, LenProperties
      <3>3. QED
        BY <1>1, <1>2, <1>4, <2>1, <3>1, <3>2 DEF GenerateToken, TypeOK, clientVars, NoFlush
    <2>4. QED
      BY <2>2, <2>3
  <1>5. CASE EndGeneration
    <2>1. CASE token_buffer # <<>>
      <3>1. flush_buffer(token_buffer) /\ token_buffer \in Seq(Nat)
        BY <1>5, <2>1 DEF EndGeneration, TypeOK
      <3>2. /\ buffer' \in Seq(Nat) /\ running_hash' \in Hashes /\ wire' \in Seq(Records)
            /\ since_checkpoint' \in Nat /\ (k > 0 => since_checkpoint' < k)
            /\ token_buffer' = <<>> /\ index' \in Nat /\ flushed' \in Seq(Seq(Nat))
        BY <3>1, FlushType
      <3>3. token_buffer' \in Seq(Nat) /\ Len(token_buffer') < chunk_size_tokens
        BY <1>3, <3>2
      <3>4. QED
        BY <1>1, <1>2, <1>5, <3>2, <3>3 DEF EndGeneration, TypeOK, clientVars
    <2>2. CASE token_buffer = <<>>
      BY <1>1, <1>2, <1>5, <2>2 DEF EndGeneration, NoFlush, TypeOK, clientVars
    <2>3. QED
      BY <2>1, <2>2
  <1>6. CASE Finalize
    <2> DEFINE env == aead_encrypt(Hid, 0, buffer)
    <2>1. env \in Envelopes
      BY EnvelopeType DEF TypeOK
    <2> HIDE DEF env
    <2>2. /\ BufferedFinal(env, Sign(Hid, buffered_message(ctx, env))) \in Records
          /\ PerChunkFinal(index, Sign(Hid, end_message(ctx, index))) \in Records
          /\ ChainFinal(index, running_hash,
                 Sign(Hid, final_chain_message(ctx, index, running_hash))) \in Records
      BY <2>1, FinalRecordTypes DEF TypeOK
    <2>3. \E record \in Records : Yield(record)
      BY <1>6, <2>2 DEF Finalize, finalize, env
    <2>4. wire' \in Seq(Records)
      BY <2>3, YieldKeepsWire DEF TypeOK
    <2>5. QED
      BY <1>1, <1>2, <1>6, <2>4 DEF Finalize, TypeOK, clientVars
  <1>7. CASE SendDone
    <2>1. DoneEvent(index) \in Records
      BY DEF TypeOK, DoneEvent, Record, Records
    <2>2. wire' \in Seq(Records)
      BY <1>7, <2>1, YieldKeepsWire DEF SendDone, TypeOK
    <2>3. QED
      BY <1>1, <1>2, <1>7, <2>2 DEF SendDone, TypeOK, clientVars
  <1>8. CASE Forget \/ Cancelled \/ BackendFails
    BY <1>1, <1>2, <1>8 DEF Forget, Cancelled, BackendFails, TypeOK, clientVars
  <1>9. QED
    BY <1>4, <1>5, <1>6, <1>7, <1>8 DEF ServerNext

\* The plaintext of an envelope, and the text it extends.
LEMMA ExtendType ==
    ASSUME NEW text \in Seq(Seq(Nat)), NEW env \in Envelopes
    PROVE  Extend(text, env.text) \in Seq(Seq(Nat))
  <1>1. env.text \in Seq(Nat)
    BY DEF Envelopes
  <1>2. QED
    BY <1>1, AppendProperties DEF Extend

LEMMA TypeFaultSteps == TypeOK /\ FaultNext => TypeOK'
  <1> SUFFICES ASSUME TypeOK, FaultNext PROVE TypeOK'
    OBVIOUS
  <1>1. wire' \in Seq(Records)
    BY RecordsClosed, FaultKeepsWire DEF TypeOK
  <1>2. UNCHANGED <<request, serverVars, clientVars>> /\ faults < MaxFaults /\ faults' = faults + 1
        /\ cut' \in BOOLEAN
    BY DEF FaultNext, Fault, Drop, Reorder, Duplicate, Replay, TamperCiphertext, TamperSignature,
       StripCheckpoint, MoveCheckpoint, Truncate, TypeOK
  <1>3. UNCHANGED <<strategy, k, chunk_size_tokens, max_tokens>>
    BY <1>2, RequestFixed
  <1>4. faults' \in 0..MaxFaults
    BY <1>2, MaxFaultsAssumption DEF TypeOK
  <1>5. QED
    BY <1>1, <1>2, <1>3, <1>4 DEF TypeOK, serverVars, clientVars

LEMMA LargerType ==
    ASSUME NEW a \in Nat, NEW b \in Nat
    PROVE  Larger(a, b) \in Nat
  BY DEF Larger

\* The parts of the metrics, and the updates the handlers make to them.
LEMMA MetricsParts ==
    ASSUME TypeOK
    PROVE  /\ metrics \in Metrics /\ pending \in Nat
           /\ metrics.all_signatures_valid \in BOOLEAN /\ metrics.all_aead_ok \in BOOLEAN
           /\ metrics.all_in_order \in BOOLEAN
           /\ metrics.n_signatures \in Nat /\ metrics.n_signatures + 1 \in Nat
           /\ metrics.max_unverified_chunks \in Nat
           /\ Larger(metrics.max_unverified_chunks, pending) \in Nat
           /\ Larger(metrics.max_unverified_chunks, pending + 1) \in Nat
  <1>1. /\ metrics \in Metrics /\ pending \in Nat /\ pending + 1 \in Nat
        /\ metrics.max_unverified_chunks \in Nat
    BY DEF TypeOK, Metrics
  <1>2. /\ Larger(metrics.max_unverified_chunks, pending) \in Nat
        /\ Larger(metrics.max_unverified_chunks, pending + 1) \in Nat
    BY <1>1, LargerType
  <1>3. QED
    BY <1>1, <1>2 DEF Metrics

LEMMA MetricsUpdates ==
    ASSUME NEW m \in Metrics, NEW a \in BOOLEAN, NEW b \in BOOLEAN,
           NEW v \in BOOLEAN \cup {None}, NEW n \in Nat, NEW p \in Nat
    PROVE  /\ [m EXCEPT !.all_signatures_valid = a, !.all_aead_ok = b, !.n_signatures = n] \in Metrics
           /\ [m EXCEPT !.stream_fully_verified = v, !.n_signatures = n,
                        !.max_unverified_chunks = p] \in Metrics
           /\ [m EXCEPT !.stream_fully_verified = v, !.n_signatures = n] \in Metrics
  BY DEF Metrics

\* What the client's handlers make of their own state.
ClientTypeOK ==
    /\ cli_pc \in {"reading", "done", "error"} /\ metrics \in Metrics
    /\ chain_state \in [running_hash: Hashes, n_absorbed: Nat]
    /\ terminal_seen \in BOOLEAN /\ expected_index \in Nat
    /\ reconstructed \in Seq(Seq(Nat)) /\ pending \in Nat

LEMMA OnRecordType ==
    ASSUME TypeOK, NEW record \in Records, OnRecord(record)
    PROVE  ClientTypeOK'
  <1> USE DEF ClientTypeOK
  <1>1. CASE OnPerChunk(record)
    <2>1. record.env \in Envelopes
      BY <1>1 DEF OnPerChunk, Records
    <2> DEFINE result == verify_per_chunk(record, expected_index)
               covers == result.signature_valid /\ result.in_order
    <2>2. result.signature_valid \in BOOLEAN /\ result.in_order \in BOOLEAN /\ result.aead_ok \in BOOLEAN
      BY DEF verify_per_chunk, Verify, Decrypts
    <2> HIDE DEF result
    <2>3. /\ metrics' = [metrics EXCEPT
                !.all_signatures_valid = @ /\ result.signature_valid,
                !.all_aead_ok = @ /\ result.aead_ok,
                !.all_in_order = @ /\ result.in_order,
                !.n_signatures = @ + 1,
                !.max_unverified_chunks = IF covers THEN Larger(@, pending + 1) ELSE @]
          /\ pending' = (IF covers THEN 0 ELSE pending + 1)
          /\ reconstructed' = (IF result.aead_ok THEN Extend(reconstructed, record.env.text)
                               ELSE reconstructed)
          /\ expected_index' = expected_index + 1
          /\ UNCHANGED <<cli_pc, chain_state, terminal_seen>>
      BY <1>1 DEF OnPerChunk, result
    <2>4. metrics' \in Metrics
      <3> DEFINE a == metrics.all_signatures_valid /\ result.signature_valid
                 b == metrics.all_aead_ok /\ result.aead_ok
                 c == metrics.all_in_order /\ result.in_order
                 p == IF covers THEN Larger(metrics.max_unverified_chunks, pending + 1)
                      ELSE metrics.max_unverified_chunks
      <3>1. a \in BOOLEAN /\ b \in BOOLEAN /\ c \in BOOLEAN
        BY <2>2, MetricsParts
      <3>2. p \in Nat
        BY MetricsParts
      <3>3. metrics' = [metrics EXCEPT !.all_signatures_valid = a, !.all_aead_ok = b,
                          !.all_in_order = c, !.n_signatures = metrics.n_signatures + 1,
                          !.max_unverified_chunks = p]
        BY <2>3
      <3> HIDE DEF a, b, c, p
      <3>4. QED
        BY <3>1, <3>2, <3>3, MetricsParts DEF Metrics
    <2>6. Extend(reconstructed, record.env.text) \in Seq(Seq(Nat))
      BY <2>1, ExtendType DEF TypeOK
    <2>7. QED
      BY <2>3, <2>4, <2>6 DEF TypeOK
  <1>2. CASE OnChainChunk(record)
    <2>1. record.env \in Envelopes /\ record.n \in Nat
      BY <1>2 DEF OnChainChunk, Records
    <2> DEFINE result == verify_hash_chain_chunk(record, chain_state', k)
    <2>2. /\ result.checkpoint_missing \in BOOLEAN /\ result.checkpoint \in BOOLEAN
          /\ result.checkpoint_valid \in BOOLEAN /\ result.aead_ok \in BOOLEAN
      BY DEF verify_hash_chain_chunk, Verify, Decrypts
    <2> HIDE DEF result
    <2>3. /\ chain_state' = ChainAbsorb(chain_state, record)
          /\ metrics' = [metrics EXCEPT
                !.all_aead_ok = @ /\ result.aead_ok,
                !.all_signatures_valid = @ /\ ~result.checkpoint_missing
                                           /\ (result.checkpoint => result.checkpoint_valid),
                !.n_signatures = IF result.checkpoint THEN @ + 1 ELSE @,
                !.max_unverified_chunks =
                    IF result.checkpoint_valid THEN Larger(@, pending + 1) ELSE @]
          /\ pending' = (IF result.checkpoint_valid THEN 0 ELSE pending + 1)
          /\ reconstructed' = (IF result.aead_ok THEN Extend(reconstructed, record.env.text)
                               ELSE reconstructed)
          /\ UNCHANGED <<cli_pc, terminal_seen, expected_index>>
      BY <1>2 DEF OnChainChunk, result
    <2>4. metrics' \in Metrics
      <3> DEFINE a == metrics.all_signatures_valid /\ ~result.checkpoint_missing
                        /\ (result.checkpoint => result.checkpoint_valid)
                 b == metrics.all_aead_ok /\ result.aead_ok
                 n == IF result.checkpoint THEN metrics.n_signatures + 1 ELSE metrics.n_signatures
                 p == IF result.checkpoint_valid
                      THEN Larger(metrics.max_unverified_chunks, pending + 1)
                      ELSE metrics.max_unverified_chunks
      <3>1. a \in BOOLEAN /\ b \in BOOLEAN
        BY <2>2, MetricsParts
      <3>2. n \in Nat /\ p \in Nat
        BY MetricsParts
      <3>3. metrics' = [metrics EXCEPT !.all_aead_ok = b, !.all_signatures_valid = a,
                          !.n_signatures = n, !.max_unverified_chunks = p]
        BY <2>3
      <3> HIDE DEF a, b, n, p
      <3>4. QED
        BY <3>1, <3>2, <3>3, MetricsParts DEF Metrics
    <2>6. Extend(reconstructed, record.env.text) \in Seq(Seq(Nat))
      BY <2>1, ExtendType DEF TypeOK
    <2>7. absorb(chain_state.running_hash, record.n, record.env) \in Hashes
      BY <2>1, AbsorbType DEF TypeOK
    <2>8. chain_state' \in [running_hash: Hashes, n_absorbed: Nat]
      BY <2>3, <2>7 DEF ChainAbsorb, TypeOK
    <2>9. QED
      BY <2>3, <2>4, <2>6, <2>8 DEF TypeOK
  <1>3. CASE OnFinalBuffered(record)
    <2>1. record.env \in Envelopes
      BY <1>3 DEF OnFinalBuffered, Records
    <2> DEFINE result == verify_buffer_and_sign_final(record)
    <2>2. result.signature_valid \in BOOLEAN /\ result.aead_ok \in BOOLEAN
      BY DEF verify_buffer_and_sign_final, Verify, Decrypts
    <2> HIDE DEF result
    <2>3. /\ metrics' = [metrics EXCEPT
                !.all_signatures_valid = @ /\ result.signature_valid,
                !.all_aead_ok = @ /\ result.aead_ok,
                !.n_signatures = @ + 1]
          /\ reconstructed' = (IF result.aead_ok THEN Extend(reconstructed, record.env.text)
                               ELSE reconstructed)
          /\ terminal_seen' = TRUE
          /\ UNCHANGED <<cli_pc, chain_state, expected_index, pending>>
      BY <1>3 DEF OnFinalBuffered, result
    <2>4. metrics' \in Metrics
      BY <2>2, <2>3, MetricsParts, MetricsUpdates
    <2>5. Extend(reconstructed, record.env.text) \in Seq(Seq(Nat))
      BY <2>1, ExtendType DEF TypeOK
    <2>6. QED
      BY <2>3, <2>4, <2>5 DEF TypeOK
  <1>4. CASE OnFinalPerChunk(record)
    <2>1. verify_per_chunk_final(record, expected_index) \in BOOLEAN
      BY DEF verify_per_chunk_final, Verify
    <2>2. metrics' \in Metrics
      BY <1>4, <2>1, MetricsParts, MetricsUpdates DEF OnFinalPerChunk
    <2>3. QED
      BY <1>4, <2>2 DEF OnFinalPerChunk, TypeOK
  <1>5. CASE OnFinalChain(record)
    <2> DEFINE verified == verify_hash_chain_final(record, chain_state)
    <2>1. verified \in BOOLEAN
      BY DEF verify_hash_chain_final, Verify
    <2> HIDE DEF verified
    <2>2. /\ metrics' = [metrics EXCEPT
                !.stream_fully_verified = verified,
                !.n_signatures = @ + 1,
                !.max_unverified_chunks = IF verified THEN Larger(@, pending) ELSE @]
          /\ pending' = (IF verified THEN 0 ELSE pending)
          /\ terminal_seen' = TRUE
          /\ UNCHANGED <<cli_pc, chain_state, expected_index, reconstructed>>
      BY <1>5 DEF OnFinalChain, verified
    <2>3. metrics' \in Metrics
      BY <2>1, <2>2, MetricsParts, MetricsUpdates
    <2>4. QED
      BY <2>2, <2>3 DEF TypeOK
  <1>6. CASE OnIgnored(record) \/ OnMalformed(record)
    BY <1>6 DEF OnIgnored, OnMalformed, clientVars, TypeOK
  <1>7. QED
    BY <1>1, <1>2, <1>3, <1>4, <1>5, <1>6 DEF OnRecord

LEMMA TypeClientSteps == TypeOK /\ (ClientNext \/ ReadError) => TypeOK'
  <1> SUFFICES ASSUME TypeOK, ClientNext \/ ReadError PROVE TypeOK'
    OBVIOUS
  <1>1. CASE EndOfBody
    <2>1. metrics' \in Metrics
      BY <1>1 DEF EndOfBody, TypeOK, Metrics
    <2>2. UNCHANGED <<strategy, k, chunk_size_tokens, max_tokens>>
      BY <1>1, RequestFixed DEF EndOfBody
    <2>3. QED
      BY <1>1, <2>1, <2>2 DEF EndOfBody, TypeOK, serverVars
  <1>2. CASE ReadError
    <2>1. UNCHANGED <<strategy, k, chunk_size_tokens, max_tokens>>
      BY <1>2, RequestFixed DEF ReadError
    <2>2. QED
      BY <1>2, <2>1 DEF ReadError, TypeOK, serverVars
  <1>3. CASE wire # <<>> /\ OnRecord(Head(wire))
    <2>1. Read
      BY <1>3 DEF OnRecord, OnPerChunk, OnChainChunk, OnFinalBuffered, OnFinalPerChunk,
         OnFinalChain, OnIgnored, OnMalformed
    <2>2. Head(wire) \in Records /\ wire' \in Seq(Records)
      BY <2>1, ReadKeepsWire DEF TypeOK
    <2>3. ClientTypeOK'
      BY <1>3, <2>2, OnRecordType
    <2>4. UNCHANGED <<strategy, k, chunk_size_tokens, max_tokens>>
      BY <2>1, RequestFixed DEF Read
    <2>5. QED
      BY <2>1, <2>2, <2>3, <2>4 DEF ClientTypeOK, Read, TypeOK, serverVars
  <1>4. QED
    BY <1>1, <1>2, <1>3 DEF ClientNext

LEMMA TypeStutter == TypeOK /\ UNCHANGED vars => TypeOK'
  <1> SUFFICES ASSUME TypeOK, UNCHANGED vars PROVE TypeOK'
    OBVIOUS
  <1>1. UNCHANGED <<strategy, k, chunk_size_tokens, max_tokens>>
    BY RequestFixed DEF vars
  <1>2. QED
    BY <1>1 DEF TypeOK, vars, serverVars, clientVars

\* The state of a transaction is well typed throughout, and the server never
\* holds a full buffer or a full checkpoint interval across a suspension
\* point, whatever is requested and whatever happens to the stream.
THEOREM TypeCorrect == Spec => []TypeOK
  <1>1. TypeOK /\ [Next]_vars => TypeOK'
    BY TypeServerSteps, TypeClientSteps, TypeFaultSteps, TypeStutter DEF Next, Finished
  <1>2. QED
    BY <1>1, TypeInit, PTL DEF Spec

-----------------------------------------------------------------------------
(***************************************************************************)
(* Chunks and tokens.  FlattenSeq is defined by recursion; what it does to *)
(* a chunk appended is shown with a least counterexample instead of an     *)
(* induction rule, which the provers could not instantiate.                *)
(***************************************************************************)
LEMMA Least ==
    ASSUME NEW T, T \subseteq Nat, T # {}
    PROVE  \E x \in T : \A y \in T : ~(y < x)
  <1>1. PICK x \in T : \A y \in T : ~(<<y, x>> \in OpToRel(<, Nat))
    BY NatLessThanWellFounded, WFMin
  <1>2. QED
    BY <1>1 DEF OpToRel

\* f holds the concatenations of the first 1, 2 .. n elements of s.
Joined(f, s, i) == IF i = 1 THEN s[i] ELSE f[i - 1] \o s[i]
Accumulates(f, s, n) == f = [i \in 1..n |-> Joined(f, s, i)]

LEMMA AccumulatedOne ==
    ASSUME NEW s, NEW n, NEW f, Accumulates(f, s, n), NEW i \in 1..n
    PROVE  f[i] = Joined(f, s, i)
  <1> DEFINE g == [j \in 1..n |-> Joined(f, s, j)]
  <1>1. g[i] = Joined(f, s, i)
    OBVIOUS
  <1>2. f = g
    BY DEF Accumulates
  <1> HIDE DEF g
  <1>3. QED
    BY <1>1, <1>2

LEMMA AccumulatedAll ==
    ASSUME NEW s, NEW n, NEW f, f = [i \in 1..n |-> f[i]], \A i \in 1..n : f[i] = Joined(f, s, i)
    PROVE  Accumulates(f, s, n)
  <1>1. [i \in 1..n |-> f[i]] = [i \in 1..n |-> Joined(f, s, i)]
    OBVIOUS
  <1>2. QED
    BY <1>1 DEF Accumulates

LEMMA AccumulationExists ==
    ASSUME NEW s
    PROVE  \A n \in Nat : \E f : Accumulates(f, s, n)
  <1> DEFINE T == {n \in Nat : ~ \E f : Accumulates(f, s, n)}
  <1>1. SUFFICES ASSUME T # {} PROVE FALSE
    OBVIOUS
  <1>2. PICK n \in T : \A m \in T : ~(m < n)
    BY <1>1, Least
  <1>3. CASE n = 0
    <2> DEFINE f == [i \in 1..0 |-> s[i]]
    <2>1. \A i \in 1..0 : FALSE
      OBVIOUS
    <2>2. f = [i \in 1..0 |-> f[i]]
      OBVIOUS
    <2> HIDE DEF f
    <2>3. Accumulates(f, s, 0)
      BY <2>1, <2>2, AccumulatedAll
    <2>4. QED
      BY <1>3, <2>3
  <1>4. CASE n # 0
    <2>1. PICK m \in Nat : n = m + 1
      BY <1>4
    <2>2. PICK f : Accumulates(f, s, m)
      BY <1>2, <2>1
    <2> DEFINE g == [i \in 1..n |-> IF i = n THEN Joined(f, s, n) ELSE f[i]]
    <2>3. \A i \in 1..m : f[i] = Joined(f, s, i)
      BY <2>2, AccumulatedOne
    <2>4. n \in 1..n /\ \A i \in 1..m : i \in 1..n /\ i # n
      BY <2>1
    <2>5. g[n] = Joined(f, s, n) /\ \A i \in 1..m : g[i] = f[i]
      BY <2>4
    <2>6. g = [i \in 1..n |-> g[i]]
      OBVIOUS
    <2> HIDE DEF g
    <2>7. ASSUME NEW i \in 1..n PROVE Joined(f, s, i) = Joined(g, s, i)
      <3>1. i = 1 \/ i - 1 \in 1..m
        BY <2>1
      <3>2. QED
        BY <2>5, <3>1 DEF Joined
    <2>8. ASSUME NEW i \in 1..n PROVE g[i] = Joined(f, s, i)
      <3>1. i = n \/ i \in 1..m
        BY <2>1
      <3>2. QED
        BY <2>3, <2>5, <3>1
    <2>9. Accumulates(g, s, n)
      BY <2>6, <2>7, <2>8, AccumulatedAll, Zenon
    <2>10. QED
      BY <2>9
  <1>5. QED
    BY <1>3, <1>4

Agree(f, g, n) == \A i \in 1..n : f[i] = g[i]

LEMMA AccumulationsAgree ==
    ASSUME NEW s, NEW t, NEW m \in Nat, NEW n \in Nat, m <= n, NEW f, NEW g,
           Accumulates(f, s, m), Accumulates(g, t, n), Agree(s, t, m)
    PROVE  Agree(f, g, m)
  <1> DEFINE T == {i \in 1..m : f[i] # g[i]}
  <1>1. SUFFICES ASSUME T # {} PROVE FALSE
    BY DEF Agree
  <1>2. T \subseteq Nat
    OBVIOUS
  <1>3. PICK i \in T : \A j \in T : ~(j < i)
    BY <1>1, <1>2, Least
  <1>4. i \in 1..m /\ i \in 1..n
    OBVIOUS
  <1>5. f[i] = Joined(f, s, i) /\ g[i] = Joined(g, t, i)
    BY <1>4, AccumulatedOne, Zenon
  <1>6. i # 1 => f[i - 1] = g[i - 1]
    <2>1. i # 1 => i - 1 \in 1..m /\ i - 1 < i
      BY <1>4
    <2>2. QED
      BY <1>3, <2>1
  <1>7. QED
    BY <1>4, <1>5, <1>6 DEF Joined, Agree

LEMMA FlattenIsLast ==
    ASSUME NEW s \in Seq(Seq(Nat)), Len(s) # 0
    PROVE  \E f : Accumulates(f, s, Len(s)) /\ FlattenSeq(s) = f[Len(s)]
  <1> DEFINE f == CHOOSE f : Accumulates(f, s, Len(s))
  <1>1. FlattenSeq(s) = f[Len(s)]
    BY DEF FlattenSeq, Accumulates, Joined
  <1>2. \E g : Accumulates(g, s, Len(s))
    BY AccumulationExists, LenProperties
  <1>3. Accumulates(f, s, Len(s))
    BY <1>2
  <1>4. QED
    BY <1>1, <1>3

\* A chunk appended is text appended.
LEMMA FlattenAppend ==
    ASSUME NEW s \in Seq(Seq(Nat)), NEW x \in Seq(Nat)
    PROVE  FlattenSeq(Append(s, x)) = FlattenSeq(s) \o x
  <1>1. PICK t : t = Append(s, x)
    OBVIOUS
  <1>2. PICK n \in Nat, m \in Nat : n = Len(s) /\ m = n + 1
    BY LenProperties
  <1>3. /\ t \in Seq(Seq(Nat)) /\ Len(t) = m /\ t[m] = x /\ \A i \in 1..n : s[i] = t[i]
        /\ m \in 1..m /\ n <= m /\ m # 0
    BY <1>1, <1>2, AppendProperties
  <1>4. PICK g : Accumulates(g, t, m) /\ FlattenSeq(t) = g[m]
    BY <1>3, FlattenIsLast
  <1>5. g[m] = Joined(g, t, m)
    BY <1>3, <1>4, AccumulatedOne, Zenon
  <1>6. CASE n = 0
    <2>1. FlattenSeq(s) = s
      BY <1>2, <1>6 DEF FlattenSeq
    <2>2. s = <<>>
      BY <1>2, <1>6, EmptySeq
    <2>3. FlattenSeq(t) = x
      <3>1. Joined(g, t, m) = t[m]
        BY <1>2, <1>6 DEF Joined
      <3>2. QED
        BY <1>3, <1>4, <1>5, <3>1
    <2>4. QED
      BY <1>1, <2>1, <2>2, <2>3, ConcatEmptySeq
  <1>7. CASE n # 0
    <2>1. PICK f : Accumulates(f, s, n) /\ FlattenSeq(s) = f[n]
      BY <1>2, <1>7, FlattenIsLast
    <2>2. n \in 1..n
      BY <1>7
    <2>3. f[n] = g[n]
      <3>1. Agree(s, t, n)
        BY <1>3 DEF Agree
      <3>2. Agree(f, g, n)
        BY <1>3, <1>4, <2>1, <3>1, AccumulationsAgree
      <3>3. QED
        BY <2>2, <3>2 DEF Agree
    <2>4. FlattenSeq(t) = g[n] \o x
      <3>1. Joined(g, t, m) = g[n] \o t[m]
        <4>1. m - 1 = n /\ m # 1
          BY <1>2, <1>7
        <4>2. QED
          BY <4>1, Zenon DEF Joined
      <3>2. QED
        BY <1>3, <1>4, <1>5, <3>1
    <2>5. QED
      BY <1>1, <2>1, <2>3, <2>4
  <1>8. QED
    BY <1>6, <1>7

\* The tokens yielded so far.
Tokens(n) == [i \in 1..n |-> i]

LEMMA TokensNext ==
    ASSUME NEW n \in Nat
    PROVE  Tokens(n) \in Seq(Nat) /\ Append(Tokens(n), n + 1) = Tokens(n + 1)
  <1>1. /\ Tokens(n) \in Seq(Nat) /\ Len(Tokens(n)) = n
        /\ \A i \in 1..n : Tokens(n)[i] = i
    BY DEF Tokens
  <1>2. /\ Tokens(n + 1) \in Seq(Nat) /\ Len(Tokens(n + 1)) = n + 1
        /\ \A i \in 1..(n + 1) : Tokens(n + 1)[i] = i
    BY DEF Tokens
  <1> HIDE DEF Tokens
  <1>3. /\ Append(Tokens(n), n + 1) \in Seq(Nat) /\ Len(Append(Tokens(n), n + 1)) = n + 1
        /\ \A i \in 1..n : Append(Tokens(n), n + 1)[i] = i
        /\ Append(Tokens(n), n + 1)[n + 1] = n + 1
    BY <1>1, AppendProperties
  <1>4. \A i \in 1..(n + 1) : Append(Tokens(n), n + 1)[i] = Tokens(n + 1)[i]
    BY <1>2, <1>3
  <1>5. QED
    BY <1>1, <1>2, <1>3, <1>4, SeqEqual

\* flush_buffer's text is on its way once, and nothing of it is left behind.
ChunksInv ==
    /\ TypeOK
    /\ FlattenSeq(flushed) \in Seq(Nat)
    /\ FlattenSeq(flushed) \o token_buffer = Tokens(produced)
    /\ strategy = "buffer_and_sign" => buffer = FlattenSeq(flushed)
    /\ index = Len(flushed)
    /\ srv_pc \in {"generating", "finalizing"} => ~finalized
    /\ srv_pc \notin {"generating", "aborted"} => token_buffer = <<>>
    /\ finalized => token_buffer = <<>>

LEMMA FlushCarries ==
    ASSUME ChunksInv, NEW text \in Seq(Nat), flush_buffer(text), UNCHANGED request
    PROVE  /\ FlattenSeq(flushed') \in Seq(Nat)
           /\ FlattenSeq(flushed') \o token_buffer' = FlattenSeq(flushed) \o text
           /\ (strategy = "buffer_and_sign" => buffer = FlattenSeq(flushed))'
           /\ index' = Len(flushed') /\ token_buffer' = <<>>
  <1>1. /\ flushed \in Seq(Seq(Nat)) /\ index = Len(flushed)
        /\ FlattenSeq(flushed) \in Seq(Nat)
        /\ flushed' = Append(flushed, text) /\ token_buffer' = <<>> /\ index' = index + 1
        /\ UNCHANGED strategy
    BY RequestFixed DEF ChunksInv, TypeOK, flush_buffer
  <1>2. FlattenSeq(flushed') = FlattenSeq(flushed) \o text
    BY <1>1, FlattenAppend
  <1>3. FlattenSeq(flushed') \in Seq(Nat)
    BY <1>1, <1>2, ConcatProperties
  <1>4. FlattenSeq(flushed') \o token_buffer' = FlattenSeq(flushed')
    BY <1>1, <1>3, ConcatEmptySeq
  <1>5. (strategy = "buffer_and_sign")' => buffer' = FlattenSeq(flushed')
    BY <1>1, <1>2 DEF ChunksInv, flush_buffer, add_chunk
  <1>6. index' = Len(flushed')
    BY <1>1, AppendProperties
  <1>7. QED
    BY <1>1, <1>2, <1>3, <1>4, <1>5, <1>6

\* What the chunks depend on.
chunkVars == <<request, srv_pc, produced, token_buffer, index, buffer, flushed, finalized>>

LEMMA ChunksStay ==
    ASSUME ChunksInv, TypeOK', UNCHANGED chunkVars
    PROVE  ChunksInv'
  <1>1. UNCHANGED strategy
    BY RequestFixed DEF chunkVars
  <1>2. QED
    BY <1>1 DEF ChunksInv, chunkVars

LEMMA ChunksServer ==
    ASSUME ChunksInv, TypeOK', ServerNext
    PROVE  ChunksInv'
  <1>1. /\ flushed \in Seq(Seq(Nat)) /\ token_buffer \in Seq(Nat) /\ produced \in Nat
        /\ index = Len(flushed) /\ FlattenSeq(flushed) \in Seq(Nat)
    BY RequestTypes DEF ChunksInv, TypeOK
  <1>2. CASE GenerateToken
    <2>1. /\ UNCHANGED <<request, srv_pc, finalized, strategy>> /\ produced' = produced + 1
          /\ srv_pc = "generating" /\ ~finalized
      BY <1>2, RequestFixed DEF GenerateToken, ChunksInv
    <2>2. PICK text \in Seq(Nat) : text = Append(token_buffer, produced + 1)
      <3>1. produced + 1 \in Nat
        BY <1>1
      <3>2. Append(token_buffer, produced + 1) \in Seq(Nat)
        BY <1>1, <3>1, AppendProperties
      <3>3. QED
        BY <3>2
    <2>3. FlattenSeq(flushed) \o text = Tokens(produced')
      <3>1. FlattenSeq(flushed) \o text
              = Append(FlattenSeq(flushed) \o token_buffer, produced + 1)
        BY <1>1, <2>2, AppendIsConcat, ConcatAssociative, ConcatProperties
      <3>2. QED
        BY <1>1, <2>1, <3>1, TokensNext DEF ChunksInv
    <2>4. CASE flush_buffer(text)
      <3>1. /\ FlattenSeq(flushed') \in Seq(Nat)
            /\ FlattenSeq(flushed') \o token_buffer' = FlattenSeq(flushed) \o text
            /\ (strategy = "buffer_and_sign" => buffer = FlattenSeq(flushed))'
            /\ index' = Len(flushed') /\ token_buffer' = <<>>
        BY <2>1, <2>4, FlushCarries
      <3>2. QED
        BY <2>1, <2>3, <3>1 DEF ChunksInv
    <2>5. CASE token_buffer' = text /\ NoFlush
      BY <1>1, <2>1, <2>3, <2>5 DEF ChunksInv, NoFlush
    <2>6. QED
      BY <1>2, <2>2, <2>4, <2>5 DEF GenerateToken
  <1>3. CASE EndGeneration
    <2>1. /\ UNCHANGED <<request, produced, finalized, strategy>> /\ ~finalized
          /\ srv_pc' = "finalizing"
      BY <1>3, RequestFixed DEF EndGeneration, ChunksInv
    <2>2. CASE token_buffer # <<>>
      <3>1. flush_buffer(token_buffer)
        BY <1>3, <2>2 DEF EndGeneration
      <3>2. /\ FlattenSeq(flushed') \in Seq(Nat)
            /\ FlattenSeq(flushed') \o token_buffer' = FlattenSeq(flushed) \o token_buffer
            /\ (strategy = "buffer_and_sign" => buffer = FlattenSeq(flushed))'
            /\ index' = Len(flushed') /\ token_buffer' = <<>>
        BY <1>1, <2>1, <3>1, FlushCarries
      <3>3. QED
        BY <2>1, <3>2 DEF ChunksInv
    <2>3. CASE token_buffer = <<>>
      BY <1>3, <2>1, <2>3 DEF EndGeneration, NoFlush, ChunksInv
    <2>4. QED
      BY <2>2, <2>3
  <1>4. CASE Finalize \/ SendDone \/ Forget \/ Cancelled \/ BackendFails
    <2>1. /\ UNCHANGED <<request, produced, token_buffer, index, buffer, flushed>>
          /\ srv_pc' \notin {"generating", "finalizing"}
          /\ srv_pc' # "aborted" => srv_pc \notin {"generating", "aborted"}
          /\ finalized' # finalized => srv_pc = "finalizing"
          /\ UNCHANGED strategy
      BY <1>4, RequestFixed DEF Finalize, SendDone, Forget, Cancelled, BackendFails
    <2>2. QED
      BY <2>1 DEF ChunksInv
  <1>5. QED
    BY <1>2, <1>3, <1>4 DEF ServerNext

LEMMA ChunksInit == Init => ChunksInv
  <1> SUFFICES ASSUME Init PROVE ChunksInv
    OBVIOUS
  <1>1. /\ TypeOK /\ flushed = <<>> /\ token_buffer = <<>> /\ produced = 0 /\ index = 0
        /\ buffer = <<>> /\ ~finalized /\ srv_pc = "generating"
    BY TypeInit DEF Init
  <1>2. FlattenSeq(flushed) = <<>>
    BY <1>1 DEF FlattenSeq
  <1>3. <<>> \o <<>> = Tokens(0)
    BY DEF Tokens
  <1>4. <<>> \in Seq(Nat) /\ Len(<<>>) = 0
    OBVIOUS
  <1>5. QED
    BY <1>1, <1>2, <1>3, <1>4, Zenon DEF ChunksInv

\* Every token of the generated text is in exactly one chunk, in order, for
\* every chunk size, at every point of every transaction.
THEOREM ChunksComplete == Spec => []ChunksCarryTheText
  <1>1. Init => ChunksInv
    BY ChunksInit
  <1>2. ChunksInv /\ TypeOK' /\ [Next]_vars => ChunksInv'
    <2> SUFFICES ASSUME ChunksInv, TypeOK', [Next]_vars PROVE ChunksInv'
      OBVIOUS
    <2>1. CASE ClientNext \/ FaultNext \/ ReadError \/ UNCHANGED vars
      <3>1. UNCHANGED <<request, serverVars>>
        BY <2>1 DEF ClientNext, OnRecord, OnPerChunk, OnChainChunk, OnFinalBuffered,
           OnFinalPerChunk, OnFinalChain, OnIgnored, OnMalformed, Read, EndOfBody, ReadError, vars,
           FaultNext, Fault, Drop, Reorder, Duplicate, Replay, TamperCiphertext, TamperSignature,
           StripCheckpoint, MoveCheckpoint, Truncate
      <3>2. QED
        BY <3>1, ChunksStay DEF chunkVars, serverVars
    <2>2. QED
      BY <2>1, ChunksServer DEF Next, Finished
  <1>3. ChunksInv => ChunksCarryTheText
    BY DEF ChunksInv, ChunksCarryTheText, Tokens
  <1>4. QED
    BY <1>1, <1>2, <1>3, TypeCorrect, PTL DEF Spec

-----------------------------------------------------------------------------
(***************************************************************************)
(* Prefixes and chains.                                                    *)
(***************************************************************************)
LEMMA PrefixAppend ==
    ASSUME NEW S, NEW s \in Seq(S), NEW t \in Seq(S), NEW x \in S, IsPrefix(s, t)
    PROVE  IsPrefix(s, Append(t, x))
  <1>1. Len(s) <= Len(t) /\ SubSeq(s, 1, Len(s)) = SubSeq(t, 1, Len(s))
    BY DEF IsPrefix
  <1>2. Append(t, x) \in Seq(S) /\ Len(Append(t, x)) = Len(t) + 1
        /\ \A i \in 1..Len(t) : Append(t, x)[i] = t[i]
    BY AppendProperties
  <1>3. SubSeq(Append(t, x), 1, Len(s)) = SubSeq(t, 1, Len(s))
    BY <1>1, <1>2, LenProperties
  <1>4. QED
    BY <1>1, <1>2, <1>3, LenProperties DEF IsPrefix

LEMMA PrefixSelf ==
    ASSUME NEW S, NEW s \in Seq(S)
    PROVE  IsPrefix(s, s) /\ IsPrefix(<<>>, s)
  BY DEF IsPrefix

LEMMA FunctionSeq ==
    ASSUME NEW S, NEW m \in Nat, NEW f \in [1..m -> S]
    PROVE  f \in Seq(S) /\ Len(f) = m
  OBVIOUS

\* Chain hashes of the chunks already flushed do not depend on later chunks.
LEMMA ChainOfStable ==
    ASSUME NEW texts \in Seq(Seq(Nat)), NEW text \in Seq(Nat), NEW n \in 0..Len(texts)
    PROVE  ChainOf(Hid, Append(texts, text), n) = ChainOf(Hid, texts, n)
  <1>1. \A i \in 1..n : Append(texts, text)[i] = texts[i]
    BY AppendProperties
  <1>2. \A i \in 1..n : Link(Hid, Append(texts, text), i) = Link(Hid, texts, i)
    BY <1>1 DEF Link
  <1>3. QED
    BY <1>2 DEF ChainOf

\* Absorbing the next chunk extends the chain by its link.
LEMMA ChainOfAbsorb ==
    ASSUME NEW texts \in Seq(Seq(Nat)), NEW text \in Seq(Nat)
    PROVE  absorb(ChainOf(Hid, texts, Len(texts)), Len(texts),
                  aead_encrypt(Hid, Len(texts) + 1, text))
             = ChainOf(Hid, Append(texts, text), Len(texts) + 1)
  <1> DEFINE n == Len(texts)
             more == Append(texts, text)
             links == [i \in 1..n |-> Link(Hid, texts, i)]
             link == [index |-> n, env |-> aead_encrypt(Hid, n + 1, text)]
  <1>1. n \in Nat /\ more[n + 1] = text /\ \A i \in 1..n : more[i] = texts[i]
    BY AppendProperties
  <1>2. \A i \in 1..n : Link(Hid, more, i) = Link(Hid, texts, i)
    BY <1>1 DEF Link
  <1>3. Link(Hid, more, n + 1) = link
    BY <1>1 DEF Link
  <1>4. Append(links, link) = [i \in 1..(n + 1) |-> Link(Hid, more, i)]
    <2> DEFINE L == [index: Nat, env: Envelopes]
               all == [i \in 1..(n + 1) |-> Link(Hid, more, i)]
    <2>1. links \in Seq(L) /\ Len(links) = n /\ \A i \in 1..n : links[i] = Link(Hid, texts, i)
      BY <1>1, ChainOfType DEF ChainOf, Hashes
    <2>2. link \in L
      BY <1>1, EnvelopeType
    <2>3. all \in Seq(L) /\ Len(all) = n + 1 /\ \A i \in 1..(n + 1) : all[i] = Link(Hid, more, i)
      <3>1. more \in Seq(Seq(Nat)) /\ Len(more) = n + 1 /\ n + 1 \in 0..Len(more)
        BY <1>1, AppendProperties
      <3>2. ChainOf(Hid, more, n + 1) \in Hashes
        BY <3>1, ChainOfType
      <3>3. QED
        BY <1>1, <3>2 DEF ChainOf, Hashes
    <2> HIDE DEF link, links, all, L
    <2>4. /\ Append(links, link) \in Seq(L) /\ Len(Append(links, link)) = n + 1
          /\ \A i \in 1..n : Append(links, link)[i] = links[i]
          /\ Append(links, link)[n + 1] = link
      BY <1>1, <2>1, <2>2, AppendProperties
    <2>5. \A i \in 1..(n + 1) : Append(links, link)[i] = all[i]
      BY <1>1, <1>2, <1>3, <2>1, <2>3, <2>4
    <2>6. Append(links, link) = all
      BY <2>3, <2>4, <2>5, SeqEqual
    <2>7. QED
      BY <2>6 DEF all
  <1>5. QED
    BY <1>4 DEF absorb, ChainOf

-----------------------------------------------------------------------------
(***************************************************************************)
(* The initial states.                                                     *)
(***************************************************************************)
LEMMA InvInit == Init => Inv
  <1> SUFFICES ASSUME Init PROVE Inv
    OBVIOUS
  <1>1. TypeOK
    BY TypeInit
  <1>2. /\ flushed = <<>> /\ index = 0 /\ ~finalized /\ running_hash = genesis_hash(Hid)
        /\ wire = <<>> /\ reconstructed = <<>> /\ expected_index = 0 /\ pending = 0
        /\ ~terminal_seen
        /\ chain_state = [running_hash |-> genesis_hash(Hid), n_absorbed |-> 0]
        /\ metrics.stream_fully_verified = None /\ metrics.max_unverified_chunks = 0
    BY DEF Init, NewChainState
  <1>3. ChainOf(Hid, flushed, 0) = genesis_hash(Hid)
    <2>1. [i \in 1..0 |-> Link(Hid, flushed, i)] = <<>>
      OBVIOUS
    <2>2. QED
      BY <2>1 DEF ChainOf, genesis_hash
  <1>4. ServerInv
    BY <1>2, <1>3 DEF ServerInv
  <1>5. wire \in Seq(AuthenticRecords)
    BY <1>2
  <1>6. AcceptedPrefix /\ BufferInv
    BY <1>2 DEF AcceptedPrefix, BufferInv
  <1>7. ChainInv /\ CoveredIsGenuine
    BY <1>2 DEF ChainInv, CoveredIsGenuine, genesis_hash
  <1>8. VerdictInv
    BY <1>2, DistinctIds DEF VerdictInv, VerifiedMeansComplete
  <1>9. ExposureInv
    BY <1>1, <1>2, RequestTypes DEF ExposureInv, TypeOK
  <1>10. QED
    BY <1>1, <1>4, <1>5, <1>6, <1>7, <1>8, <1>9 DEF Inv

-----------------------------------------------------------------------------
(***************************************************************************)
(* Signatures on the wire.                                                 *)
(***************************************************************************)
LEMMA DonorSigner ==
    ASSUME NEW record \in DonorRecords, record.signature # None
    PROVE  record.signature.signer = Other
  <1>1. PICK s \in StrategyNames, interval \in DonorIntervals :
            record \in CapturedStream(Other, s, interval, DonorTexts, DonorText)
    BY DEF DonorRecords
  <1>2. CASE record = CapturedFinal(Other, s, DonorTexts, DonorText)
    BY <1>2 DEF CapturedFinal, BufferedFinal, PerChunkFinal, ChainFinal, Record, Sign
  <1>3. CASE \E i \in 1..Len(DonorTexts) :
                record = CapturedChunk(Other, s, interval, DonorTexts, i)
    BY <1>3 DEF CapturedChunk, ChunkRow, Record, Sign
  <1>4. QED
    BY <1>1, <1>2, <1>3 DEF CapturedStream

LEMMA AuthenticClosed == ClosedUnderFaults(AuthenticRecords)
  <1> USE DEF AuthenticRecords
  <1>1. DonorRecords \subseteq AuthenticRecords
    BY DonorType, DonorSigner, DistinctIds DEF Authentic
  <1>2. ASSUME NEW r \in AuthenticRecords, r.env # None
        PROVE  [r EXCEPT !.env.key = NoKey] \in AuthenticRecords
    <2>1. [r EXCEPT !.env.key = NoKey] \in Records
      BY <1>2, RecordsClosed DEF ClosedUnderFaults
    <2>2. [r EXCEPT !.env.key = NoKey].signature = r.signature
      BY Zenon DEF Records
    <2>3. QED
      BY <2>1, <2>2 DEF Authentic
  <1>3. ASSUME NEW r \in AuthenticRecords, r.signature # None
        PROVE  [r EXCEPT !.signature.signer = NoKey] \in AuthenticRecords
    <2>1. [r EXCEPT !.signature.signer = NoKey] \in Records
      BY <1>3, RecordsClosed DEF ClosedUnderFaults
    <2>2. r.signature \in Signatures
      BY <1>3 DEF Records
    <2>3. [r EXCEPT !.signature.signer = NoKey].signature.signer = NoKey
      BY <2>2, Zenon DEF Records, Signatures
    <2>4. QED
      BY <2>1, <2>3, DistinctIds DEF Authentic
  <1>4. ASSUME NEW r \in AuthenticRecords
        PROVE  [r EXCEPT !.signature = None] \in AuthenticRecords
    <2>1. [r EXCEPT !.signature = None] \in Records
      BY RecordsClosed DEF ClosedUnderFaults
    <2>2. [r EXCEPT !.signature = None].signature = None
      BY DEF Records
    <2>3. QED
      BY <2>1, <2>2 DEF Authentic
  <1>5. ASSUME NEW r \in AuthenticRecords, NEW q \in AuthenticRecords
        PROVE  [r EXCEPT !.signature = q.signature] \in AuthenticRecords
    <2>1. [r EXCEPT !.signature = q.signature] \in Records
      BY RecordsClosed DEF ClosedUnderFaults
    <2>2. [r EXCEPT !.signature = q.signature].signature = q.signature
      BY DEF Records
    <2>3. QED
      BY <2>1, <2>2 DEF Authentic
  <1>6. QED
    BY <1>1, <1>2, <1>3, <1>4, <1>5 DEF ClosedUnderFaults

\* What every step does to the server's side of the argument.
Grows ==
    /\ UNCHANGED request
    /\ finalized => finalized' /\ UNCHANGED <<flushed, buffer>>
    /\ \/ UNCHANGED flushed
       \/ \E text \in Seq(Nat) : flushed' = Append(flushed, text)

LEMMA FlushedGrows ==
    ASSUME TypeOK, Grows
    PROVE  /\ Len(flushed) \in Nat /\ Len(flushed') \in Nat /\ Len(flushed) <= Len(flushed')
           /\ \A i \in 1..Len(flushed) : flushed'[i] = flushed[i]
           /\ \A i \in 1..Len(flushed) : ChainOf(Hid, flushed', i) = ChainOf(Hid, flushed, i)
           /\ \A i \in 1..Len(flushed) : Link(Hid, flushed', i) = Link(Hid, flushed, i)
  <1>1. CASE UNCHANGED flushed
    BY <1>1 DEF TypeOK
  <1>2. CASE \E text \in Seq(Nat) : flushed' = Append(flushed, text)
    <2>1. PICK text \in Seq(Nat) : flushed' = Append(flushed, text)
      BY <1>2
    <2>2. /\ Len(flushed) \in Nat /\ Len(flushed') = Len(flushed) + 1
          /\ \A i \in 1..Len(flushed) : flushed'[i] = flushed[i]
      BY <2>1, AppendProperties DEF TypeOK
    <2>3. \A i \in 1..Len(flushed) : ChainOf(Hid, flushed', i) = ChainOf(Hid, flushed, i)
      BY <2>1, <2>2, ChainOfStable DEF TypeOK
    <2>4. QED
      BY <2>2, <2>3 DEF Link
  <1>3. QED
    BY <1>1, <1>2 DEF Grows

LEMMA SignedGrows ==
    ASSUME TypeOK, Grows, NEW msg, SignedByServer(msg)
    PROVE  SignedByServer(msg)'
  <1>1. strategy' = strategy
    BY RequestFixed DEF Grows
  <1>2. /\ Len(flushed) \in Nat /\ Len(flushed') \in Nat /\ Len(flushed) <= Len(flushed')
        /\ \A i \in 1..Len(flushed) : i \in 1..Len(flushed') /\ flushed'[i] = flushed[i]
        /\ \A i \in 1..Len(flushed) : ChainOf(Hid, flushed', i) = ChainOf(Hid, flushed, i)
    BY FlushedGrows
  <1>3. finalized => finalized' /\ flushed' = flushed /\ buffer' = buffer
    BY DEF Grows
  <1>4. CASE strategy = "buffer_and_sign" /\ finalized
             /\ msg = buffered_message(ctx, aead_encrypt(Hid, 0, buffer))
    BY <1>1, <1>3, <1>4 DEF SignedByServer, ctx
  <1>5. CASE strategy = "per_chunk" /\ \E i \in 1..Len(flushed) :
                msg = chunk_message(ctx, i - 1, aead_encrypt(Hid, i, flushed[i]))
    BY <1>1, <1>2, <1>5 DEF SignedByServer, ctx
  <1>6. CASE strategy = "per_chunk" /\ finalized /\ msg = end_message(ctx, Len(flushed))
    BY <1>1, <1>3, <1>6 DEF SignedByServer, ctx
  <1>7. CASE strategy = "hash_chain" /\ \E i \in 1..Len(flushed) :
                msg = checkpoint_message(ctx, i - 1, ChainOf(Hid, flushed, i))
    BY <1>1, <1>2, <1>7 DEF SignedByServer, ctx
  <1>8. CASE strategy = "hash_chain" /\ finalized
             /\ msg = final_chain_message(ctx, Len(flushed), ChainOf(Hid, flushed, Len(flushed)))
    BY <1>1, <1>3, <1>8 DEF SignedByServer, ctx
  <1>9. QED
    BY <1>4, <1>5, <1>6, <1>7, <1>8 DEF SignedByServer

LEMMA AuthenticGrows ==
    ASSUME TypeOK, Grows
    PROVE  AuthenticRecords \subseteq AuthenticRecords'
  <1>1. ASSUME NEW record \in AuthenticRecords
        PROVE  record \in AuthenticRecords'
    <2>1. record \in Records /\ Authentic(record)
      BY DEF AuthenticRecords
    <2>2. Authentic(record)'
      BY <2>1, SignedGrows DEF Authentic
    <2>3. QED
      BY <2>1, <2>2 DEF AuthenticRecords
  <1>2. QED
    BY <1>1

-----------------------------------------------------------------------------
(***************************************************************************)
(* The server's steps.                                                     *)
(***************************************************************************)
LEMMA YieldSigned ==
    ASSUME wire \in Seq(AuthenticRecords'), NEW record \in Records, Yield(record),
           record.signature = None \/ SignedByServer(record.signature.msg)'
    PROVE  wire' \in Seq(AuthenticRecords')
  <1>1. Authentic(record)'
    BY DEF Authentic
  <1>2. record \in AuthenticRecords'
    BY <1>1 DEF AuthenticRecords
  <1>3. QED
    BY <1>2, AppendProperties DEF Yield

LEMMA FlushGrows ==
    ASSUME Inv, srv_pc = "generating", NEW text \in Seq(Nat), text # <<>>, flush_buffer(text),
           UNCHANGED <<request, finalized>>, srv_pc' \in {"generating", "finalizing"}
    PROVE  Grows /\ ServerInv' /\ wire' \in Seq(AuthenticRecords')
  <1>1. /\ TypeOK /\ ServerInv /\ wire \in Seq(AuthenticRecords) /\ ~finalized
        /\ index = Len(flushed)
    BY DEF Inv, ServerInv
  <1>2. /\ add_chunk(text) /\ index' = index + 1 /\ flushed' = Append(flushed, text)
    BY DEF flush_buffer
  <1>3. Grows
    BY <1>1, <1>2 DEF Grows
  <1>4. UNCHANGED <<strategy, k>>
    BY RequestFixed
  <1>5. /\ flushed \in Seq(Seq(Nat)) /\ Len(flushed) \in Nat /\ Len(flushed') = Len(flushed) + 1
        /\ flushed'[Len(flushed) + 1] = text /\ \A i \in 1..Len(flushed) : flushed'[i] = flushed[i]
    BY <1>1, <1>2, AppendProperties DEF TypeOK
  <1> DEFINE env == aead_encrypt(Hid, index + 1, text)
             hash == absorb(running_hash, index, env)
  <1>6. strategy = "hash_chain" => hash = ChainOf(Hid, flushed', index')
    BY <1>1, <1>2, <1>5, ChainOfAbsorb DEF ServerInv
  <1>7. env \in Envelopes /\ hash \in Hashes /\ index \in Nat
    <2>1. index \in Nat /\ index + 1 \in Nat /\ running_hash \in Hashes
      BY <1>1 DEF TypeOK
    <2>2. env \in Envelopes
      BY <2>1, EnvelopeType
    <2>3. QED
      BY <2>1, <2>2, AbsorbType
  <1>8. env = aead_encrypt(Hid, index', flushed'[index'])
    BY <1>1, <1>2, <1>5
  <1>9. index' \in 1..Len(flushed') /\ index' - 1 = index /\ index' = Len(flushed')
    BY <1>1, <1>2, <1>5
  <1> HIDE DEF env, hash
  <1>10. ServerInv'
    <2>1. strategy = "hash_chain" => running_hash' = hash
      BY <1>2 DEF add_chunk, hash, env
    <2>2. \A i \in 1..Len(flushed') : flushed'[i] # <<>>
      <3>1. \A i \in 1..Len(flushed') : i \in 1..Len(flushed) \/ i = Len(flushed) + 1
        BY <1>5
      <3>2. QED
        BY <1>1, <1>5, <3>1 DEF ServerInv
    <2>3. QED
      BY <1>1, <1>4, <1>6, <1>9, <2>1, <2>2 DEF ServerInv
  <1>11. wire \in Seq(AuthenticRecords')
    BY <1>1, <1>3, AuthenticGrows, SeqMonotonic
  <1>12. wire' \in Seq(AuthenticRecords')
    <2>1. CASE strategy = "buffer_and_sign"
      BY <1>2, <1>11, <2>1 DEF add_chunk
    <2>2. CASE strategy = "per_chunk"
      <3>1. PICK record \in Records :
                record = ChunkRow(index, env, None, Sign(Hid, chunk_message(ctx, index, env)))
        BY <1>7, ChunkRecordTypes
      <3>2. Yield(record)
        BY <1>2, <2>2, <3>1 DEF add_chunk, env, hash
      <3>3. record.signature.msg = chunk_message(ctx, index, env)
        BY <3>1 DEF ChunkRow, Record, Sign
      <3>4. SignedByServer(record.signature.msg)'
        BY <1>4, <1>8, <1>9, <2>2, <3>3 DEF SignedByServer, ctx
      <3>5. QED
        BY <1>11, <3>2, <3>4, YieldSigned
    <2>3. CASE strategy = "hash_chain"
      <3> DEFINE sig == IF CheckpointDue THEN Sign(Hid, checkpoint_message(ctx, index, hash))
                        ELSE None
      <3>1. PICK record \in Records : record = ChunkRow(index, env, hash, sig)
        BY <1>7, ChunkRecordTypes
      <3>2. Yield(record)
        BY <1>2, <2>3, <3>1 DEF add_chunk, env, hash
      <3>3. \/ record.signature = None
            \/ record.signature.msg = checkpoint_message(ctx, index, hash)
        BY <3>1 DEF ChunkRow, Record, Sign
      <3>4. record.signature = None \/ SignedByServer(record.signature.msg)'
        BY <1>4, <1>6, <1>9, <2>3, <3>3 DEF SignedByServer, ctx
      <3>5. QED
        BY <1>11, <3>2, <3>4, YieldSigned
    <2>4. QED
      BY <1>2, <2>1, <2>2, <2>3 DEF add_chunk
  <1>13. QED
    BY <1>3, <1>10, <1>12

LEMMA FinalizeGrows ==
    ASSUME Inv, Finalize
    PROVE  Grows /\ ServerInv' /\ wire' \in Seq(AuthenticRecords')
  <1>1. /\ TypeOK /\ ServerInv /\ wire \in Seq(AuthenticRecords) /\ index = Len(flushed)
    BY DEF Inv, ServerInv
  <1>2. /\ finalized' = TRUE /\ finalize(index) /\ srv_pc' = "closing"
        /\ UNCHANGED <<request, index, buffer, running_hash, flushed>>
    BY DEF Finalize
  <1>3. Grows
    BY <1>2 DEF Grows
  <1>4. UNCHANGED strategy
    BY <1>2, RequestFixed
  <1>5. ServerInv'
    BY <1>1, <1>2, <1>4 DEF ServerInv
  <1>6. wire \in Seq(AuthenticRecords')
    BY <1>1, <1>3, AuthenticGrows, SeqMonotonic
  <1> DEFINE env == aead_encrypt(Hid, 0, buffer)
  <1>7. env \in Envelopes
    BY <1>1, EnvelopeType DEF TypeOK
  <1> HIDE DEF env
  <1>8. CASE strategy = "buffer_and_sign"
    <2>1. PICK record \in Records : record = BufferedFinal(env, Sign(Hid, buffered_message(ctx, env)))
      BY <1>1, <1>7, FinalRecordTypes DEF TypeOK
    <2>2. Yield(record)
      BY <1>2, <1>8, <2>1 DEF finalize, env
    <2>3. record.signature.msg = buffered_message(ctx, env)
      BY <2>1 DEF BufferedFinal, Record, Sign
    <2>4. SignedByServer(record.signature.msg)'
      BY <1>1, <1>2, <1>4, <1>8, <2>3 DEF SignedByServer, ctx, env
    <2>5. QED
      BY <1>3, <1>5, <1>6, <2>2, <2>4, YieldSigned
  <1>9. CASE strategy = "per_chunk"
    <2>1. PICK record \in Records : record = PerChunkFinal(index, Sign(Hid, end_message(ctx, index)))
      BY <1>1, <1>7, FinalRecordTypes DEF TypeOK
    <2>2. Yield(record)
      BY <1>2, <1>9, <2>1 DEF finalize, env
    <2>3. record.signature.msg = end_message(ctx, index)
      BY <2>1 DEF PerChunkFinal, Record, Sign
    <2>4. SignedByServer(record.signature.msg)'
      BY <1>1, <1>2, <1>4, <1>9, <2>3 DEF SignedByServer, ctx
    <2>5. QED
      BY <1>3, <1>5, <1>6, <2>2, <2>4, YieldSigned
  <1>10. CASE strategy = "hash_chain"
    <2>1. PICK record \in Records : record = ChainFinal(index, running_hash,
             Sign(Hid, final_chain_message(ctx, index, running_hash)))
      BY <1>1, <1>7, FinalRecordTypes DEF TypeOK
    <2>2. Yield(record)
      BY <1>2, <1>10, <2>1 DEF finalize, env
    <2>3. record.signature.msg = final_chain_message(ctx, index, running_hash)
      BY <2>1 DEF ChainFinal, Record, Sign
    <2>4. SignedByServer(record.signature.msg)'
      BY <1>1, <1>2, <1>4, <1>10, <2>3 DEF SignedByServer, ctx, ServerInv
    <2>5. QED
      BY <1>3, <1>5, <1>6, <2>2, <2>4, YieldSigned
  <1>11. QED
    BY <1>2, <1>8, <1>9, <1>10 DEF finalize

LEMMA ServerStepGrows ==
    ASSUME Inv, ServerNext
    PROVE  Grows /\ ServerInv' /\ wire' \in Seq(AuthenticRecords')
  <1>1. TypeOK /\ ServerInv /\ wire \in Seq(AuthenticRecords)
    BY DEF Inv
  <1>2. ASSUME UNCHANGED <<request, flushed, buffer, finalized>>
        PROVE  Grows /\ UNCHANGED strategy /\ wire \in Seq(AuthenticRecords')
    <2>1. Grows
      BY <1>2 DEF Grows
    <2>2. wire \in Seq(AuthenticRecords')
      BY <1>1, <2>1, AuthenticGrows, SeqMonotonic
    <2>3. QED
      BY <1>2, <2>1, <2>2, RequestFixed
  <1>3. CASE GenerateToken
    <2> DEFINE text == Append(token_buffer, produced + 1)
    <2>1. text \in Seq(Nat) /\ text # <<>>
      <3>1. max_tokens \in Nat /\ token_buffer \in Seq(Nat) /\ produced \in 0..max_tokens
        BY <1>1, RequestTypes DEF TypeOK
      <3>2. text \in Seq(Nat) /\ Len(text) = Len(token_buffer) + 1 /\ Len(token_buffer) \in Nat
        BY <3>1, AppendProperties
      <3>3. QED
        BY <3>2
    <2>2. srv_pc = "generating" /\ UNCHANGED <<srv_pc, request, finalized>>
      BY <1>3 DEF GenerateToken
    <2>3. CASE Len(text) >= chunk_size_tokens
      <3>1. flush_buffer(text)
        BY <1>3, <2>3 DEF GenerateToken
      <3> HIDE DEF text
      <3>2. QED
        BY <2>1, <2>2, <3>1, FlushGrows
    <2>4. CASE ~(Len(text) >= chunk_size_tokens)
      BY <1>1, <1>2, <1>3, <2>4 DEF GenerateToken, NoFlush, ServerInv
    <2>5. QED
      BY <2>3, <2>4
  <1>4. CASE EndGeneration
    <2>1. srv_pc = "generating" /\ srv_pc' = "finalizing" /\ UNCHANGED <<request, finalized>>
      BY <1>4 DEF EndGeneration
    <2>2. CASE token_buffer # <<>>
      <3>1. flush_buffer(token_buffer) /\ token_buffer \in Seq(Nat)
        BY <1>1, <1>4, <2>2 DEF EndGeneration, TypeOK
      <3>2. QED
        BY <2>1, <2>2, <3>1, FlushGrows
    <2>3. CASE token_buffer = <<>>
      BY <1>1, <1>2, <1>4, <2>3 DEF EndGeneration, NoFlush, ServerInv
    <2>4. QED
      BY <2>2, <2>3
  <1>5. CASE Finalize
    BY <1>5, FinalizeGrows
  <1>6. CASE SendDone
    <2>1. PICK record \in Records : record = DoneEvent(index)
      BY <1>1 DEF TypeOK, DoneEvent, Record, Records
    <2>2. record.signature = None
      BY <2>1 DEF DoneEvent, Record
    <2>3. Yield(record)
      BY <1>6, <2>1 DEF SendDone
    <2>4. Grows /\ UNCHANGED strategy /\ wire \in Seq(AuthenticRecords')
      BY <1>2, <1>6 DEF SendDone
    <2>5. wire' \in Seq(AuthenticRecords')
      BY <2>2, <2>3, <2>4, YieldSigned
    <2>6. QED
      BY <1>1, <1>6, <2>4, <2>5 DEF SendDone, ServerInv
  <1>7. CASE Forget \/ Cancelled \/ BackendFails
    BY <1>1, <1>2, <1>7 DEF Forget, Cancelled, BackendFails, ServerInv
  <1>8. QED
    BY <1>3, <1>4, <1>5, <1>6, <1>7 DEF ServerNext

-----------------------------------------------------------------------------
(***************************************************************************)
(* The client's conclusions survive what the others do.                    *)
(***************************************************************************)
LEMMA CompleteStable ==
    ASSUME TypeOK, Grows, Complete,
           \/ UNCHANGED reconstructed
           \/ \E text \in Seq(Nat) : reconstructed' = Append(reconstructed, text)
    PROVE  Complete'
  <1>1. finalized' /\ UNCHANGED <<request, flushed, buffer>>
    BY DEF Grows, Complete
  <1>2. Genuine' = Genuine
    BY <1>1, RequestFixed DEF Genuine, Extend
  <1>3. Genuine \in Seq(Seq(Nat)) /\ reconstructed \in Seq(Seq(Nat))
    BY DEF Genuine, Extend, TypeOK
  <1>4. IsPrefix(Genuine, reconstructed')
    BY <1>3, PrefixAppend DEF Complete
  <1>5. QED
    BY <1>1, <1>2, <1>4 DEF Complete

LEMMA ClientStable ==
    ASSUME Inv, Grows,
           UNCHANGED <<metrics, chain_state, terminal_seen, expected_index, reconstructed, pending>>
    PROVE  /\ AcceptedPrefix' /\ BufferInv' /\ ChainInv'
           /\ VerdictInv' /\ CoveredIsGenuine' /\ ExposureInv'
  <1>1. /\ UNCHANGED <<metrics, chain_state, terminal_seen, expected_index, reconstructed, pending>>
        /\ UNCHANGED <<strategy, k>>
    BY RequestFixed DEF Grows
  <1>2. /\ TypeOK /\ Len(flushed) \in Nat /\ Len(flushed') \in Nat /\ Len(flushed) <= Len(flushed')
        /\ \A i \in 1..Len(flushed) : flushed'[i] = flushed[i]
        /\ \A i \in 1..Len(flushed) : Link(Hid, flushed', i) = Link(Hid, flushed, i)
    BY FlushedGrows DEF Inv
  <1>3. AcceptedPrefix'
    <2>1. ASSUME expected_index <= Len(flushed)
          PROVE  SubSeq(flushed', 1, expected_index) = SubSeq(flushed, 1, expected_index)
      BY <1>2, <2>1 DEF TypeOK
    <2>2. SUFFICES ASSUME strategy = "per_chunk", metrics.all_signatures_valid,
                          metrics.all_in_order
                   PROVE  /\ pending = 0 /\ expected_index <= Len(flushed')
                          /\ reconstructed = SubSeq(flushed', 1, expected_index)
      BY <1>1 DEF AcceptedPrefix
    <2>3. /\ pending = 0 /\ expected_index <= Len(flushed)
          /\ reconstructed = SubSeq(flushed, 1, expected_index) /\ expected_index \in Nat
      BY <2>2 DEF Inv, AcceptedPrefix, TypeOK
    <2>4. QED
      BY <1>2, <2>1, <2>3
  <1>4. BufferInv'
    BY <1>1, <1>2, CompleteStable DEF BufferInv, Inv
  <1>5. ChainInv'
    BY <1>1 DEF ChainInv, Inv
  <1>6. VerdictInv'
    <2>1. Complete => Complete'
      BY <1>1, <1>2, CompleteStable
    <2>2. QED
      BY <1>1, <2>1 DEF VerdictInv, VerifiedMeansComplete, Complete, Inv
  <1>7. CoveredIsGenuine'
    BY <1>1, <1>2 DEF CoveredIsGenuine, Inv, TypeOK
  <1>8. ExposureInv'
    BY <1>1 DEF ExposureInv, Inv
  <1>9. QED
    BY <1>3, <1>4, <1>5, <1>6, <1>7, <1>8

-----------------------------------------------------------------------------
(***************************************************************************)
(* The client's steps.                                                     *)
(***************************************************************************)
\* A signature that verifies is on a message the server signed.
LEMMA VerifiedIsSigned ==
    ASSUME NEW record \in AuthenticRecords, NEW msg \in Messages,
           Verify(Hid, msg, record.signature)
    PROVE  SignedByServer(msg)
  <1>1. record.signature = Sign(Hid, msg) /\ Sign(Hid, msg) \in Signatures
    BY SignatureType DEF Verify
  <1>2. record.signature # None /\ record.signature.signer = Hid /\ record.signature.msg = msg
    BY <1>1, NoneAssumption DEF Sign
  <1>3. QED
    BY <1>2 DEF AuthenticRecords, Authentic

\* Which of the server's messages a label stands for.
LEMMA LabelsApart ==
    ASSUME TypeOK
    PROVE  /\ \A env : SignedByServer(buffered_message(ctx, env)) =>
                /\ strategy = "buffer_and_sign" /\ finalized
                /\ env = aead_encrypt(Hid, 0, buffer)
           /\ \A n, env : SignedByServer(chunk_message(ctx, n, env)) =>
                \E i \in 1..Len(flushed) : n = i - 1 /\ env = aead_encrypt(Hid, i, flushed[i])
           /\ \A n : SignedByServer(end_message(ctx, n)) => 
                strategy = "per_chunk" /\ finalized /\ n = Len(flushed)
           /\ \A n, hash : SignedByServer(checkpoint_message(ctx, n, hash)) =>
                \E i \in 1..Len(flushed) : n = i - 1 /\ hash = ChainOf(Hid, flushed, i)
           /\ \A n, hash : SignedByServer(final_chain_message(ctx, n, hash)) =>
                finalized /\ n = Len(flushed) /\ hash = ChainOf(Hid, flushed, Len(flushed))
  BY DEF SignedByServer, Message, buffered_message, chunk_message, end_message,
         checkpoint_message, final_chain_message

\* Counting modulo the checkpoint interval.
LEMMA DivMod ==
    ASSUME NEW n \in Nat, NEW d \in Nat, d > 0
    PROVE  n = d * (n \div d) + (n % d) /\ n \div d \in Nat /\ n % d \in 0..(d - 1)
  OBVIOUS

LEMMA ModUnique ==
    ASSUME NEW n \in Nat, NEW d \in Nat, d > 0, NEW q \in Nat, NEW r \in 0..(d - 1), n = d * q + r
    PROVE  n % d = r
  <1> DEFINE a == n \div d
             b == n % d
  <1>1. a \in Nat /\ b \in 0..(d - 1) /\ d * a + b = d * q + r
    BY DivMod
  <1> HIDE DEF a, b
  <1>2. CASE a = q
    BY <1>1, <1>2 DEF b
  <1>3. CASE a < q
    <2>1. d * (q - a) >= d
      BY <1>1, <1>3
    <2>2. d * (q - a) = d * q - d * a
      BY <1>1
    <2>3. QED
      BY <1>1, <2>1, <2>2
  <1>4. CASE a > q
    <2>1. d * (a - q) >= d
      BY <1>1, <1>4
    <2>2. d * (a - q) = d * a - d * q
      BY <1>1
    <2>3. QED
      BY <1>1, <2>1, <2>2
  <1>5. QED
    BY <1>1, <1>2, <1>3, <1>4

LEMMA ModStep ==
    ASSUME NEW n \in Nat, NEW d \in Nat, d > 0
    PROVE  (n + 1) % d = IF (n % d) + 1 = d THEN 0 ELSE (n % d) + 1
  <1> DEFINE q == n \div d
             r == n % d
  <1>1. q \in Nat /\ r \in 0..(d - 1) /\ n = d * q + r
    BY DivMod
  <1> HIDE DEF q, r
  <1>2. CASE r + 1 = d
    <2>1. n + 1 = d * (q + 1) + 0
      BY <1>1, <1>2
    <2>2. QED
      BY <1>1, <1>2, <2>1, ModUnique DEF r
  <1>3. CASE r + 1 # d
    <2>1. n + 1 = d * q + (r + 1) /\ r + 1 \in 0..(d - 1)
      BY <1>1, <1>3
    <2>2. (n + 1) % d = r + 1
      BY <1>1, <2>1, ModUnique
    <2>3. QED
      BY <1>3, <2>2 DEF r
  <1>4. QED
    BY <1>2, <1>3

\* A step that reads a record and leaves the verdict alone.
LEMMA VerdictStable ==
    ASSUME Inv, Grows, UNCHANGED terminal_seen,
           metrics'.stream_fully_verified = metrics.stream_fully_verified,
           metrics'.all_signatures_valid => metrics.all_signatures_valid,
           metrics'.all_aead_ok => metrics.all_aead_ok,
           \/ UNCHANGED reconstructed
           \/ \E text \in Seq(Nat) : reconstructed' = Append(reconstructed, text)
    PROVE  VerdictInv'
  <1>1. Complete => Complete'
    BY CompleteStable DEF Inv
  <1>2. QED
    BY <1>1 DEF VerdictInv, VerifiedMeansComplete, Complete, Inv

LEMMA ExtendCases ==
    ASSUME NEW text, NEW piece
    PROVE  Extend(text, piece) = text \/ Extend(text, piece) = Append(text, piece)
  BY DEF Extend

LEMMA InvOnPerChunk ==
    ASSUME Inv, Grows, NEW record \in AuthenticRecords, OnPerChunk(record)
    PROVE  /\ AcceptedPrefix' /\ BufferInv' /\ ChainInv'
           /\ VerdictInv' /\ CoveredIsGenuine' /\ ExposureInv'
  <1>1. /\ TypeOK /\ strategy = "per_chunk" /\ strategy' = strategy
        /\ record.kind = "chunk" /\ UNCHANGED <<flushed, terminal_seen>>
        /\ expected_index' = expected_index + 1 /\ expected_index \in Nat
    BY RequestFixed DEF Inv, Grows, OnPerChunk, Read, serverVars, TypeOK
  <1>2. record.env \in Envelopes /\ record.n \in Nat
    BY <1>1 DEF AuthenticRecords, Records
  <1> DEFINE result == verify_per_chunk(record, expected_index)
             covers == result.signature_valid /\ result.in_order
  <1>3. /\ result.signature_valid = Verify(Hid, chunk_message(ctx, record.n, record.env), record.signature)
        /\ result.in_order = (record.n = expected_index)
        /\ result.aead_ok = (result.signature_valid /\ Decrypts(Hid, record.env))
    BY DEF verify_per_chunk
  <1> HIDE DEF result
  <1>4. /\ metrics' = [metrics EXCEPT
              !.all_signatures_valid = @ /\ result.signature_valid,
              !.all_aead_ok = @ /\ result.aead_ok,
              !.all_in_order = @ /\ result.in_order,
              !.n_signatures = @ + 1,
              !.max_unverified_chunks = IF covers THEN Larger(@, pending + 1) ELSE @]
        /\ pending' = (IF covers THEN 0 ELSE pending + 1)
        /\ reconstructed' = (IF result.aead_ok THEN Extend(reconstructed, record.env.text)
                             ELSE reconstructed)
    BY DEF OnPerChunk, result
  <1>5. /\ metrics'.stream_fully_verified = metrics.stream_fully_verified
        /\ metrics'.all_signatures_valid = (metrics.all_signatures_valid /\ result.signature_valid)
        /\ metrics'.all_aead_ok = (metrics.all_aead_ok /\ result.aead_ok)
        /\ metrics'.all_in_order = (metrics.all_in_order /\ result.in_order)
    BY <1>1, <1>4 DEF TypeOK, Metrics
  <1>6. AcceptedPrefix'
    <2>1. SUFFICES ASSUME metrics'.all_signatures_valid, metrics'.all_in_order
                   PROVE  /\ pending' = 0 /\ expected_index' <= Len(flushed)
                          /\ reconstructed' = SubSeq(flushed, 1, expected_index')
      BY <1>1 DEF AcceptedPrefix
    <2>2. /\ metrics.all_signatures_valid /\ metrics.all_in_order
          /\ result.signature_valid /\ record.n = expected_index
      BY <1>3, <1>5, <2>1
    <2>3. /\ reconstructed = SubSeq(flushed, 1, expected_index) /\ expected_index <= Len(flushed)
      BY <1>1, <2>2 DEF Inv, AcceptedPrefix
    <2>4. chunk_message(ctx, record.n, record.env) \in Messages
      BY <1>2, MessageTypes, ContextTypes DEF ctx, Hashes
    <2>5. SignedByServer(chunk_message(ctx, record.n, record.env))
      BY <1>3, <2>2, <2>4, VerifiedIsSigned
    <2>6. PICK i \in 1..Len(flushed) : record.n = i - 1 /\ record.env = aead_encrypt(Hid, i, flushed[i])
      BY <1>1, <2>5, LabelsApart
    <2>7. record.env.text = flushed[i] /\ record.env.key = Hid /\ i = expected_index + 1
      BY <1>1, <2>2, <2>6 DEF aead_encrypt
    <2>8. flushed \in Seq(Seq(Nat)) /\ flushed[i] # <<>>
      BY <1>1 DEF Inv, ServerInv, TypeOK
    <2>9. reconstructed' = Append(SubSeq(flushed, 1, expected_index), flushed[expected_index + 1])
      BY <1>3, <1>4, <2>2, <2>3, <2>7, <2>8 DEF Extend, Decrypts
    <2>10. Append(SubSeq(flushed, 1, expected_index), flushed[expected_index + 1])
             = SubSeq(flushed, 1, expected_index + 1)
      BY <1>1, <2>7, <2>8
    <2>11. pending' = 0
      BY <1>3, <1>4, <2>2
    <2>12. QED
      BY <1>1, <2>7, <2>9, <2>10, <2>11
  <1>7. VerdictInv'
    <2>1. record.env.text \in Seq(Nat)
      BY <1>2 DEF Envelopes
    <2>2. \/ UNCHANGED reconstructed
          \/ reconstructed' = Append(reconstructed, record.env.text)
      BY <1>4, ExtendCases
    <2>3. QED
      BY <1>1, <1>5, <2>1, <2>2, VerdictStable
  <1>8. BufferInv' /\ ChainInv' /\ CoveredIsGenuine' /\ ExposureInv'
    BY <1>1 DEF BufferInv, ChainInv, CoveredIsGenuine, ExposureInv
  <1>9. QED
    BY <1>6, <1>7, <1>8

LEMMA InvOnFinalBuffered ==
    ASSUME Inv, Grows, NEW record \in AuthenticRecords, OnFinalBuffered(record)
    PROVE  /\ AcceptedPrefix' /\ BufferInv' /\ ChainInv'
           /\ VerdictInv' /\ CoveredIsGenuine' /\ ExposureInv'
  <1>1. /\ TypeOK /\ strategy' = strategy /\ k' = k
        /\ record.kind = "final_buffered" /\ UNCHANGED <<flushed, buffer, finalized>>
        /\ UNCHANGED <<chain_state, expected_index, pending>>
    BY RequestFixed DEF Inv, Grows, OnFinalBuffered, Read, serverVars
  <1>2. record.env \in Envelopes /\ record.env.text \in Seq(Nat)
    BY <1>1 DEF AuthenticRecords, Records, Envelopes
  <1> DEFINE result == verify_buffer_and_sign_final(record)
  <1>3. /\ result.signature_valid = Verify(Hid, buffered_message(ctx, record.env), record.signature)
        /\ result.aead_ok = (result.signature_valid /\ Decrypts(Hid, record.env))
    BY DEF verify_buffer_and_sign_final
  <1> HIDE DEF result
  <1>4. /\ metrics' = [metrics EXCEPT
              !.all_signatures_valid = @ /\ result.signature_valid,
              !.all_aead_ok = @ /\ result.aead_ok,
              !.n_signatures = @ + 1]
        /\ reconstructed' = (IF result.aead_ok THEN Extend(reconstructed, record.env.text)
                             ELSE reconstructed)
    BY DEF OnFinalBuffered, result
  <1>5. /\ metrics'.stream_fully_verified = metrics.stream_fully_verified
        /\ metrics'.all_signatures_valid = (metrics.all_signatures_valid /\ result.signature_valid)
        /\ metrics'.all_aead_ok = (metrics.all_aead_ok /\ result.aead_ok)
        /\ metrics'.all_in_order = metrics.all_in_order
        /\ metrics'.max_unverified_chunks = metrics.max_unverified_chunks
    BY <1>1, <1>4 DEF TypeOK, Metrics
  <1>6. ASSUME result.signature_valid
        PROVE  strategy = "buffer_and_sign" /\ finalized /\ record.env = aead_encrypt(Hid, 0, buffer)
    <2>1. buffered_message(ctx, record.env) \in Messages
      BY <1>2, MessageTypes, ContextTypes DEF ctx, Hashes
    <2>2. SignedByServer(buffered_message(ctx, record.env))
      BY <1>3, <1>6, <2>1, VerifiedIsSigned
    <2>3. QED
      BY <1>1, <2>2, LabelsApart
  <1>7. \/ UNCHANGED reconstructed
        \/ reconstructed' = Append(reconstructed, record.env.text)
    BY <1>4, ExtendCases
  <1>8. Complete => Complete'
    BY <1>1, <1>2, <1>7, CompleteStable
  <1>9. ASSUME strategy = "buffer_and_sign", result.signature_valid
        PROVE  Complete'
    <2>1. finalized' /\ record.env.text = buffer /\ record.env.key = Hid
      BY <1>1, <1>6, <1>9 DEF aead_encrypt
    <2>2. reconstructed' = Extend(reconstructed, buffer)
      BY <1>3, <1>4, <1>9, <2>1 DEF Decrypts
    <2>3. Genuine' = Extend(<<>>, buffer)
      BY <1>1, <1>9 DEF Genuine, Extend
    <2>4. CASE Complete
      BY <1>8, <2>4
    <2>5. CASE reconstructed = <<>>
      <3>1. Extend(<<>>, buffer) \in Seq(Seq(Nat))
        BY <1>1 DEF Extend, TypeOK
      <3>2. IsPrefix(Genuine', reconstructed')
        BY <2>2, <2>3, <2>5, <3>1, PrefixSelf
      <3>3. QED
        BY <2>1, <3>2 DEF Complete
    <2>6. QED
      BY <1>9, <2>4, <2>5 DEF Inv, BufferInv
  <1>10. AcceptedPrefix'
    <2>1. CASE result.signature_valid
      BY <1>1, <1>6, <2>1 DEF AcceptedPrefix
    <2>2. CASE ~result.signature_valid
      BY <1>5, <2>2 DEF AcceptedPrefix
    <2>3. QED
      BY <2>1, <2>2
  <1>11. BufferInv'
    <2>1. CASE result.signature_valid
      BY <1>1, <1>9, <2>1 DEF BufferInv
    <2>2. CASE ~result.signature_valid
      BY <1>1, <1>3, <1>4, <1>8, <2>2 DEF BufferInv, Inv
    <2>3. QED
      BY <2>1, <2>2
  <1>12. ChainInv'
    <2>1. SUFFICES ASSUME strategy = "hash_chain" PROVE ChainInv'
      BY <1>1 DEF ChainInv
    <2>2. UNCHANGED reconstructed
      BY <1>3, <1>4, <1>6, <2>1
    <2>3. QED
      BY <1>1, <2>2 DEF ChainInv, Inv
  <1>13. VerdictInv'
    <2>1. metrics'.stream_fully_verified = TRUE => Complete'
      BY <1>5, <1>8 DEF Inv, VerdictInv, VerifiedMeansComplete, Complete
    <2>2. metrics'.all_signatures_valid => Complete'
      BY <1>5, <1>6, <1>9
    <2>3. QED
      BY <2>1, <2>2 DEF VerdictInv, VerifiedMeansComplete, Complete
  <1>14. CoveredIsGenuine'
    BY <1>1 DEF CoveredIsGenuine, Inv
  <1>15. ExposureInv'
    BY <1>1, <1>5 DEF ExposureInv, Inv
  <1>16. QED
    BY <1>10, <1>11, <1>12, <1>13, <1>14, <1>15

LEMMA InvOnChainChunk ==
    ASSUME Inv, Grows, NEW record \in AuthenticRecords, OnChainChunk(record)
    PROVE  /\ AcceptedPrefix' /\ BufferInv' /\ ChainInv'
           /\ VerdictInv' /\ CoveredIsGenuine' /\ ExposureInv'
  <1>1. /\ TypeOK /\ strategy = "hash_chain" /\ strategy' = strategy /\ k' = k /\ k \in Nat
        /\ record.kind = "chunk" /\ UNCHANGED <<flushed, terminal_seen>>
        /\ chain_state' = ChainAbsorb(chain_state, record)
    BY RequestTypes, RequestFixed DEF Inv, Grows, OnChainChunk, Read, serverVars, TypeOK
  <1>2. record.env \in Envelopes /\ record.n \in Nat /\ record.env.text \in Seq(Nat)
    BY <1>1 DEF AuthenticRecords, Records, Envelopes
  <1> DEFINE result == verify_hash_chain_chunk(record, chain_state', k)
             hash == absorb(chain_state.running_hash, record.n, record.env)
             links == chain_state.running_hash.links
             link == [index |-> record.n, env |-> record.env]
             L == [index: Nat, env: Envelopes]
             n == chain_state.n_absorbed
  <1>3. /\ hash \in Hashes /\ chain_state' = [running_hash |-> hash, n_absorbed |-> n + 1]
        /\ n \in Nat /\ links \in Seq(L) /\ link \in L
        /\ hash.gen = chain_state.running_hash.gen /\ hash.links = Append(links, link)
    <2>1. chain_state.running_hash \in Hashes /\ n \in Nat
      BY <1>1 DEF TypeOK
    <2>2. hash \in Hashes
      BY <1>2, <2>1, AbsorbType
    <2>3. QED
      BY <1>1, <1>2, <2>1, <2>2 DEF ChainAbsorb, absorb, Hashes
  <1>4. /\ chain_state.running_hash.gen = genesis_hash(Hid).gen /\ Len(links) = n
        /\ (\A i \in 1..n : links[i].env.key = Hid /\ links[i].env.text # <<>>) =>
              reconstructed = [i \in 1..n |-> links[i].env.text]
    BY <1>1 DEF Inv, ChainInv
  <1> HIDE DEF result, hash, links, link, L, n
  <1>5. /\ hash.links \in Seq(L) /\ Len(hash.links) = n + 1 /\ hash.links[n + 1] = link
        /\ \A i \in 1..n : hash.links[i] = links[i]
    BY <1>3, <1>4, AppendProperties
  <1>6. chain_state'.running_hash = hash /\ chain_state'.n_absorbed = n + 1
    BY <1>3
  <1>7. /\ result.checkpoint = (record.signature # None)
        /\ result.checkpoint_missing = (k > 0 /\ (n + 1) % k = 0 /\ ~(record.signature # None))
        /\ result.checkpoint_valid = (/\ record.signature # None
               /\ Verify(Hid, checkpoint_message(ctx, record.n, hash), record.signature))
        /\ result.aead_ok = Decrypts(Hid, record.env)
    BY <1>6 DEF verify_hash_chain_chunk, result
  <1>8. /\ metrics' = [metrics EXCEPT
              !.all_aead_ok = @ /\ result.aead_ok,
              !.all_signatures_valid = @ /\ ~result.checkpoint_missing
                                         /\ (result.checkpoint => result.checkpoint_valid),
              !.n_signatures = IF result.checkpoint THEN @ + 1 ELSE @,
              !.max_unverified_chunks =
                  IF result.checkpoint_valid THEN Larger(@, pending + 1) ELSE @]
        /\ pending' = (IF result.checkpoint_valid THEN 0 ELSE pending + 1)
        /\ reconstructed' = (IF result.aead_ok THEN Extend(reconstructed, record.env.text)
                             ELSE reconstructed)
    BY DEF OnChainChunk, result
  <1>9. /\ metrics'.stream_fully_verified = metrics.stream_fully_verified
        /\ metrics'.all_aead_ok = (metrics.all_aead_ok /\ result.aead_ok)
        /\ metrics'.all_signatures_valid = (/\ metrics.all_signatures_valid
              /\ ~result.checkpoint_missing /\ (result.checkpoint => result.checkpoint_valid))
        /\ metrics'.max_unverified_chunks = (IF result.checkpoint_valid
              THEN Larger(metrics.max_unverified_chunks, pending + 1)
              ELSE metrics.max_unverified_chunks)
    BY <1>1, <1>8 DEF TypeOK, Metrics
  <1>10. ASSUME result.checkpoint_valid
         PROVE  \E i \in 1..Len(flushed) : hash = ChainOf(Hid, flushed, i)
    <2>1. checkpoint_message(ctx, record.n, hash) \in Messages
      BY <1>2, <1>3, MessageTypes DEF ctx
    <2>2. SignedByServer(checkpoint_message(ctx, record.n, hash))
      BY <1>7, <1>10, <2>1, VerifiedIsSigned
    <2>3. QED
      BY <1>1, <2>2, LabelsApart
  <1>11. ChainInv'
    <2>1. SUFFICES ASSUME \A i \in 1..(n + 1) : hash.links[i].env.key = Hid
                                                /\ hash.links[i].env.text # <<>>
                   PROVE  reconstructed' = [i \in 1..(n + 1) |-> hash.links[i].env.text]
      BY <1>3, <1>4, <1>5, <1>6 DEF ChainInv
    <2> DEFINE shown == [i \in 1..n |-> links[i].env.text]
               all == [i \in 1..(n + 1) |-> hash.links[i].env.text]
    <2>2. \A i \in 1..n : links[i].env.key = Hid /\ links[i].env.text # <<>>
      BY <1>3, <1>5, <2>1
    <2>3. record.env.key = Hid /\ record.env.text # <<>>
      BY <1>3, <1>5, <2>1 DEF link
    <2>4. reconstructed' = Append(shown, record.env.text)
      BY <1>4, <1>7, <1>8, <2>2, <2>3 DEF Extend, Decrypts
    <2>5. shown \in Seq(Seq(Nat)) /\ Len(shown) = n /\ \A i \in 1..n : shown[i] = links[i].env.text
      <3>1. ASSUME NEW i \in 1..n PROVE links[i].env.text \in Seq(Nat)
        <4>1. links[i] \in L
          BY <1>3, <1>4, ElementOfSeq
        <4>2. QED
          BY <4>1 DEF L, Envelopes
      <3>2. shown \in Seq(Seq(Nat))
        BY <1>3, <3>1
      <3>3. QED
        BY <1>3, <3>2
    <2>6. /\ all \in Seq(Seq(Nat)) /\ Len(all) = n + 1
          /\ \A i \in 1..(n + 1) : all[i] = hash.links[i].env.text
      <3>1. ASSUME NEW i \in 1..(n + 1) PROVE hash.links[i].env.text \in Seq(Nat)
        <4>1. hash.links[i] \in L
          BY <1>5, ElementOfSeq
        <4>2. QED
          BY <4>1 DEF L, Envelopes
      <3>2. all \in [1..(n + 1) -> Seq(Nat)]
        BY <3>1, Zenon
      <3>3. \A i \in 1..(n + 1) : all[i] = hash.links[i].env.text
        BY Zenon
      <3> HIDE DEF all
      <3>4. n + 1 \in Nat
        BY <1>3
      <3>5. QED
        BY <3>2, <3>3, <3>4, FunctionSeq
    <2> HIDE DEF shown, all
    <2>7. /\ Append(shown, record.env.text) \in Seq(Seq(Nat))
          /\ Len(Append(shown, record.env.text)) = n + 1
          /\ \A i \in 1..n : Append(shown, record.env.text)[i] = links[i].env.text
          /\ Append(shown, record.env.text)[n + 1] = record.env.text
      BY <1>2, <1>3, <2>5, AppendProperties
    <2>8. \A i \in 1..(n + 1) : Append(shown, record.env.text)[i] = all[i]
      <3>1. \A i \in 1..(n + 1) : i \in 1..n \/ i = n + 1
        BY <1>3
      <3>2. \A i \in 1..n : i \in 1..(n + 1) /\ hash.links[i] = links[i]
        BY <1>3, <1>5
      <3>3. n + 1 \in 1..(n + 1) /\ hash.links[n + 1].env = record.env
        BY <1>3, <1>5 DEF link
      <3>4. QED
        BY <2>6, <2>7, <3>1, <3>2, <3>3
    <2>9. Append(shown, record.env.text) = all
      BY <2>6, <2>7, <2>8, SeqEqual
    <2>10. QED
      BY <2>4, <2>9 DEF all
  <1>12. VerdictInv'
    <2>1. \/ UNCHANGED reconstructed
          \/ reconstructed' = Append(reconstructed, record.env.text)
      BY <1>8, ExtendCases
    <2>2. QED
      BY <1>1, <1>2, <1>9, <2>1, VerdictStable
  <1>13. CoveredIsGenuine'
    <2>1. CASE result.checkpoint_valid
      <3>1. PICK i \in 1..Len(flushed) : hash = ChainOf(Hid, flushed, i)
        BY <1>10, <2>1
      <3>2. /\ Len(flushed) \in Nat /\ Len(hash.links) = i
            /\ \A j \in 1..i : hash.links[j] = Link(Hid, flushed, j)
        BY <1>1, <3>1 DEF ChainOf, TypeOK
      <3>3. n + 1 - 0 = i /\ pending' = 0
        BY <1>3, <1>5, <1>8, <2>1, <3>2
      <3>4. QED
        BY <1>1, <1>6, <3>2, <3>3 DEF CoveredIsGenuine
    <2>2. CASE ~result.checkpoint_valid
      <3>1. /\ n - pending \in 0..Len(flushed)
            /\ \A i \in 1..(n - pending) : links[i] = Link(Hid, flushed, i)
        BY <1>1 DEF Inv, CoveredIsGenuine, n, links
      <3>2. pending \in Nat /\ pending' = pending + 1 /\ n + 1 - pending' = n - pending
        <4>1. pending' = pending + 1
          BY <1>8, <2>2
        <4>2. pending \in Nat
          BY <1>1 DEF TypeOK
        <4>3. QED
          BY <1>3, <4>1, <4>2
      <3>3. \A i \in 1..(n - pending) : hash.links[i] = Link(Hid, flushed, i)
        BY <1>3, <1>5, <3>1, <3>2
      <3>4. chain_state'.n_absorbed - pending' = n - pending
        BY <1>3, <1>6, <3>2
      <3>5. QED
        BY <1>1, <1>6, <3>1, <3>3, <3>4 DEF CoveredIsGenuine
    <2>3. QED
      BY <2>1, <2>2
  <1>14. ExposureInv'
    <2>1. SUFFICES ASSUME k > 0, metrics'.all_signatures_valid
                   PROVE  pending' <= (n + 1) % k /\ metrics'.max_unverified_chunks <= k
      BY <1>1, <1>6 DEF ExposureInv
    <2>2. /\ metrics.all_signatures_valid /\ ~result.checkpoint_missing
          /\ (result.checkpoint => result.checkpoint_valid)
      BY <1>9, <2>1
    <2>3. pending <= n % k /\ metrics.max_unverified_chunks <= k
      BY <1>1, <2>1, <2>2 DEF Inv, ExposureInv, n
    <2>4. /\ pending \in Nat /\ metrics.max_unverified_chunks \in Nat
          /\ n % k \in 0..(k - 1) /\ (n + 1) % k \in 0..(k - 1)
      BY <1>1, <1>3, <2>1, DivMod DEF TypeOK, Metrics
    <2>5. CASE result.checkpoint_valid
      <3>1. pending' = 0
            /\ metrics'.max_unverified_chunks = Larger(metrics.max_unverified_chunks, pending + 1)
        BY <1>8, <1>9, <2>5
      <3>2. QED
        BY <1>1, <2>3, <2>4, <3>1 DEF Larger
    <2>6. CASE ~result.checkpoint_valid
      <3>1. (n + 1) % k # 0
        BY <1>7, <2>1, <2>2, <2>6
      <3>2. (n + 1) % k = (n % k) + 1
        BY <1>1, <1>3, <2>1, <3>1, ModStep
      <3>3. pending' = pending + 1 /\ metrics'.max_unverified_chunks = metrics.max_unverified_chunks
        BY <1>8, <1>9, <2>6
      <3>4. QED
        BY <2>3, <2>4, <3>2, <3>3
    <2>7. QED
      BY <2>5, <2>6
  <1>15. AcceptedPrefix' /\ BufferInv'
    BY <1>1 DEF AcceptedPrefix, BufferInv
  <1>16. QED
    BY <1>11, <1>12, <1>13, <1>14, <1>15

LEMMA InvOnFinalPerChunk ==
    ASSUME Inv, Grows, NEW record \in AuthenticRecords, OnFinalPerChunk(record)
    PROVE  /\ AcceptedPrefix' /\ BufferInv' /\ ChainInv'
           /\ VerdictInv' /\ CoveredIsGenuine' /\ ExposureInv'
  <1>1. /\ TypeOK /\ strategy' = strategy /\ k' = k /\ UNCHANGED <<flushed, buffer, finalized>>
        /\ UNCHANGED <<chain_state, expected_index, reconstructed, pending>>
    BY RequestFixed DEF Inv, Grows, OnFinalPerChunk, Read, serverVars
  <1> DEFINE verified == /\ verify_per_chunk_final(record, expected_index)
                         /\ metrics.all_signatures_valid /\ metrics.all_aead_ok
                         /\ metrics.all_in_order
  <1>2. verified \in BOOLEAN
    BY <1>1 DEF verify_per_chunk_final, Verify, TypeOK, Metrics
  <1>3. metrics' = [metrics EXCEPT !.stream_fully_verified = verified, !.n_signatures = @ + 1]
    BY DEF OnFinalPerChunk
  <1>4. /\ metrics'.stream_fully_verified = verified
        /\ metrics'.all_signatures_valid = metrics.all_signatures_valid
        /\ metrics'.all_in_order = metrics.all_in_order
        /\ metrics'.max_unverified_chunks = metrics.max_unverified_chunks
    BY <1>1, <1>3 DEF TypeOK, Metrics
  <1>5. ASSUME verified
        PROVE  Complete'
    <2>1. /\ Verify(Hid, end_message(ctx, record.n), record.signature)
          /\ record.n = expected_index
      BY <1>5 DEF verify_per_chunk_final
    <2>2. record.n \in Nat /\ end_message(ctx, record.n) \in Messages
      <3>1. record.n \in Nat
        BY DEF AuthenticRecords, Records
      <3>2. <<>> \in Seq(Envelopes)
        OBVIOUS
      <3>3. QED
        BY <3>1, <3>2 DEF end_message, Message, Messages, ctx
    <2>3. SignedByServer(end_message(ctx, record.n))
      BY <2>1, <2>2, VerifiedIsSigned
    <2>4. strategy = "per_chunk" /\ finalized /\ record.n = Len(flushed)
      BY <1>1, <2>3, LabelsApart
    <2>5. reconstructed = SubSeq(flushed, 1, Len(flushed))
      BY <1>5, <2>1, <2>4 DEF Inv, AcceptedPrefix
    <2>6. flushed \in Seq(Seq(Nat)) /\ reconstructed = flushed
      BY <1>1, <2>5, SubSeqFull DEF TypeOK
    <2>7. Genuine' = flushed
      BY <1>1, <2>4 DEF Genuine
    <2>8. QED
      BY <1>1, <2>4, <2>6, <2>7, PrefixSelf DEF Complete
  <1> HIDE DEF verified
  <1>6. AcceptedPrefix'
    BY <1>1, <1>4 DEF AcceptedPrefix, Inv
  <1>7. BufferInv'
    BY <1>1, CompleteStable DEF BufferInv, Inv
  <1>8. ChainInv' /\ CoveredIsGenuine'
    BY <1>1 DEF ChainInv, CoveredIsGenuine, Inv
  <1>9. VerdictInv'
    <2>1. metrics'.stream_fully_verified # None
      BY <1>2, <1>4, DistinctIds
    <2>2. metrics'.stream_fully_verified = TRUE => Complete'
      BY <1>4, <1>5
    <2>3. QED
      BY <2>1, <2>2 DEF VerdictInv, VerifiedMeansComplete, Complete
  <1>10. ExposureInv'
    BY <1>1, <1>4 DEF ExposureInv, Inv
  <1>11. QED
    BY <1>6, <1>7, <1>8, <1>9, <1>10

LEMMA InvOnFinalChain ==
    ASSUME Inv, Grows, NEW record \in AuthenticRecords, OnFinalChain(record)
    PROVE  /\ AcceptedPrefix' /\ BufferInv' /\ ChainInv'
           /\ VerdictInv' /\ CoveredIsGenuine' /\ ExposureInv'
  <1>1. /\ TypeOK /\ strategy = "hash_chain" /\ strategy' = strategy /\ k' = k /\ k \in Nat
        /\ UNCHANGED <<flushed, buffer, finalized>> /\ UNCHANGED <<chain_state, reconstructed>>
    BY RequestFixed, RequestTypes DEF Inv, Grows, OnFinalChain, Read, serverVars, TypeOK
  <1> DEFINE verified == verify_hash_chain_final(record, chain_state)
             hash == chain_state.running_hash
             n == chain_state.n_absorbed
  <1>2. verified = (/\ record.chain = hash /\ record.n = n
                    /\ Verify(Hid, final_chain_message(ctx, n, hash), record.signature))
    BY DEF verify_hash_chain_final
  <1>3. hash \in Hashes /\ n \in Nat /\ pending \in Nat /\ flushed \in Seq(Seq(Nat))
        /\ Len(flushed) \in Nat
    BY <1>1 DEF TypeOK
  <1> HIDE DEF verified, hash, n
  <1>4. /\ metrics' = [metrics EXCEPT
              !.stream_fully_verified = verified,
              !.n_signatures = @ + 1,
              !.max_unverified_chunks = IF verified THEN Larger(@, pending) ELSE @]
        /\ pending' = (IF verified THEN 0 ELSE pending)
    BY DEF OnFinalChain, verified
  <1>5. /\ metrics'.stream_fully_verified = verified
        /\ metrics'.all_signatures_valid = metrics.all_signatures_valid
        /\ metrics'.max_unverified_chunks =
             (IF verified THEN Larger(metrics.max_unverified_chunks, pending)
              ELSE metrics.max_unverified_chunks)
    BY <1>1, <1>4 DEF TypeOK, Metrics
  <1>6. ASSUME verified
        PROVE  finalized /\ n = Len(flushed) /\ hash = ChainOf(Hid, flushed, Len(flushed))
    <2>1. final_chain_message(ctx, n, hash) \in Messages
      <3>1. <<hash>> \in Seq(Hashes)
        BY <1>3
      <3>2. QED
        BY <1>3, <3>1 DEF final_chain_message, Message, Messages, ctx
    <2>2. SignedByServer(final_chain_message(ctx, n, hash))
      BY <1>2, <1>6, <2>1, VerifiedIsSigned
    <2>3. QED
      BY <1>1, <2>2, LabelsApart
  <1>7. ASSUME verified
        PROVE  /\ Len(hash.links) = Len(flushed)
               /\ \A i \in 1..Len(flushed) : hash.links[i] = Link(Hid, flushed, i)
    BY <1>3, <1>6, <1>7 DEF ChainOf
  <1>8. ASSUME verified
        PROVE  Complete'
    <2>1. \A i \in 1..Len(flushed) : /\ hash.links[i].env.key = Hid
                                     /\ hash.links[i].env.text = flushed[i]
                                     /\ flushed[i] # <<>>
      <3>1. \A i \in 1..Len(flushed) : hash.links[i] = Link(Hid, flushed, i)
        BY <1>7, <1>8
      <3>2. \A i \in 1..Len(flushed) : flushed[i] # <<>>
        BY DEF Inv, ServerInv
      <3>3. \A i : /\ Link(Hid, flushed, i).env.key = Hid
                    /\ Link(Hid, flushed, i).env.text = flushed[i]
        BY DEF Link, aead_encrypt
      <3>4. QED
        BY <3>1, <3>2, <3>3
    <2>2. reconstructed = [i \in 1..Len(flushed) |-> hash.links[i].env.text]
      BY <1>1, <1>7, <1>8, <2>1 DEF Inv, ChainInv, hash
    <2>3. reconstructed = flushed
      BY <1>3, <2>1, <2>2
    <2>4. Genuine' = flushed
      BY <1>1 DEF Genuine
    <2>5. QED
      BY <1>1, <1>3, <1>6, <1>8, <2>3, <2>4, PrefixSelf DEF Complete
  <1>9. VerdictInv'
    <2>1. verified \in BOOLEAN
      BY <1>2 DEF Verify
    <2>2. metrics'.stream_fully_verified # None
      BY <1>5, <2>1, DistinctIds
    <2>3. metrics'.stream_fully_verified = TRUE => Complete'
      BY <1>5, <1>8
    <2>4. QED
      BY <2>2, <2>3 DEF VerdictInv, VerifiedMeansComplete, Complete
  <1>10. CoveredIsGenuine'
    <2>1. CASE verified
      <3>1. chain_state'.n_absorbed - pending' = Len(flushed)
        BY <1>1, <1>3, <1>4, <1>6, <2>1 DEF n
      <3>2. Len(flushed) \in 0..Len(flushed) /\ Len(flushed') = Len(flushed)
        BY <1>1, <1>3
      <3>3. \A i \in 1..Len(flushed) : chain_state.running_hash.links[i] = Link(Hid, flushed, i)
        BY <1>7, <2>1 DEF hash
      <3>4. \A i \in 1..Len(flushed) : chain_state'.running_hash.links[i] = Link(Hid, flushed', i)
        BY <1>1, <3>3
      <3>5. QED
        BY <3>1, <3>2, <3>4 DEF CoveredIsGenuine
    <2>2. CASE ~verified
      BY <1>1, <1>4, <2>2 DEF CoveredIsGenuine, Inv
    <2>3. QED
      BY <2>1, <2>2
  <1>11. ExposureInv'
    <2>1. SUFFICES ASSUME k > 0, metrics.all_signatures_valid
                   PROVE  pending' <= n % k /\ metrics'.max_unverified_chunks <= k
      BY <1>1, <1>5 DEF ExposureInv, n
    <2>2. pending <= n % k /\ metrics.max_unverified_chunks <= k
      BY <1>1, <2>1 DEF Inv, ExposureInv, n
    <2>3. n % k \in 0..(k - 1) /\ metrics.max_unverified_chunks \in Nat
      BY <1>1, <1>3, <2>1, DivMod DEF TypeOK, Metrics
    <2>4. QED
      BY <1>1, <1>3, <1>4, <1>5, <2>2, <2>3 DEF Larger
  <1>12. ChainInv' /\ AcceptedPrefix' /\ BufferInv'
    BY <1>1 DEF ChainInv, AcceptedPrefix, BufferInv, Inv
  <1>13. QED
    BY <1>9, <1>10, <1>11, <1>12

LEMMA InvEndOfBody ==
    ASSUME Inv, Grows, EndOfBody
    PROVE  /\ AcceptedPrefix' /\ BufferInv' /\ ChainInv'
           /\ VerdictInv' /\ CoveredIsGenuine' /\ ExposureInv'
  <1>1. /\ TypeOK /\ strategy' = strategy /\ k' = k /\ UNCHANGED <<flushed, buffer, finalized>>
        /\ UNCHANGED <<chain_state, terminal_seen, expected_index, reconstructed, pending>>
    BY RequestFixed DEF Inv, Grows, EndOfBody, serverVars
  <1> DEFINE verdict == IF ~terminal_seen THEN FALSE
                        ELSE IF metrics.stream_fully_verified = None
                             THEN metrics.all_signatures_valid /\ metrics.all_aead_ok
                             ELSE metrics.stream_fully_verified
  <1>2. metrics' = [metrics EXCEPT !.stream_fully_verified = verdict]
    BY DEF EndOfBody
  <1>3. verdict \in BOOLEAN
    BY <1>1 DEF TypeOK, Metrics
  <1>4. verdict = TRUE => Complete
    BY <1>1 DEF Inv, VerdictInv, VerifiedMeansComplete, Complete
  <1> HIDE DEF verdict
  <1>5. /\ metrics'.stream_fully_verified = verdict
        /\ metrics'.all_signatures_valid = metrics.all_signatures_valid
        /\ metrics'.all_in_order = metrics.all_in_order
        /\ metrics'.max_unverified_chunks = metrics.max_unverified_chunks
    BY <1>1, <1>2 DEF TypeOK, Metrics
  <1>6. Complete => Complete'
    BY <1>1, CompleteStable
  <1>7. VerdictInv'
    BY <1>3, <1>4, <1>5, <1>6, DistinctIds DEF VerdictInv, VerifiedMeansComplete, Complete
  <1>8. AcceptedPrefix' /\ ExposureInv'
    BY <1>1, <1>5 DEF AcceptedPrefix, ExposureInv, Inv
  <1>9. BufferInv' /\ ChainInv' /\ CoveredIsGenuine'
    BY <1>1, <1>6 DEF BufferInv, ChainInv, CoveredIsGenuine, Inv
  <1>10. QED
    BY <1>7, <1>8, <1>9

-----------------------------------------------------------------------------
(***************************************************************************)
(* The invariant and what follows from it.                                 *)
(***************************************************************************)
\* A step that leaves the server alone leaves its side of the invariant alone.
LEMMA ServerIdle ==
    ASSUME Inv, UNCHANGED <<request, serverVars>>
    PROVE  Grows /\ ServerInv' /\ AuthenticRecords' = AuthenticRecords
  <1>1. UNCHANGED <<request, strategy, srv_pc, index, buffer, running_hash, flushed, finalized>>
    BY RequestFixed DEF serverVars
  <1>2. ServerInv' /\ Grows
    BY <1>1 DEF Inv, ServerInv, Grows
  <1>3. \A msg : SignedByServer(msg)' <=> SignedByServer(msg)
    BY <1>1 DEF SignedByServer, ctx
  <1>4. AuthenticRecords' = AuthenticRecords
    BY <1>3 DEF AuthenticRecords, Authentic
  <1>5. QED
    BY <1>2, <1>4

LEMMA InvStep == Inv /\ [Next]_vars => Inv'
  <1> SUFFICES ASSUME Inv, [Next]_vars PROVE Inv'
    OBVIOUS
  <1>1. TypeOK'
    BY TypeServerSteps, TypeClientSteps, TypeFaultSteps, TypeStutter DEF Inv, Next, Finished
  <1>2. wire \in Seq(AuthenticRecords)
    BY DEF Inv
  <1>3. CASE ServerNext
    <2>1. Grows /\ ServerInv' /\ wire' \in Seq(AuthenticRecords')
      BY <1>3, ServerStepGrows
    <2>2. UNCHANGED clientVars
      BY <1>3 DEF ServerNext, GenerateToken, EndGeneration, Finalize, SendDone, Forget, Cancelled,
         BackendFails
    <2>3. QED
      BY <1>1, <2>1, <2>2, ClientStable DEF Inv, clientVars
  <1>4. CASE FaultNext
    <2>1. UNCHANGED <<request, serverVars, clientVars>>
      BY <1>4 DEF FaultNext, Fault, Drop, Reorder, Duplicate, Replay, TamperCiphertext,
         TamperSignature, StripCheckpoint, MoveCheckpoint, Truncate
    <2>2. wire' \in Seq(AuthenticRecords)
      BY <1>2, <1>4, AuthenticClosed, FaultKeepsWire
    <2>3. QED
      BY <1>1, <2>1, <2>2, ServerIdle, ClientStable DEF Inv, clientVars
  <1>5. CASE wire # <<>> /\ OnRecord(Head(wire))
    <2>1. Read
      BY <1>5 DEF OnRecord, OnPerChunk, OnChainChunk, OnFinalBuffered, OnFinalPerChunk,
         OnFinalChain, OnIgnored, OnMalformed
    <2>2. Grows /\ ServerInv' /\ AuthenticRecords' = AuthenticRecords
      BY <2>1, ServerIdle DEF Read
    <2>3. Head(wire) \in AuthenticRecords /\ wire' \in Seq(AuthenticRecords)
      BY <1>2, <2>1, ReadKeepsWire
    <2>4. /\ AcceptedPrefix' /\ BufferInv' /\ ChainInv'
          /\ VerdictInv' /\ CoveredIsGenuine' /\ ExposureInv'
      <3>1. CASE OnIgnored(Head(wire)) \/ OnMalformed(Head(wire))
        BY <2>2, <3>1, ClientStable DEF OnIgnored, OnMalformed, clientVars
      <3>2. QED
        BY <1>5, <2>2, <2>3, <3>1, InvOnPerChunk, InvOnChainChunk, InvOnFinalBuffered,
           InvOnFinalPerChunk, InvOnFinalChain DEF OnRecord
    <2>5. QED
      BY <1>1, <2>2, <2>3, <2>4 DEF Inv
  <1>6. CASE EndOfBody
    <2>1. UNCHANGED <<request, serverVars, wire>>
      BY <1>6 DEF EndOfBody
    <2>2. QED
      BY <1>1, <1>2, <1>6, <2>1, ServerIdle, InvEndOfBody DEF Inv
  <1>7. CASE ReadError \/ UNCHANGED vars
    <2>1. /\ UNCHANGED <<request, serverVars, wire>>
          /\ UNCHANGED <<metrics, chain_state, terminal_seen, expected_index, reconstructed, pending>>
      BY <1>7 DEF ReadError, vars, clientVars
    <2>2. QED
      BY <1>1, <1>2, <2>1, ServerIdle, ClientStable DEF Inv
  <1>8. QED
    BY <1>3, <1>4, <1>5, <1>6, <1>7 DEF Next, ClientNext, Finished

\* Under every strategy, request and sequence of faults, the server's
\* signatures and what the client concludes from them agree.
THEOREM Invariance == Spec => []Inv
  BY InvInit, InvStep, PTL DEF Spec

\* A positive verdict means the server ended the stream and the client has its
\* whole text, in order and unaltered.
THEOREM VerdictSound == Spec => []VerifiedMeansComplete
  <1>1. Inv => VerifiedMeansComplete
    BY DEF Inv, VerdictInv
  <1>2. QED
    BY <1>1, Invariance, PTL

\* per_chunk: what is shown before a check fails is what the server signed.
THEOREM ShownIsSigned == Spec => []AcceptedPrefix
  <1>1. Inv => AcceptedPrefix
    BY DEF Inv
  <1>2. QED
    BY <1>1, Invariance, PTL

\* hash_chain: chunks counted as covered are the server's own.
THEOREM CoverageSound == Spec => []CoveredIsGenuine
  <1>1. Inv => CoveredIsGenuine
    BY DEF Inv
  <1>2. QED
    BY <1>1, Invariance, PTL

\* hash_chain with an interval: at most k chunks are ever shown uncovered
\* while no check has failed.
THEOREM ExposureSound == Spec => []ExposureBounded
  <1>1. Inv => ExposureBounded
    <2> SUFFICES ASSUME Inv, strategy = "hash_chain", k > 0, metrics.all_signatures_valid
                 PROVE  pending < k /\ metrics.max_unverified_chunks <= k
      BY DEF ExposureBounded
    <2>1. pending <= chain_state.n_absorbed % k /\ metrics.max_unverified_chunks <= k
      BY DEF Inv, ExposureInv
    <2>2. chain_state.n_absorbed \in Nat /\ k \in Nat /\ pending \in Nat
      BY RequestTypes DEF Inv, TypeOK
    <2>3. chain_state.n_absorbed % k \in 0..(k - 1)
      BY <2>2, DivMod
    <2>4. QED
      BY <2>1, <2>2, <2>3
  <1>2. QED
    BY <1>1, Invariance, PTL


-----------------------------------------------------------------------------

Accepted == Verdict = "accepted"

\* How many of the released chunks the client relies on.
ReliedCount ==
    IF Accepted THEN Len(Released)
    ELSE IF strategy = "per_chunk" THEN IF Sound THEN expected_index ELSE 0
    ELSE IF strategy = "hash_chain" THEN chain_state.n_absorbed - pending
    ELSE 0

-----------------------------------------------------------------------------
(***************************************************************************)
(* Prefixes of one sequence are told apart by their lengths.               *)
(***************************************************************************)
LEMMA SubSeqWhole ==
    ASSUME NEW S, NEW s \in Seq(S)
    PROVE  SubSeq(s, 1, Len(s)) = s /\ SubSeq(s, 1, 0) = <<>>
  OBVIOUS

LEMMA SubSeqPrefix ==
    ASSUME NEW S, NEW s \in Seq(S), NEW m \in 0..Len(s), NEW n \in 0..Len(s), m <= n
    PROVE  /\ IsPrefix(SubSeq(s, 1, m), SubSeq(s, 1, n))
           /\ IsPrefix(SubSeq(s, 1, n), s)
  BY DEF IsPrefix

LEMMA SamePrefix == \A s, t : Delivery!IsPrefix(s, t) <=> IsPrefix(s, t)
  BY DEF IsPrefix, Delivery!IsPrefix

-----------------------------------------------------------------------------
(***************************************************************************)
(* The mapping.                                                            *)
(***************************************************************************)
LEMMA ReleasedType ==
    ASSUME TypeOK
    PROVE  /\ Genuine \in Seq(Seq(Nat)) /\ Released \in Seq(Seq(Nat))
           /\ Len(Released) \in Nat
  <1>1. buffer \in Seq(Nat) /\ flushed \in Seq(Seq(Nat))
    BY DEF TypeOK
  <1>2. Extend(<<>>, buffer) \in Seq(Seq(Nat))
    BY <1>1 DEF Extend
  <1>3. QED
    BY <1>1, <1>2 DEF Genuine, Released

\* An accepted text is complete, so all of it has been released.
LEMMA AcceptedIsComplete ==
    ASSUME Inv, Accepted
    PROVE  finalized /\ IsPrefix(Genuine, reconstructed) /\ Released = Genuine
  <1>1. metrics.stream_fully_verified = TRUE
    BY DEF Accepted, Verdict
  <1>2. QED
    BY <1>1 DEF Inv, VerdictInv, VerifiedMeansComplete, Released

\* What the client relies on is a prefix of what the server stands by.
MappingInv ==
    /\ Released \in Seq(Seq(Nat))
    /\ ReliedCount \in 0..Len(Released)
    /\ Relied = SubSeq(Released, 1, ReliedCount)

LEMMA ReliedIsPrefix == Inv => MappingInv
  <1> SUFFICES ASSUME Inv
               PROVE  /\ ReliedCount \in 0..Len(Released)
                      /\ Relied = SubSeq(Released, 1, ReliedCount)
    BY ReleasedType DEF Inv, MappingInv
  <1>1. /\ TypeOK /\ Released \in Seq(Seq(Nat)) /\ Len(Released) \in Nat
        /\ strategy \in StrategyNames
    BY ReleasedType, RequestTypes DEF Inv, TypeOK
  <1>2. CASE Accepted
    <2>1. IsPrefix(Genuine, reconstructed) /\ Released = Genuine
      BY <1>2, AcceptedIsComplete
    <2>2. Relied = SubSeq(reconstructed, 1, Len(Genuine)) /\ ReliedCount = Len(Released)
      BY <1>2 DEF Accepted, Relied, ReliedCount
    <2>3. QED
      BY <1>1, <2>1, <2>2 DEF IsPrefix
  <1>3. CASE ~Accepted /\ strategy = "per_chunk"
    <2>1. Released = flushed
      BY <1>3 DEF Released, Genuine
    <2>2. /\ ReliedCount = IF Sound THEN expected_index ELSE 0
          /\ Relied = IF Sound THEN reconstructed ELSE <<>>
      BY <1>3 DEF Accepted, Relied, ReliedCount
    <2>3. Sound => /\ expected_index \in 0..Len(flushed)
                   /\ reconstructed = SubSeq(flushed, 1, expected_index)
      BY <1>3 DEF Inv, TypeOK, AcceptedPrefix, Sound
    <2>4. QED
      BY <1>1, <2>1, <2>2, <2>3, SubSeqWhole
  <1>4. CASE ~Accepted /\ strategy = "hash_chain"
    <2> DEFINE covered == chain_state.n_absorbed - pending
               texts == [i \in 1..covered |-> chain_state.running_hash.links[i].env.text]
    <2>1. Released = flushed /\ ReliedCount = covered /\ Relied = texts
      BY <1>4 DEF Accepted, Released, Genuine, ReliedCount, Relied
    <2>2. /\ covered \in 0..Len(flushed)
          /\ \A i \in 1..covered : chain_state.running_hash.links[i] = Link(Hid, flushed, i)
      BY <1>4 DEF Inv, CoveredIsGenuine
    <2>3. \A i \in 1..covered : chain_state.running_hash.links[i].env.text = flushed[i]
      <3>1. \A i \in 1..covered : Link(Hid, flushed, i).env.text = flushed[i]
        BY DEF Link, aead_encrypt
      <3>2. QED
        BY <2>2, <3>1
    <2> HIDE DEF covered
    <2>4. texts = SubSeq(flushed, 1, covered)
      BY <1>1, <2>1, <2>2, <2>3
    <2>5. QED
      BY <2>1, <2>2, <2>4
  <1>5. CASE ~Accepted /\ strategy = "buffer_and_sign"
    BY <1>1, <1>5, SubSeqWhole DEF Accepted, Relied, ReliedCount
  <1>6. QED
    BY <1>1, <1>2, <1>3, <1>4, <1>5 DEF StrategyNames

-----------------------------------------------------------------------------
(***************************************************************************)
(* The initial states and the server's steps.                              *)
(***************************************************************************)
LEMMA InitMaps == Init => Delivery!Init
  <1> SUFFICES ASSUME Init PROVE Delivery!Init
    OBVIOUS
  <1>1. Inv
    BY InvInit
  <1>2. /\ strategy \in StrategyNames /\ flushed = <<>> /\ buffer = <<>> /\ finalized = FALSE
        /\ cli_pc = "reading" /\ expected_index = 0 /\ pending = 0 /\ chain_state.n_absorbed = 0
        /\ metrics.all_signatures_valid = TRUE /\ metrics.all_in_order = TRUE
    BY RequestTypes DEF Init, NewChainState
  <1>3. Released = <<>>
    BY <1>2 DEF Released, Genuine, Extend
  <1>4. Sound = TRUE /\ Verdict = "open"
    BY <1>2 DEF Sound, Verdict
  <1>5. Relied = SubSeq(<<>>, 1, ReliedCount) /\ ReliedCount \in 0..0
    BY <1>1, <1>3, ReliedIsPrefix DEF MappingInv
  <1>6. Relied = <<>>
    BY <1>5
  <1>7. QED
    BY <1>2, <1>3, <1>4, <1>6 DEF Delivery!Init

\* Nothing the abstract receiver sees changes.
LEMMA ReceiverIdle ==
    ASSUME Inv, Inv', Grows, IsPrefix(Released, Released'), UNCHANGED <<request, clientVars>>
    PROVE  UNCHANGED <<Relied, Sound, Verdict>>
  <1>1. UNCHANGED <<strategy, Sound, Verdict, Accepted>>
    BY RequestFixed DEF clientVars, Sound, Verdict, Accepted
  <1>2. MappingInv /\ MappingInv'
    BY ReliedIsPrefix, PTL
  <1>3. TypeOK /\ TypeOK'
    BY DEF Inv
  <1>4. CASE Accepted
    <2>1. finalized
      BY <1>4, AcceptedIsComplete
    <2>2. UNCHANGED <<flushed, buffer, finalized>>
      BY <2>1, <1>3 DEF Grows, TypeOK
    <2>3. UNCHANGED Released
      BY <1>1, <2>2 DEF Released, Genuine
    <2>4. UNCHANGED ReliedCount
      BY <1>1, <1>4, <2>3 DEF ReliedCount
    <2>5. QED
      BY <1>1, <1>2, <2>3, <2>4 DEF MappingInv
  <1>5. CASE ~Accepted
    <2>1. UNCHANGED ReliedCount
      BY <1>1, <1>5 DEF ReliedCount, clientVars
    <2>2. SubSeq(Released', 1, ReliedCount) = SubSeq(Released, 1, ReliedCount)
      BY <1>2 DEF MappingInv, IsPrefix
    <2>3. QED
      BY <1>1, <1>2, <2>1, <2>2 DEF MappingInv
  <1>6. QED
    BY <1>4, <1>5

\* The server's steps release a chunk, complete the text, or do neither.
LEMMA ServerMaps ==
    ASSUME Inv, Inv', ServerNext
    PROVE  Delivery!Next \/ UNCHANGED Delivery!vars
  <1>1. /\ TypeOK /\ ServerInv /\ TypeOK' /\ Grows /\ UNCHANGED strategy
        /\ Released \in Seq(Seq(Nat)) /\ flushed \in Seq(Seq(Nat)) /\ buffer \in Seq(Nat)
        /\ finalized \in BOOLEAN /\ finalized' \in BOOLEAN
    BY ServerStepGrows, ReleasedType, RequestFixed DEF Inv, TypeOK, Grows
  <1>2. UNCHANGED <<request, clientVars>>
    BY DEF ServerNext, GenerateToken, EndGeneration, Finalize, SendDone, Forget, Cancelled,
       BackendFails
  <1>3. ASSUME UNCHANGED <<flushed, buffer, finalized>>
        PROVE  UNCHANGED Delivery!vars
    <2>1. UNCHANGED Released
      BY <1>1, <1>3 DEF Released, Genuine
    <2>2. UNCHANGED <<Relied, Sound, Verdict>>
      BY <1>1, <1>2, <2>1, ReceiverIdle, PrefixSelf
    <2>3. QED
      BY <1>3, <2>1, <2>2 DEF Delivery!vars
  <1>4. ASSUME NEW text \in Seq(Nat), flush_buffer(text), srv_pc = "generating", UNCHANGED finalized
        PROVE  Delivery!Release
    <2>1. ~finalized /\ flushed' = Append(flushed, text)
      BY <1>1, <1>4 DEF ServerInv, flush_buffer
    <2>2. IsPrefix(Released, Released') /\ Len(Released') <= Len(Released) + 1
      <3>1. CASE strategy = "buffer_and_sign"
        <4>1. Released = <<>> /\ Released' = <<>>
          BY <1>1, <1>4, <2>1, <3>1 DEF Released
        <4>2. QED
          BY <4>1 DEF IsPrefix
      <3>2. CASE strategy # "buffer_and_sign"
        <4>1. Released = flushed /\ Released' = Append(flushed, text)
          BY <1>1, <2>1, <3>2 DEF Released, Genuine
        <4>2. QED
          BY <1>1, <4>1, PrefixSelf, PrefixAppend, AppendProperties
      <3>3. QED
        BY <3>1, <3>2
    <2>3. UNCHANGED <<Relied, Sound, Verdict>>
      BY <1>1, <1>2, <2>2, ReceiverIdle
    <2>4. QED
      BY <1>4, <2>1, <2>2, <2>3, SamePrefix DEF Delivery!Release, Delivery!ReleaseOne
  <1>5. CASE GenerateToken
    <2> DEFINE text == Append(token_buffer, produced + 1)
    <2>1. text \in Seq(Nat)
      BY <1>1, RequestTypes, AppendProperties DEF TypeOK
    <2>2. CASE Len(text) >= chunk_size_tokens
      BY <1>4, <1>5, <2>1, <2>2 DEF GenerateToken, Delivery!Next
    <2>3. CASE ~(Len(text) >= chunk_size_tokens)
      BY <1>3, <1>5, <2>3 DEF GenerateToken, NoFlush
    <2>4. QED
      BY <2>2, <2>3
  <1>6. CASE EndGeneration
    <2>1. CASE token_buffer # <<>>
      BY <1>1, <1>4, <1>6, <2>1 DEF EndGeneration, TypeOK, Delivery!Next
    <2>2. CASE token_buffer = <<>>
      BY <1>3, <1>6, <2>2 DEF EndGeneration, NoFlush
    <2>3. QED
      BY <2>1, <2>2
  <1>7. CASE Finalize
    <2>1. ~finalized /\ finalized' = TRUE /\ UNCHANGED <<flushed, buffer>>
      BY <1>1, <1>7 DEF Finalize, ServerInv
    <2>2. IsPrefix(Released, Released') /\ Len(Released') <= Len(Released) + 1
      <3>1. CASE strategy = "buffer_and_sign"
        <4>1. Released = <<>> /\ Released' = Extend(<<>>, buffer)
          BY <1>1, <2>1, <3>1 DEF Released, Genuine
        <4>2. Released' = <<>> \/ Released' = Append(<<>>, buffer)
          BY <4>1 DEF Extend
        <4>3. Released' \in Seq(Seq(Nat)) /\ Len(Released') <= 1
          <5> DEFINE one == Append(<<>>, buffer)
          <5>1. <<>> \in Seq(Seq(Nat)) /\ Len(<<>>) = 0
            OBVIOUS
          <5>2. one \in Seq(Seq(Nat)) /\ Len(one) = 1
            BY <1>1, <5>1, AppendProperties
          <5>3. Released' = <<>> \/ Released' = one
            BY <4>2
          <5> HIDE DEF one
          <5>4. CASE Released' = one
            <6>1. Released' \in Seq(Seq(Nat)) /\ Len(Released') = 1
              BY <5>2, <5>4, Zenon
            <6>2. QED
              BY <6>1
          <5>5. CASE Released' = <<>>
            BY <5>5
          <5>6. QED
            BY <5>3, <5>4, <5>5
        <4>4. QED
          BY <4>1, <4>3, PrefixSelf
      <3>2. CASE strategy # "buffer_and_sign"
        <4>1. Released = flushed /\ Released' = flushed
          BY <1>1, <2>1, <3>2 DEF Released, Genuine
        <4>2. QED
          BY <1>1, <4>1, PrefixSelf
      <3>3. QED
        BY <3>1, <3>2
    <2>3. UNCHANGED <<Relied, Sound, Verdict>>
      BY <1>1, <1>2, <2>2, ReceiverIdle
    <2>4. QED
      BY <2>1, <2>2, <2>3, SamePrefix DEF Delivery!Next, Delivery!Complete, Delivery!ReleaseOne
  <1>8. CASE SendDone \/ Forget \/ Cancelled \/ BackendFails
    BY <1>3, <1>8 DEF SendDone, Forget, Cancelled, BackendFails
  <1>9. QED
    BY <1>5, <1>6, <1>7, <1>8 DEF ServerNext

-----------------------------------------------------------------------------
(***************************************************************************)
(* The client's steps, while it reads and when it stops.                   *)
(***************************************************************************)
LEMMA ReadingMaps ==
    ASSUME Inv, Inv', UNCHANGED <<request, serverVars>>, cli_pc = "reading", cli_pc' = "reading",
           \/ Sound' = Sound /\ ReliedCount <= ReliedCount' /\ (Sound \/ UNCHANGED ReliedCount)
           \/ Sound /\ ~Sound' /\ ReliedCount' = 0
    PROVE  Delivery!Next \/ UNCHANGED Delivery!vars
  <1>1. UNCHANGED <<strategy, flushed, buffer, finalized>>
    BY RequestFixed DEF serverVars
  <1>2. UNCHANGED Released /\ UNCHANGED finalized
    BY <1>1 DEF Released, Genuine
  <1>3. Verdict = "open" /\ UNCHANGED Verdict
    BY DEF Verdict
  <1>4. MappingInv /\ MappingInv'
    BY ReliedIsPrefix, PTL
  <1>5. /\ Released \in Seq(Seq(Nat))
        /\ ReliedCount \in 0..Len(Released) /\ ReliedCount' \in 0..Len(Released)
        /\ Relied = SubSeq(Released, 1, ReliedCount)
        /\ Relied' = SubSeq(Released, 1, ReliedCount')
    BY <1>2, <1>4 DEF MappingInv
  <1>6. CASE Sound' = Sound /\ ReliedCount <= ReliedCount' /\ Sound
    <2>1. IsPrefix(Relied, Relied') /\ IsPrefix(Relied', Released)
      BY <1>5, <1>6, SubSeqPrefix
    <2>2. QED
      BY <1>2, <1>3, <1>6, <2>1, SamePrefix DEF Delivery!Next, Delivery!Rely
  <1>7. CASE Sound' = Sound /\ UNCHANGED ReliedCount
    BY <1>2, <1>3, <1>5, <1>7 DEF Delivery!vars
  <1>8. CASE Sound /\ ~Sound' /\ ReliedCount' = 0
    <2>1. Relied' = <<>>
      BY <1>5, <1>8, SubSeqWhole
    <2>2. Sound' = FALSE
      BY <1>8 DEF Sound
    <2>3. QED
      BY <1>2, <1>3, <1>8, <2>1, <2>2 DEF Delivery!Next, Delivery!Withdraw
  <1>9. QED
    BY <1>6, <1>7, <1>8

LEMMA StoppingMaps ==
    ASSUME Inv, Inv', UNCHANGED <<request, serverVars>>, cli_pc = "reading", cli_pc' # "reading",
           metrics'.all_signatures_valid = metrics.all_signatures_valid,
           metrics'.all_in_order = metrics.all_in_order,
           UNCHANGED <<chain_state, expected_index, pending>>
    PROVE  Delivery!Next
  <1>1. UNCHANGED <<strategy, flushed, buffer, finalized>>
    BY RequestFixed DEF serverVars
  <1>2. UNCHANGED Released /\ UNCHANGED finalized
    BY <1>1 DEF Released, Genuine
  <1>3. Verdict = "open" /\ ~Accepted /\ Verdict' \in {"accepted", "rejected"}
    BY DEF Verdict, Accepted
  <1>4. MappingInv /\ MappingInv'
    BY ReliedIsPrefix, PTL
  <1>5. /\ Released \in Seq(Seq(Nat))
        /\ Relied = SubSeq(Released, 1, ReliedCount)
        /\ Relied' = SubSeq(Released, 1, ReliedCount')
    BY <1>2, <1>4 DEF MappingInv
  <1>6. UNCHANGED Sound
    BY <1>1 DEF Sound
  <1>7. CASE Accepted'
    <2>1. finalized'
      BY <1>7, AcceptedIsComplete, PTL
    <2>2. Relied' = Released
      BY <1>2, <1>5, <1>7, SubSeqWhole DEF ReliedCount
    <2>3. Verdict' = "accepted"
      BY <1>7 DEF Accepted
    <2>4. QED
      BY <1>2, <1>3, <1>6, <2>1, <2>2, <2>3 DEF Delivery!Next, Delivery!Accept
  <1>8. CASE ~Accepted'
    <2>1. UNCHANGED ReliedCount
      BY <1>1, <1>3, <1>6, <1>8 DEF ReliedCount
    <2>2. Verdict' = "rejected"
      BY <1>3, <1>8 DEF Accepted
    <2>3. QED
      BY <1>2, <1>3, <1>5, <1>6, <2>1, <2>2 DEF Delivery!Next, Delivery!Reject
  <1>9. QED
    BY <1>7, <1>8

LEMMA RecordMaps ==
    ASSUME Inv, Inv', NEW record \in Records, OnRecord(record)
    PROVE  Delivery!Next \/ UNCHANGED Delivery!vars
  <1>1. cli_pc = "reading" /\ UNCHANGED <<request, serverVars>>
    BY DEF OnRecord, OnPerChunk, OnChainChunk, OnFinalBuffered, OnFinalPerChunk,
       OnFinalChain, OnIgnored, OnMalformed, Read
  <1>2. UNCHANGED strategy
    BY <1>1, RequestFixed
  <1>3. /\ TypeOK /\ metrics \in Metrics /\ pending \in Nat /\ expected_index \in Nat
        /\ chain_state.n_absorbed \in Nat
    BY MetricsParts DEF Inv, TypeOK
  <1>4. ~Accepted
    BY <1>1 DEF Accepted, Verdict
  <1>5. ASSUME cli_pc' = "reading" PROVE ~Accepted'
    BY <1>5 DEF Accepted, Verdict
  <1>6. CASE OnPerChunk(record)
    <2>1. /\ cli_pc' = "reading" /\ strategy = "per_chunk" /\ expected_index' = expected_index + 1
      BY <1>1, <1>6 DEF OnPerChunk
    <2>2. Sound' => Sound
      BY <1>2, <1>3, <1>6 DEF OnPerChunk, Sound, Metrics
    <2>3. /\ ReliedCount = (IF Sound THEN expected_index ELSE 0)
          /\ ReliedCount' = (IF Sound' THEN expected_index' ELSE 0)
      BY <1>2, <1>4, <1>5, <2>1 DEF ReliedCount
    <2>4. Sound \in BOOLEAN /\ Sound' \in BOOLEAN
      BY DEF Sound
    <2>5. QED
      BY <1>1, <1>3, <2>1, <2>2, <2>3, <2>4, ReadingMaps
  <1>7. CASE OnChainChunk(record)
    <2>1. /\ cli_pc' = "reading" /\ strategy = "hash_chain" /\ pending' \in {0, pending + 1}
          /\ chain_state'.n_absorbed = chain_state.n_absorbed + 1
      BY <1>1, <1>7 DEF OnChainChunk, ChainAbsorb
    <2>2. Sound = TRUE /\ Sound' = TRUE
      BY <1>2, <2>1 DEF Sound
    <2>3. /\ ReliedCount = chain_state.n_absorbed - pending
          /\ ReliedCount' = chain_state'.n_absorbed - pending'
      BY <1>2, <1>4, <1>5, <2>1 DEF ReliedCount
    <2>4. QED
      BY <1>1, <1>3, <2>1, <2>2, <2>3, ReadingMaps
  <1>8. CASE OnFinalBuffered(record)
    <2>1. cli_pc' = "reading" /\ UNCHANGED <<chain_state, expected_index, pending>>
      BY <1>1, <1>8 DEF OnFinalBuffered
    <2>2. Sound' => Sound
      BY <1>2, <1>3, <1>8 DEF OnFinalBuffered, Sound, Metrics
    <2>3. Sound \in BOOLEAN /\ Sound' \in BOOLEAN
      BY DEF Sound
    <2>4. CASE Sound' = Sound
      <3>1. UNCHANGED ReliedCount
        BY <1>2, <1>4, <1>5, <2>1, <2>4 DEF ReliedCount
      <3>2. ReliedCount \in Nat
        BY ReliedIsPrefix, ReleasedType DEF MappingInv, Inv
      <3>3. QED
        BY <1>1, <2>1, <2>4, <3>1, <3>2, ReadingMaps
    <2>5. CASE Sound /\ ~Sound'
      <3>1. ReliedCount' = 0
        BY <1>2, <1>4, <1>5, <2>1, <2>5 DEF ReliedCount, Sound
      <3>2. QED
        BY <1>1, <2>1, <2>5, <3>1, ReadingMaps
    <2>6. QED
      BY <2>2, <2>3, <2>4, <2>5
  <1>9. CASE OnFinalPerChunk(record)
    <2>1. /\ cli_pc' = "reading" /\ UNCHANGED <<chain_state, expected_index, pending>>
          /\ metrics'.all_signatures_valid = metrics.all_signatures_valid
          /\ metrics'.all_in_order = metrics.all_in_order
      BY <1>1, <1>3, <1>9 DEF OnFinalPerChunk, Metrics
    <2>2. UNCHANGED Sound
      BY <1>2, <2>1 DEF Sound
    <2>3. UNCHANGED ReliedCount
      BY <1>2, <1>4, <1>5, <2>1, <2>2 DEF ReliedCount
    <2>4. ReliedCount \in Nat
      BY ReliedIsPrefix, ReleasedType DEF MappingInv, Inv
    <2>5. QED
      BY <1>1, <2>1, <2>2, <2>3, <2>4, ReadingMaps
  <1>10. CASE OnFinalChain(record)
    <2>1. /\ cli_pc' = "reading" /\ strategy = "hash_chain" /\ pending' \in {0, pending}
          /\ UNCHANGED chain_state
      BY <1>1, <1>10 DEF OnFinalChain
    <2>2. Sound = TRUE /\ Sound' = TRUE
      BY <1>2, <2>1 DEF Sound
    <2>3. /\ ReliedCount = chain_state.n_absorbed - pending
          /\ ReliedCount' = chain_state'.n_absorbed - pending'
      BY <1>2, <1>4, <1>5, <2>1 DEF ReliedCount
    <2>4. QED
      BY <1>1, <1>3, <2>1, <2>2, <2>3, ReadingMaps
  <1>11. CASE OnIgnored(record)
    <2>1. cli_pc' = "reading" /\ UNCHANGED <<metrics, chain_state, expected_index, pending>>
      BY <1>1, <1>11 DEF OnIgnored, clientVars
    <2>2. UNCHANGED Sound
      BY <1>2, <2>1 DEF Sound
    <2>3. UNCHANGED ReliedCount
      BY <1>2, <1>4, <1>5, <2>1, <2>2 DEF ReliedCount
    <2>4. ReliedCount \in Nat
      BY ReliedIsPrefix, ReleasedType DEF MappingInv, Inv
    <2>5. QED
      BY <1>1, <2>1, <2>2, <2>3, <2>4, ReadingMaps
  <1>12. CASE OnMalformed(record)
    BY <1>1, <1>12, StoppingMaps DEF OnMalformed
  <1>13. QED
    BY <1>6, <1>7, <1>8, <1>9, <1>10, <1>11, <1>12 DEF OnRecord

LEMMA StepMaps == Inv /\ Inv' /\ [Next]_vars => [Delivery!Next]_(Delivery!vars)
  <1> SUFFICES ASSUME Inv, Inv', [Next]_vars
               PROVE  Delivery!Next \/ UNCHANGED Delivery!vars
    OBVIOUS
  <1>1. CASE ServerNext
    BY <1>1, ServerMaps
  <1>2. CASE wire # <<>> /\ OnRecord(Head(wire))
    <2>1. Head(wire) \in Records
      BY <1>2, HeadTailProperties DEF Inv, TypeOK
    <2>2. QED
      BY <1>2, <2>1, RecordMaps
  <1>3. CASE EndOfBody \/ ReadError
    <2>1. TypeOK
      BY DEF Inv
    <2>2. /\ cli_pc = "reading" /\ cli_pc' # "reading" /\ UNCHANGED <<request, serverVars>>
          /\ metrics'.all_signatures_valid = metrics.all_signatures_valid
          /\ metrics'.all_in_order = metrics.all_in_order
          /\ UNCHANGED <<chain_state, expected_index, pending>>
      BY <1>3, <2>1, MetricsParts DEF EndOfBody, ReadError, Metrics
    <2>3. QED
      BY <2>2, StoppingMaps
  <1>4. CASE FaultNext \/ UNCHANGED vars
    <2>1. UNCHANGED <<request, serverVars, clientVars>>
      BY <1>4 DEF FaultNext, Fault, Drop, Reorder, Duplicate, Replay, TamperCiphertext,
         TamperSignature, StripCheckpoint, MoveCheckpoint, Truncate, vars
    <2>2. UNCHANGED <<strategy, flushed, buffer, finalized>>
      BY <2>1, RequestFixed DEF serverVars
    <2>3. UNCHANGED Released
      BY <2>2 DEF Released, Genuine
    <2>4. UNCHANGED <<Relied, Sound, Verdict>>
      BY <2>1, <2>3, ServerIdle, ReceiverIdle, ReleasedType, PrefixSelf DEF Inv
    <2>5. QED
      BY <2>2, <2>3, <2>4 DEF Delivery!vars
  <1>5. QED
    BY <1>1, <1>2, <1>3, <1>4 DEF Next, ClientNext, Finished

\* event_generator with run_streaming_transaction keep the promise of
\* VerifiedDelivery whatever is lost, repeated, reordered, altered or replayed:
\* the client relies on a growing prefix of what the server stands by, gives
\* it up for good when a per_chunk check fails, and accepts only the whole of
\* a text the server ended.
THEOREM PromiseKept == Spec => KeepsThePromise
  BY InitMaps, StepMaps, Invariance, PTL DEF Spec, KeepsThePromise, Delivery!Spec

-----------------------------------------------------------------------------
(***************************************************************************)
(* The undisturbed stream.  As long as nothing was changed in transit, the *)
(* records the client has read and those still on the wire are together    *)
(* the stream of the captured closed form, and what the client holds is a  *)
(* function of how many of them it has read.                               *)
(***************************************************************************)
\* How many records the server has sent: chunks, the terminal record, done.
SentChunks == IF strategy = "buffer_and_sign" THEN 0 ELSE Len(flushed)
SentEnds ==
    CASE srv_pc = "closing" -> 1
      [] srv_pc \in {"forgetting", "closed"} -> 2
      [] OTHER -> 0
SentRecords == SentChunks + SentEnds

\* The i-th of them, in the closed form of a captured stream.
SentRecord(i) ==
    IF i <= SentChunks THEN CapturedChunk(Hid, strategy, k, flushed, i)
    ELSE IF i = SentChunks + 1 THEN CapturedFinal(Hid, strategy, flushed, buffer)
    ELSE DoneEvent(index)

\* Checkpoints among the first n chunks.
Checkpoints(n) == IF k > 0 THEN n \div k ELSE 0

\* Every check has passed so far.
Passed == metrics.all_signatures_valid /\ metrics.all_aead_ok /\ metrics.all_in_order

\* What a client holds that has read the first c chunks and no more.
Holds(c) ==
    /\ Passed /\ terminal_seen = FALSE /\ metrics.stream_fully_verified = None
    /\ strategy = "buffer_and_sign" => metrics.n_signatures = 0 /\ reconstructed = <<>>
    /\ strategy # "buffer_and_sign" => reconstructed = SubSeq(flushed, 1, c)
    /\ strategy = "per_chunk" => expected_index = c /\ metrics.n_signatures = c
    /\ strategy = "hash_chain" =>
          /\ chain_state.n_absorbed = c /\ chain_state.running_hash = ChainOf(Hid, flushed, c)
          /\ metrics.n_signatures = Checkpoints(c)

\* What it holds once it has read the terminal record.
HoldsAll ==
    /\ Passed /\ terminal_seen = TRUE /\ reconstructed = Genuine
    /\ metrics.n_signatures = SignatureCount
    /\ metrics.stream_fully_verified = IF strategy = "buffer_and_sign" THEN None ELSE TRUE

\* The first r records have been read, and the rest are on the wire.
InFlight(r) ==
    /\ r \in 0..SentRecords
    /\ Len(wire) = SentRecords - r
    /\ \A j \in 1..Len(wire) : wire[j] = SentRecord(r + j)

\* The verifying client has read them.
ReadSoFar(r) == InFlight(r) /\ IF r <= SentChunks THEN Holds(r) ELSE HoldsAll

\* What NoFalseRejection promises of a client that is done.
AcceptedExactly ==
    /\ metrics.stream_fully_verified = TRUE
    /\ Passed
    /\ metrics.n_signatures = SignatureCount
    /\ reconstructed = Genuine

\* The server's count of chunks since a checkpoint follows the schedule.
ScheduleInv == (strategy = "hash_chain" /\ k > 0) => since_checkpoint = index % k

Undisturbed ==
    /\ cut => srv_pc = "aborted"
    /\ (cli_pc = "reading" /\ ~cut) => srv_pc # "aborted" /\ \E r \in Nat : ReadSoFar(r)
    /\ cli_pc = "done" => srv_pc = "aborted" \/ (srv_pc = "closed" /\ AcceptedExactly)

UndisturbedInv == ScheduleInv /\ (faults = 0 => Undisturbed)

-----------------------------------------------------------------------------
LEMMA DivStep ==
    ASSUME NEW n \in Nat, NEW d \in Nat, d > 0
    PROVE  (n + 1) \div d = (n \div d) + (IF (n + 1) % d = 0 THEN 1 ELSE 0)
  <1> DEFINE q == n \div d
             r == n % d
             p == (n + 1) \div d
             s == (n + 1) % d
  <1>1. /\ q \in Nat /\ r \in 0..(d - 1) /\ n = d * q + r
        /\ p \in Nat /\ s \in 0..(d - 1) /\ n + 1 = d * p + s
    BY DivMod
  <1>2. s = IF r + 1 = d THEN 0 ELSE r + 1
    BY ModStep
  <1> HIDE DEF q, r, p, s
  <1>3. CASE r + 1 = d
    <2>1. s = 0 /\ d * p = d * (q + 1)
      BY <1>1, <1>2, <1>3
    <2>2. QED
      BY <1>1, <2>1 DEF s, p, q
  <1>4. CASE r + 1 # d
    <2>1. s # 0 /\ d * p = d * q
      BY <1>1, <1>2, <1>4
    <2>2. QED
      BY <1>1, <2>1 DEF s, p, q
  <1>5. QED
    BY <1>3, <1>4

LEMMA ChunkStable ==
    ASSUME NEW texts \in Seq(Seq(Nat)), NEW text \in Seq(Nat), NEW s, NEW interval,
           NEW i \in 1..Len(texts)
    PROVE  CapturedChunk(Hid, s, interval, Append(texts, text), i)
             = CapturedChunk(Hid, s, interval, texts, i)
  <1>1. Append(texts, text)[i] = texts[i]
    BY AppendProperties
  <1>2. ChainOf(Hid, Append(texts, text), i) = ChainOf(Hid, texts, i)
    BY ChainOfStable
  <1>3. QED
    BY <1>1, <1>2, Zenon DEF CapturedChunk

LEMMA ChainNext ==
    ASSUME NEW texts \in Seq(Seq(Nat)), NEW n \in Nat, n < Len(texts)
    PROVE  absorb(ChainOf(Hid, texts, n), n, aead_encrypt(Hid, n + 1, texts[n + 1]))
             = ChainOf(Hid, texts, n + 1)
  <1> DEFINE L == [index: Nat, env: Envelopes]
             links == [i \in 1..n |-> Link(Hid, texts, i)]
             all == [i \in 1..(n + 1) |-> Link(Hid, texts, i)]
             link == [index |-> n, env |-> aead_encrypt(Hid, n + 1, texts[n + 1])]
  <1>1. n \in 0..Len(texts) /\ n + 1 \in 0..Len(texts) /\ n + 1 - 1 = n
    BY LenProperties
  <1>2. links \in Seq(L) /\ Len(links) = n /\ \A i \in 1..n : links[i] = Link(Hid, texts, i)
    <2>1. ChainOf(Hid, texts, n) \in Hashes
      BY <1>1, ChainOfType
    <2>2. QED
      BY <2>1 DEF ChainOf, Hashes
  <1>3. all \in Seq(L) /\ Len(all) = n + 1 /\ \A i \in 1..(n + 1) : all[i] = Link(Hid, texts, i)
    <2>1. ChainOf(Hid, texts, n + 1) \in Hashes
      BY <1>1, ChainOfType
    <2>2. QED
      BY <2>1 DEF ChainOf, Hashes
  <1>4. link = Link(Hid, texts, n + 1)
    BY <1>1 DEF Link
  <1>5. link \in L
    <2>1. all[n + 1] \in L /\ all[n + 1] = Link(Hid, texts, n + 1)
      BY <1>3, ElementOfSeq
    <2> HIDE DEF all, link, L
    <2>2. QED
      BY <1>4, <2>1
  <1> HIDE DEF links, all, link, L
  <1>6. /\ Append(links, link) \in Seq(L) /\ Len(Append(links, link)) = n + 1
        /\ \A i \in 1..n : Append(links, link)[i] = links[i]
        /\ Append(links, link)[n + 1] = link
    BY <1>2, <1>5, AppendProperties
  <1>7. \A i \in 1..(n + 1) : Append(links, link)[i] = all[i]
    BY <1>2, <1>3, <1>4, <1>6
  <1>8. Append(links, link) = all
    BY <1>3, <1>6, <1>7, SeqEqual
  <1>9. QED
    BY <1>8 DEF absorb, ChainOf, links, all, link

\* What the records of the stream carry.
LEMMA ChunkFields ==
    ASSUME NEW s, NEW interval, NEW texts, NEW i, NEW record,
           record = CapturedChunk(Hid, s, interval, texts, i)
    PROVE  /\ record.kind = "chunk" /\ record.n = i - 1
           /\ record.env = aead_encrypt(Hid, i, texts[i])
           /\ s = "per_chunk" =>
                 record.signature = Sign(Hid, chunk_message(ctx, record.n, record.env))
           /\ s # "per_chunk" =>
                 /\ record.chain = ChainOf(Hid, texts, i)
                 /\ record.signature = IF interval > 0 /\ i % interval = 0
                                       THEN Sign(Hid, checkpoint_message(ctx, record.n, record.chain))
                                       ELSE None
  BY DEF CapturedChunk, ChunkRow, Record, ctx

LEMMA FinalFields ==
    ASSUME NEW s \in StrategyNames, NEW texts, NEW whole, NEW record,
           record = CapturedFinal(Hid, s, texts, whole)
    PROVE  /\ s = "buffer_and_sign" =>
                 /\ record.kind = "final_buffered"
                 /\ record.env = aead_encrypt(Hid, 0, whole)
                 /\ record.signature = Sign(Hid, buffered_message(ctx, record.env))
           /\ s = "per_chunk" =>
                 /\ record.kind = "final_per_chunk" /\ record.n = Len(texts)
                 /\ record.signature = Sign(Hid, end_message(ctx, record.n))
           /\ s = "hash_chain" =>
                 /\ record.kind = "final_chain" /\ record.n = Len(texts)
                 /\ record.chain = ChainOf(Hid, texts, Len(texts))
                 /\ record.signature = Sign(Hid, final_chain_message(ctx, record.n, record.chain))
  BY DEF CapturedFinal, BufferedFinal, PerChunkFinal, ChainFinal, Record, ctx, StrategyNames

LEMMA SentTypes ==
    ASSUME TypeOK
    PROVE  /\ SentChunks \in Nat /\ SentEnds \in 0..2 /\ SentRecords \in Nat
           /\ SentChunks <= Len(flushed) /\ Len(flushed) \in Nat /\ Len(wire) \in Nat
           /\ SentRecords = SentChunks + SentEnds
  <1>1. SentChunks \in Nat /\ SentEnds \in 0..2 /\ SentChunks <= Len(flushed) /\ Len(flushed) \in Nat
    BY DEF TypeOK, SentChunks, SentEnds
  <1>2. QED
    BY <1>1 DEF TypeOK, SentRecords

-----------------------------------------------------------------------------
\* The server's steps leave what the client holds alone.
LEMMA HoldsOn ==
    ASSUME TypeOK, NEW c \in Nat, c <= Len(flushed), Holds(c), NEW text \in Seq(Nat),
           flushed' = Append(flushed, text), UNCHANGED <<request, clientVars>>
    PROVE  Holds(c)'
  <1>1. UNCHANGED <<strategy, k, metrics, terminal_seen, reconstructed, expected_index, chain_state>>
    BY RequestFixed DEF clientVars
  <1>2. flushed \in Seq(Seq(Nat)) /\ c \in 0..Len(flushed)
    BY DEF TypeOK
  <1>3. ChainOf(Hid, flushed', c) = ChainOf(Hid, flushed, c)
    BY <1>2, ChainOfStable
  <1>4. SubSeq(flushed', 1, c) = SubSeq(flushed, 1, c)
    BY <1>2, AppendProperties
  <1>5. Checkpoints(c)' = Checkpoints(c)
    BY <1>1 DEF Checkpoints
  <1>6. QED
    BY <1>1, <1>3, <1>4, <1>5 DEF Holds, Passed

LEMMA HoldsStill ==
    ASSUME UNCHANGED <<request, flushed, index, buffer, metrics, chain_state, terminal_seen,
                       expected_index, reconstructed>>
    PROVE  (\A c : Holds(c)' <=> Holds(c)) /\ (HoldsAll' <=> HoldsAll)
  <1>1. UNCHANGED <<strategy, k>>
    BY RequestFixed
  <1>2. QED
    BY <1>1 DEF Holds, HoldsAll, Passed, Checkpoints, Genuine, SignatureCount

LEMMA SentStill ==
    ASSUME UNCHANGED <<request, flushed, buffer, index>>
    PROVE  UNCHANGED SentChunks /\ \A i : SentRecord(i)' = SentRecord(i)
  <1>1. UNCHANGED <<strategy, k>>
    BY RequestFixed
  <1>2. QED
    BY <1>1 DEF SentRecord, SentChunks

\* One more record is sent.
LEMMA Sends ==
    ASSUME TypeOK, NEW n \in Nat, n = SentRecords, SentRecords' = n + 1,
           NEW r \in Nat, InFlight(r), \A i \in 1..n : SentRecord(i)' = SentRecord(i),
           NEW record \in Records, wire' = Append(wire, record), record = SentRecord(n + 1)'
    PROVE  InFlight(r)'
  <1>1. /\ r \in 0..n /\ Len(wire) = n - r /\ \A j \in 1..Len(wire) : wire[j] = SentRecord(r + j)
    BY DEF InFlight
  <1>2. /\ Len(wire') = n + 1 - r /\ wire'[n + 1 - r] = record
        /\ \A j \in 1..Len(wire) : wire'[j] = wire[j]
    <2>1. /\ Len(wire') = Len(wire) + 1 /\ wire'[Len(wire) + 1] = record
          /\ \A j \in 1..Len(wire) : wire'[j] = wire[j]
      BY AppendProperties DEF TypeOK
    <2>2. QED
      BY <1>1, <2>1
  <1>3. ASSUME NEW j \in 1..Len(wire')
        PROVE  wire'[j] = SentRecord(r + j)'
    <2>1. CASE j \in 1..Len(wire)
      <3>1. r + j \in 1..n
        BY <1>1, <2>1
      <3>2. QED
        BY <1>1, <1>2, <2>1, <3>1
    <2>2. CASE j = n + 1 - r
      <3>1. r + j = n + 1
        BY <1>1, <2>2
      <3>2. QED
        BY <1>2, <2>2, <3>1
    <2>3. j \in 1..Len(wire) \/ j = n + 1 - r
      BY <1>1, <1>2
    <2>4. QED
      BY <2>1, <2>2, <2>3
  <1>4. r \in 0..SentRecords' /\ Len(wire') = SentRecords' - r
    BY <1>1, <1>2
  <1>5. QED
    BY <1>3, <1>4 DEF InFlight

\* The record add_chunk yields.
LEMMA ChunkSent ==
    ASSUME Inv, ScheduleInv, NEW text \in Seq(Nat), add_chunk(text), strategy # "buffer_and_sign"
    PROVE  /\ Yield(CapturedChunk(Hid, strategy, k, Append(flushed, text), index + 1))
           /\ CapturedChunk(Hid, strategy, k, Append(flushed, text), index + 1) \in Records
           /\ (strategy = "hash_chain" /\ k > 0) => since_checkpoint' = (index + 1) % k
  <1>1. /\ TypeOK /\ index = Len(flushed) /\ flushed \in Seq(Seq(Nat)) /\ index \in Nat /\ k \in Nat
        /\ strategy \in StrategyNames
        /\ strategy = "hash_chain" => running_hash = ChainOf(Hid, flushed, index)
    BY RequestTypes DEF Inv, ServerInv, TypeOK
  <1>0. PICK n \in Nat : n = index + 1 /\ n - 1 = index
    BY <1>1
  <1>2. PICK texts \in Seq(Seq(Nat)) :
           n = index + 1 /\ texts = Append(flushed, text) /\ n - 1 = index
    <2>1. Append(flushed, text) \in Seq(Seq(Nat))
      BY <1>1, AppendProperties
    <2>2. QED
      BY <1>0, <2>1
  <1>3. texts[n] = text
    BY <1>1, <1>2, AppendProperties
  <1> DEFINE env == aead_encrypt(Hid, n, text)
             hash == absorb(running_hash, index, env)
             due == k > 0 /\ n % k = 0
             sig == IF due THEN Sign(Hid, checkpoint_message(ctx, index, hash)) ELSE None
  <1>4. env \in Envelopes
    BY EnvelopeType
  <1>5. strategy = "hash_chain" => hash = ChainOf(Hid, texts, n)
    BY <1>1, <1>2, ChainOfAbsorb
  <1>6. hash \in Hashes
    BY <1>1, <1>4, AbsorbType DEF TypeOK
  <1>7. CASE strategy = "per_chunk"
    <2>1. Yield(ChunkRow(index, env, None, Sign(Hid, chunk_message(ctx, index, env))))
      BY <1>2, <1>7 DEF add_chunk
    <2>2. CapturedChunk(Hid, strategy, k, texts, n)
            = ChunkRow(index, env, None, Sign(Hid, chunk_message(ctx, index, env)))
      BY <1>2, <1>3, <1>7 DEF CapturedChunk, ctx
    <2> HIDE DEF env
    <2>3. ChunkRow(index, env, None, Sign(Hid, chunk_message(ctx, index, env))) \in Records
      BY <1>1, <1>4, ContextTypes, ChunkRecordTypes
    <2>4. QED
      BY <1>2, <1>7, <2>1, <2>2, <2>3
  <1>8. CASE strategy = "hash_chain"
    <2>1. k > 0 => (n % k = IF since_checkpoint + 1 = k THEN 0 ELSE since_checkpoint + 1)
      <3>1. SUFFICES ASSUME k > 0
                     PROVE  n % k = IF since_checkpoint + 1 = k THEN 0 ELSE since_checkpoint + 1
        OBVIOUS
      <3>2. since_checkpoint = index % k
        BY <1>8, <3>1 DEF ScheduleInv
      <3>3. (index + 1) % k = IF (index % k) + 1 = k THEN 0 ELSE (index % k) + 1
        BY <1>1, <3>1, ModStep
      <3>4. QED
        BY <1>2, <3>2, <3>3
    <2>2. k > 0 => since_checkpoint \in Nat /\ since_checkpoint < k
      BY <1>1 DEF TypeOK
    <2>3. CheckpointDue <=> due
      BY <1>1, <2>1, <2>2 DEF CheckpointDue
    <2>4. k > 0 => SinceCheckpoint = n % k
      BY <1>1, <2>1, <2>2 DEF SinceCheckpoint, CheckpointDue
    <2> HIDE DEF due
    <2>5. /\ Yield(ChunkRow(index, env, hash, sig))
          /\ since_checkpoint' = SinceCheckpoint
      BY <1>2, <1>8, <2>3 DEF add_chunk
    <2>6. CapturedChunk(Hid, strategy, k, texts, n) = ChunkRow(index, env, hash, sig)
      BY <1>2, <1>3, <1>5, <1>8 DEF CapturedChunk, ctx, due
    <2> HIDE DEF env, hash
    <2>7. ChunkRow(index, env, hash, sig) \in Records
      BY <1>1, <1>4, <1>6, ChunkRecordTypes
    <2> HIDE DEF sig
    <2>8. QED
      BY <1>2, <2>4, <2>5, <2>6, <2>7
  <1>9. QED
    BY <1>1, <1>7, <1>8 DEF StrategyNames

\* A chunk is sent while the client is there; nothing but chunks has been sent.
LEMMA FlushInFlight ==
    ASSUME Inv, ScheduleInv, Connected, srv_pc = "generating", srv_pc' \in {"generating", "finalizing"},
           NEW text \in Seq(Nat), flush_buffer(text), UNCHANGED request,
           NEW r \in Nat, InFlight(r)
    PROVE  ScheduleInv' /\ InFlight(r)' /\ r <= SentChunks /\ r <= SentChunks'
  <1>1. /\ TypeOK /\ index = Len(flushed) /\ flushed \in Seq(Seq(Nat)) /\ Len(flushed) \in Nat
        /\ UNCHANGED <<strategy, k>> /\ add_chunk(text) /\ index' = index + 1
        /\ flushed' = Append(flushed, text)
    BY RequestFixed DEF Inv, ServerInv, TypeOK, flush_buffer
  <1>2. Len(flushed') = Len(flushed) + 1
    BY <1>1, AppendProperties
  <1>3. SentEnds = 0 /\ SentEnds' = 0 /\ SentRecords = SentChunks /\ SentChunks \in Nat
    BY <1>1, SentTypes DEF SentEnds
  <1>4. r <= SentChunks /\ SentChunks <= Len(flushed)
    BY <1>1, <1>3, SentTypes DEF InFlight
  <1>6. CASE strategy = "buffer_and_sign"
    <2>1. SentChunks = 0 /\ SentChunks' = 0 /\ SentRecords' = 0 /\ SentRecords = 0 /\ UNCHANGED wire
      BY <1>1, <1>3, <1>6 DEF SentChunks, SentRecords, add_chunk
    <2>2. r = 0 /\ Len(wire) = 0
      <3>1. r \in 0..SentRecords /\ Len(wire) = SentRecords - r
        BY DEF InFlight
      <3>2. SentRecords = 0 /\ Len(wire) \in Nat
        BY <1>1, <2>1, SentTypes
      <3>3. r \in 0..0
        BY <3>1, <3>2, Zenon
      <3>4. r = 0
        BY <3>3
      <3>5. QED
        BY <3>1, <3>2, <3>4
    <2>3. InFlight(r)'
      BY <2>1, <2>2 DEF InFlight
    <2>4. QED
      BY <1>1, <1>4, <1>6, <2>1, <2>2, <2>3 DEF ScheduleInv
  <1>7. CASE strategy # "buffer_and_sign"
    <2>1. SentChunks = Len(flushed) /\ SentChunks' = Len(flushed) + 1 /\ SentRecords' = SentChunks + 1
      BY <1>1, <1>2, <1>3, <1>7 DEF SentChunks, SentRecords
    <2>2. PICK n \in Nat : n = Len(flushed)
      BY <1>1
    <2>3. PICK record \in Records : record = CapturedChunk(Hid, strategy, k, flushed', n + 1)
      BY <1>1, <1>7, <2>2, ChunkSent
    <2>4. Yield(record) /\ ((strategy = "hash_chain" /\ k > 0) => since_checkpoint' = (index + 1) % k)
      BY <1>1, <1>7, <2>2, <2>3, ChunkSent
    <2>5. wire' = Append(wire, record)
      BY <2>4 DEF Yield
    <2>6. record = SentRecord(n + 1)'
      <3>1. n + 1 <= SentChunks'
        BY <2>1, <2>2
      <3>2. QED
        BY <1>1, <2>3, <3>1 DEF SentRecord
    <2>7. \A i \in 1..n : SentRecord(i)' = SentRecord(i)
      <3>1. SUFFICES ASSUME NEW i \in 1..n PROVE SentRecord(i)' = SentRecord(i)
        OBVIOUS
      <3>2. i <= SentChunks /\ i <= SentChunks' /\ i \in 1..Len(flushed)
        BY <2>1, <2>2
      <3>3. QED
        BY <1>1, <3>2, ChunkStable DEF SentRecord
    <2>8. InFlight(r)'
      BY <1>1, <1>3, <2>1, <2>2, <2>5, <2>6, <2>7, Sends
    <2>9. ScheduleInv'
      BY <1>1, <2>4 DEF ScheduleInv
    <2>10. QED
      BY <1>3, <1>4, <2>1, <2>8, <2>9
  <1>8. QED
    BY <1>6, <1>7

LEMMA FlushSends ==
    ASSUME Inv, ScheduleInv, Connected, srv_pc = "generating", srv_pc' \in {"generating", "finalizing"},
           NEW text \in Seq(Nat), flush_buffer(text), UNCHANGED <<request, clientVars>>,
           NEW r \in Nat, ReadSoFar(r)
    PROVE  ReadSoFar(r)'
  <1>1. InFlight(r) /\ InFlight(r)' /\ r <= SentChunks /\ r <= SentChunks'
    BY FlushInFlight DEF ReadSoFar
  <1>2. TypeOK /\ flushed' = Append(flushed, text) /\ r <= Len(flushed)
    <2>1. TypeOK /\ flushed' = Append(flushed, text)
      BY DEF Inv, flush_buffer
    <2>2. PICK c \in Nat, n \in Nat : c = SentChunks /\ n = Len(flushed) /\ c <= n
      BY <2>1, SentTypes
    <2>3. QED
      BY <1>1, <2>1, <2>2
  <1>3. Holds(r)'
    BY <1>1, <1>2, HoldsOn DEF ReadSoFar
  <1>4. QED
    BY <1>1, <1>3 DEF ReadSoFar

\* What neither flushes nor changes the text leaves the schedule alone.
LEMMA ScheduleStays ==
    ASSUME ScheduleInv, UNCHANGED <<request, index, since_checkpoint>>
    PROVE  ScheduleInv'
  BY RequestFixed DEF ScheduleInv

LEMMA EndInFlight ==
    ASSUME Inv, Connected, Finalize \/ SendDone, NEW r \in Nat, InFlight(r)
    PROVE  InFlight(r)'
  <1>1. /\ TypeOK /\ index = Len(flushed) /\ UNCHANGED <<request, strategy, flushed, buffer, index, clientVars>>
        /\ index \in Nat /\ strategy \in StrategyNames
    BY RequestFixed, RequestTypes DEF Inv, ServerInv, TypeOK, Finalize, SendDone
  <1>2. UNCHANGED SentChunks /\ \A i : SentRecord(i)' = SentRecord(i)
    BY <1>1, SentStill
  <1>3. SentEnds' = SentEnds + 1 /\ SentEnds = (IF srv_pc = "finalizing" THEN 0 ELSE 1)
    BY DEF SentEnds, Finalize, SendDone
  <1>4. PICK n \in Nat, c \in Nat : n = SentRecords /\ c = SentChunks /\ SentRecords' = n + 1
                                    /\ n = c + (IF srv_pc = "finalizing" THEN 0 ELSE 1)
    BY <1>1, <1>2, <1>3, SentTypes DEF SentRecords
  <1>5. \E record \in Records : record = SentRecord(n + 1) /\ wire' = Append(wire, record)
    <2>1. CASE Finalize
      <3>1. n + 1 = c + 1 /\ ~(n + 1 <= c)
        BY <1>4, <2>1 DEF Finalize
      <3>2. SentRecord(n + 1) = CapturedFinal(Hid, strategy, flushed, buffer)
        BY <1>4, <3>1 DEF SentRecord
      <3> DEFINE env == aead_encrypt(Hid, 0, buffer)
                 hash == ChainOf(Hid, flushed, index)
      <3>3. env \in Envelopes
        BY <1>1, EnvelopeType DEF TypeOK
      <3>4. hash \in Hashes /\ (strategy = "hash_chain" => running_hash = hash)
        BY <1>1, ChainOfType DEF Inv, ServerInv, TypeOK
      <3>5. CapturedFinal(Hid, strategy, flushed, buffer) =
              CASE strategy = "buffer_and_sign" -> BufferedFinal(env, Sign(Hid, buffered_message(ctx, env)))
                [] strategy = "per_chunk" -> PerChunkFinal(index, Sign(Hid, end_message(ctx, index)))
                [] OTHER -> ChainFinal(index, hash, Sign(Hid, final_chain_message(ctx, index, hash)))
        BY <1>1 DEF CapturedFinal, ctx
      <3>6. Yield(CapturedFinal(Hid, strategy, flushed, buffer))
        BY <1>1, <2>1, <3>4, <3>5 DEF Finalize, finalize, StrategyNames
      <3> HIDE DEF env, hash
      <3>7. CapturedFinal(Hid, strategy, flushed, buffer) \in Records
        BY <1>1, <3>3, <3>4, <3>5, FinalRecordTypes DEF StrategyNames
      <3>8. QED
        BY <3>2, <3>6, <3>7 DEF Yield
    <2>2. CASE SendDone
      <3>1. n = c + 1 /\ ~(n + 1 <= c) /\ n + 1 # c + 1
        BY <1>4, <2>2 DEF SendDone
      <3>2. SentRecord(n + 1) = DoneEvent(index)
        BY <1>4, <3>1 DEF SentRecord
      <3>3. DoneEvent(index) \in Records
        BY <1>1 DEF DoneEvent, Record, Records
      <3>4. QED
        BY <2>2, <3>2, <3>3 DEF SendDone, Yield
    <2>3. QED
      BY <2>1, <2>2
  <1>6. PICK record \in Records : record = SentRecord(n + 1) /\ wire' = Append(wire, record)
    BY <1>5
  <1>7. record = SentRecord(n + 1)' /\ \A i \in 1..n : SentRecord(i)' = SentRecord(i)
    BY <1>2, <1>6
  <1>8. QED
    BY <1>1, <1>4, <1>6, <1>7, Sends

LEMMA EndSends ==
    ASSUME Inv, Connected, Finalize \/ SendDone, NEW r \in Nat, ReadSoFar(r)
    PROVE  ReadSoFar(r)'
  <1>1. InFlight(r)'
    BY EndInFlight DEF ReadSoFar
  <1>2. UNCHANGED <<request, flushed, buffer, index, clientVars>>
    BY DEF Finalize, SendDone
  <1>3. UNCHANGED SentChunks
    BY <1>2, SentStill
  <1>4. (Holds(r)' <=> Holds(r)) /\ (HoldsAll' <=> HoldsAll)
    BY <1>2, HoldsStill DEF clientVars
  <1>5. QED
    BY <1>1, <1>3, <1>4 DEF ReadSoFar

-----------------------------------------------------------------------------
\* A chunk read.
LEMMA PerChunkRead ==
    ASSUME Inv, NEW r \in Nat, r < Len(flushed), Holds(r), strategy = "per_chunk", NEW record,
           record = CapturedChunk(Hid, strategy, k, flushed, r + 1), OnPerChunk(record)
    PROVE  Holds(r + 1)'
  <1>1. /\ TypeOK /\ flushed \in Seq(Seq(Nat)) /\ UNCHANGED <<request, strategy, k, flushed, buffer>>
        /\ \A i \in 1..Len(flushed) : flushed[i] # <<>>
    BY RequestFixed DEF Inv, ServerInv, TypeOK, OnPerChunk, Read, serverVars
  <1>2. /\ r + 1 - 1 = r /\ r + 1 \in 1..Len(flushed) /\ Len(flushed) \in Nat
    BY <1>1
  <1>3. /\ record.n = r /\ record.env = aead_encrypt(Hid, r + 1, flushed[r + 1])
        /\ record.signature = Sign(Hid, chunk_message(ctx, record.n, record.env))
    BY <1>2, ChunkFields
  <1>4. /\ expected_index = r /\ metrics.n_signatures = r /\ reconstructed = SubSeq(flushed, 1, r)
        /\ metrics.all_signatures_valid /\ metrics.all_aead_ok /\ metrics.all_in_order
        /\ terminal_seen = FALSE /\ metrics.stream_fully_verified = None
    BY DEF Holds, Passed
  <1> DEFINE result == verify_per_chunk(record, expected_index)
  <1>5. result.signature_valid = TRUE /\ result.in_order = TRUE /\ result.aead_ok = TRUE
    <2>1. /\ result.signature_valid =
               (record.signature = Sign(Hid, chunk_message(ctx, record.n, record.env)))
          /\ result.in_order = (record.n = expected_index)
          /\ result.aead_ok = (record.signature = Sign(Hid, chunk_message(ctx, record.n, record.env))
                               /\ record.env.key = Hid)
      BY DEF verify_per_chunk, Verify, Decrypts
    <2>2. record.env.key = Hid
      BY <1>3 DEF aead_encrypt
    <2> HIDE DEF result
    <2>3. QED
      BY <1>3, <1>4, <2>1, <2>2
  <1> HIDE DEF result
  <1>6. /\ metrics' = [metrics EXCEPT
              !.all_signatures_valid = @ /\ result.signature_valid,
              !.all_aead_ok = @ /\ result.aead_ok,
              !.all_in_order = @ /\ result.in_order,
              !.n_signatures = @ + 1,
              !.max_unverified_chunks = IF result.signature_valid /\ result.in_order
                                        THEN Larger(@, pending + 1) ELSE @]
        /\ reconstructed' = (IF result.aead_ok THEN Extend(reconstructed, record.env.text)
                             ELSE reconstructed)
        /\ expected_index' = expected_index + 1 /\ UNCHANGED terminal_seen
    BY DEF OnPerChunk, result
  <1>7. /\ metrics'.all_signatures_valid /\ metrics'.all_aead_ok /\ metrics'.all_in_order
        /\ metrics'.n_signatures = r + 1 /\ metrics'.stream_fully_verified = None
    BY <1>1, <1>4, <1>5, <1>6 DEF TypeOK, Metrics
  <1>8. reconstructed' = SubSeq(flushed, 1, r + 1)
    <2>1. record.env.text = flushed[r + 1] /\ flushed[r + 1] # <<>>
      BY <1>1, <1>2, <1>3 DEF aead_encrypt
    <2>2. reconstructed' = Append(SubSeq(flushed, 1, r), flushed[r + 1])
      BY <1>4, <1>5, <1>6, <2>1 DEF Extend
    <2>3. QED
      BY <1>1, <1>2, <2>2
  <1>9. QED
    BY <1>1, <1>4, <1>6, <1>7, <1>8 DEF Holds, Passed

LEMMA ChainChunkRead ==
    ASSUME Inv, NEW r \in Nat, r < Len(flushed), Holds(r), strategy = "hash_chain", NEW record,
           record = CapturedChunk(Hid, strategy, k, flushed, r + 1), OnChainChunk(record)
    PROVE  Holds(r + 1)'
  <1>1. /\ TypeOK /\ flushed \in Seq(Seq(Nat)) /\ UNCHANGED <<request, strategy, k, flushed, buffer>>
        /\ \A i \in 1..Len(flushed) : flushed[i] # <<>>
        /\ k \in Nat
    BY RequestFixed, RequestTypes DEF Inv, ServerInv, TypeOK, OnChainChunk, Read, serverVars
  <1>2. /\ r + 1 - 1 = r /\ r + 1 \in 1..Len(flushed) /\ Len(flushed) \in Nat
    BY <1>1
  <1> DEFINE due == k > 0 /\ (r + 1) % k = 0
  <1>3. /\ record.n = r /\ record.env = aead_encrypt(Hid, r + 1, flushed[r + 1])
        /\ record.chain = ChainOf(Hid, flushed, r + 1)
        /\ record.signature = IF due THEN Sign(Hid, checkpoint_message(ctx, record.n, record.chain))
                              ELSE None
    BY <1>2, ChunkFields
  <1>4. /\ chain_state.n_absorbed = r /\ chain_state.running_hash = ChainOf(Hid, flushed, r)
        /\ metrics.n_signatures = Checkpoints(r) /\ reconstructed = SubSeq(flushed, 1, r)
        /\ metrics.all_signatures_valid /\ metrics.all_aead_ok /\ metrics.all_in_order
        /\ terminal_seen = FALSE /\ metrics.stream_fully_verified = None
    BY DEF Holds, Passed
  <1>5. /\ chain_state'.n_absorbed = r + 1 /\ chain_state'.running_hash = ChainOf(Hid, flushed, r + 1)
    <2>1. chain_state' = ChainAbsorb(chain_state, record)
      BY DEF OnChainChunk
    <2>2. chain_state'.running_hash = absorb(chain_state.running_hash, record.n, record.env)
          /\ chain_state'.n_absorbed = chain_state.n_absorbed + 1
      BY <2>1 DEF ChainAbsorb
    <2>3. QED
      BY <1>1, <1>3, <1>4, <2>2, ChainNext
  <1>6. due => record.signature # None
    <2>1. record.chain \in Hashes
      BY <1>1, <1>2, <1>3, ChainOfType
    <2>2. checkpoint_message(ctx, record.n, record.chain) \in Messages
      <3>1. record.env \in Envelopes
        <4>1. flushed[r + 1] \in Seq(Nat)
          BY <1>1, <1>2, ElementOfSeq
        <4>2. QED
          BY <1>3, <4>1, EnvelopeType
      <3>2. QED
        BY <1>3, <2>1, <3>1, MessageTypes DEF ctx
    <2>3. QED
      BY <1>3, <2>2, SignatureType, NoneAssumption
  <1> DEFINE result == verify_hash_chain_chunk(record, chain_state', k)
  <1>7. /\ result.checkpoint_missing = FALSE /\ result.checkpoint = due
        /\ result.checkpoint_valid = due /\ result.aead_ok = TRUE
    <2>1. /\ result.checkpoint = (record.signature # None)
          /\ result.checkpoint_missing
               = (k > 0 /\ chain_state'.n_absorbed % k = 0 /\ ~(record.signature # None))
          /\ result.checkpoint_valid = (record.signature # None
               /\ record.signature = Sign(Hid, checkpoint_message(ctx, record.n, chain_state'.running_hash)))
          /\ result.aead_ok = (record.env.key = Hid)
      BY DEF verify_hash_chain_chunk, Verify, Decrypts
    <2>2. record.env.key = Hid
      BY <1>3 DEF aead_encrypt
    <2> HIDE DEF result
    <2>3. CASE due
      BY <1>3, <1>5, <1>6, <2>1, <2>2, <2>3
    <2>4. CASE ~due
      BY <1>3, <1>5, <2>1, <2>2, <2>4
    <2>5. QED
      BY <2>3, <2>4
  <1> HIDE DEF result
  <1>8. /\ metrics' = [metrics EXCEPT
              !.all_aead_ok = @ /\ result.aead_ok,
              !.all_signatures_valid = @ /\ ~result.checkpoint_missing
                                         /\ (result.checkpoint => result.checkpoint_valid),
              !.n_signatures = IF result.checkpoint THEN @ + 1 ELSE @,
              !.max_unverified_chunks =
                  IF result.checkpoint_valid THEN Larger(@, pending + 1) ELSE @]
        /\ reconstructed' = (IF result.aead_ok THEN Extend(reconstructed, record.env.text)
                             ELSE reconstructed)
        /\ UNCHANGED terminal_seen
    BY DEF OnChainChunk, result
  <1>9. Checkpoints(r + 1)' = IF due THEN Checkpoints(r) + 1 ELSE Checkpoints(r)
    <2>1. Checkpoints(r + 1)' = IF k > 0 THEN (r + 1) \div k ELSE 0
      BY <1>1 DEF Checkpoints
    <2>2. CASE k > 0
      <3>1. (r + 1) \div k = (r \div k) + (IF (r + 1) % k = 0 THEN 1 ELSE 0)
        BY <1>1, <2>2, DivStep
      <3>2. r \div k \in Nat
        BY <1>1, <2>2, DivMod
      <3>3. QED
        BY <2>1, <2>2, <3>1, <3>2 DEF Checkpoints
    <2>3. CASE ~(k > 0)
      BY <2>1, <2>3 DEF Checkpoints
    <2>4. QED
      BY <2>2, <2>3
  <1>10. /\ metrics'.all_signatures_valid /\ metrics'.all_aead_ok /\ metrics'.all_in_order
         /\ metrics'.stream_fully_verified = None
         /\ metrics'.n_signatures = IF due THEN metrics.n_signatures + 1 ELSE metrics.n_signatures
    <2> HIDE DEF due
    <2>1. QED
      BY <1>1, <1>4, <1>7, <1>8 DEF TypeOK, Metrics
  <1>11. reconstructed' = SubSeq(flushed, 1, r + 1)
    <2>1. record.env.text = flushed[r + 1] /\ flushed[r + 1] # <<>>
      BY <1>1, <1>2, <1>3 DEF aead_encrypt
    <2>2. reconstructed' = Append(SubSeq(flushed, 1, r), flushed[r + 1])
      BY <1>4, <1>7, <1>8, <2>1 DEF Extend
    <2>3. QED
      BY <1>1, <1>2, <2>2
  <1>12. metrics'.n_signatures = Checkpoints(r + 1)'
    <2> HIDE DEF due
    <2>1. Checkpoints(r) \in Nat
      BY <1>1, DivMod DEF Checkpoints
    <2>2. QED
      BY <1>4, <1>9, <1>10, <2>1
  <1>13. QED
    BY <1>1, <1>4, <1>5, <1>8, <1>10, <1>11, <1>12 DEF Holds, Passed

-----------------------------------------------------------------------------
\* The terminal record read.
LEMMA BufferedRead ==
    ASSUME Inv, NEW c, Holds(c), strategy = "buffer_and_sign", NEW record,
           record = CapturedFinal(Hid, strategy, flushed, buffer), OnFinalBuffered(record)
    PROVE  HoldsAll'
  <1>1. TypeOK /\ UNCHANGED <<request, strategy, k, flushed, index, buffer>>
    BY RequestFixed DEF Inv, OnFinalBuffered, Read, serverVars
  <1>2. /\ record.env = aead_encrypt(Hid, 0, buffer)
        /\ record.signature = Sign(Hid, buffered_message(ctx, record.env))
    BY FinalFields DEF StrategyNames
  <1>3. /\ metrics.n_signatures = 0 /\ reconstructed = <<>> /\ metrics.stream_fully_verified = None
        /\ metrics.all_signatures_valid /\ metrics.all_aead_ok /\ metrics.all_in_order
    BY DEF Holds, Passed
  <1> DEFINE result == verify_buffer_and_sign_final(record)
  <1>4. result.signature_valid = TRUE /\ result.aead_ok = TRUE
    <2>1. /\ result.signature_valid = (record.signature = Sign(Hid, buffered_message(ctx, record.env)))
          /\ result.aead_ok = (record.signature = Sign(Hid, buffered_message(ctx, record.env))
                               /\ record.env.key = Hid)
      BY DEF verify_buffer_and_sign_final, Verify, Decrypts
    <2>2. record.env.key = Hid
      BY <1>2 DEF aead_encrypt
    <2> HIDE DEF result
    <2>3. QED
      BY <1>2, <2>1, <2>2
  <1> HIDE DEF result
  <1>5. /\ metrics' = [metrics EXCEPT
              !.all_signatures_valid = @ /\ result.signature_valid,
              !.all_aead_ok = @ /\ result.aead_ok,
              !.n_signatures = @ + 1]
        /\ reconstructed' = (IF result.aead_ok THEN Extend(reconstructed, record.env.text)
                             ELSE reconstructed)
        /\ terminal_seen' = TRUE
    BY DEF OnFinalBuffered, result
  <1>6. /\ metrics'.all_signatures_valid /\ metrics'.all_aead_ok /\ metrics'.all_in_order
        /\ metrics'.n_signatures = 1 /\ metrics'.stream_fully_verified = None
    BY <1>1, <1>3, <1>4, <1>5 DEF TypeOK, Metrics
  <1>7. reconstructed' = Extend(<<>>, buffer)
    <2>1. record.env.text = buffer
      BY <1>2 DEF aead_encrypt
    <2>2. QED
      BY <1>3, <1>4, <1>5, <2>1
  <1>8. reconstructed' = Genuine' /\ SignatureCount' = 1
    BY <1>1, <1>7 DEF Genuine, SignatureCount
  <1>9. QED
    BY <1>1, <1>5, <1>6, <1>8 DEF HoldsAll, Passed

LEMMA PerChunkEndRead ==
    ASSUME Inv, Holds(Len(flushed)), strategy = "per_chunk", NEW record,
           record = CapturedFinal(Hid, strategy, flushed, buffer), OnFinalPerChunk(record)
    PROVE  HoldsAll'
  <1>1. /\ TypeOK /\ UNCHANGED <<request, strategy, k, flushed, index, buffer>>
        /\ flushed \in Seq(Seq(Nat)) /\ index = Len(flushed) /\ index \in Nat
    BY RequestFixed DEF Inv, ServerInv, TypeOK, OnFinalPerChunk, Read, serverVars
  <1>2. /\ record.n = Len(flushed)
        /\ record.signature = Sign(Hid, end_message(ctx, record.n))
    BY FinalFields DEF StrategyNames
  <1>3. /\ metrics.n_signatures = index /\ expected_index = Len(flushed)
        /\ reconstructed = SubSeq(flushed, 1, Len(flushed))
        /\ metrics.all_signatures_valid /\ metrics.all_aead_ok /\ metrics.all_in_order
    BY <1>1 DEF Holds, Passed
  <1>4. verify_per_chunk_final(record, expected_index)
    BY <1>2, <1>3 DEF verify_per_chunk_final, Verify
  <1>5. /\ metrics' = [metrics EXCEPT
              !.stream_fully_verified =
                  /\ verify_per_chunk_final(record, expected_index)
                  /\ metrics.all_signatures_valid /\ metrics.all_aead_ok /\ metrics.all_in_order,
              !.n_signatures = @ + 1]
        /\ terminal_seen' = TRUE /\ UNCHANGED reconstructed
    BY DEF OnFinalPerChunk
  <1>6. /\ metrics'.all_signatures_valid /\ metrics'.all_aead_ok /\ metrics'.all_in_order
        /\ metrics'.n_signatures = index + 1 /\ metrics'.stream_fully_verified = TRUE
    BY <1>1, <1>3, <1>4, <1>5 DEF TypeOK, Metrics
  <1>7. reconstructed' = flushed
    BY <1>1, <1>3, <1>5
  <1>8. reconstructed' = Genuine' /\ SignatureCount' = index + 1
    BY <1>1, <1>7 DEF Genuine, SignatureCount
  <1>9. QED
    BY <1>1, <1>5, <1>6, <1>8 DEF HoldsAll, Passed

LEMMA ChainEndRead ==
    ASSUME Inv, Holds(Len(flushed)), strategy = "hash_chain", NEW record,
           record = CapturedFinal(Hid, strategy, flushed, buffer), OnFinalChain(record)
    PROVE  HoldsAll'
  <1>1. /\ TypeOK /\ UNCHANGED <<request, strategy, k, flushed, index, buffer>>
        /\ flushed \in Seq(Seq(Nat)) /\ index = Len(flushed) /\ index \in Nat /\ k \in Nat
    BY RequestFixed, RequestTypes DEF Inv, ServerInv, TypeOK, OnFinalChain, Read, serverVars
  <1>2. /\ record.n = Len(flushed) /\ record.chain = ChainOf(Hid, flushed, Len(flushed))
        /\ record.signature = Sign(Hid, final_chain_message(ctx, record.n, record.chain))
    BY FinalFields DEF StrategyNames
  <1>3. /\ metrics.n_signatures = Checkpoints(index)
        /\ chain_state.n_absorbed = Len(flushed)
        /\ chain_state.running_hash = ChainOf(Hid, flushed, Len(flushed))
        /\ reconstructed = SubSeq(flushed, 1, Len(flushed))
        /\ metrics.all_signatures_valid /\ metrics.all_aead_ok /\ metrics.all_in_order
    BY <1>1 DEF Holds, Passed
  <1> DEFINE verified == verify_hash_chain_final(record, chain_state)
  <1>4. verified = TRUE
    BY <1>2, <1>3 DEF verify_hash_chain_final, Verify
  <1> HIDE DEF verified
  <1>5. /\ metrics' = [metrics EXCEPT
              !.stream_fully_verified = verified,
              !.n_signatures = @ + 1,
              !.max_unverified_chunks = IF verified THEN Larger(@, pending) ELSE @]
        /\ terminal_seen' = TRUE /\ UNCHANGED reconstructed
    BY DEF OnFinalChain, verified
  <1>6. /\ metrics'.all_signatures_valid /\ metrics'.all_aead_ok /\ metrics'.all_in_order
        /\ metrics'.n_signatures = Checkpoints(index) + 1 /\ metrics'.stream_fully_verified = TRUE
    BY <1>1, <1>3, <1>4, <1>5 DEF TypeOK, Metrics
  <1>7. reconstructed' = flushed
    BY <1>1, <1>3, <1>5
  <1>8. reconstructed' = Genuine' /\ SignatureCount' = Checkpoints(index) + 1
    BY <1>1, <1>7 DEF Genuine, SignatureCount, Checkpoints
  <1>9. QED
    BY <1>1, <1>5, <1>6, <1>8 DEF HoldsAll, Passed

\* One record read: what it was, and what the client holds now.
LEMMA RecordRead ==
    ASSUME Inv, NEW r \in Nat, NEW c \in Nat, c = SentChunks, NEW record, record = SentRecord(r + 1),
           OnRecord(record), cli_pc' = "reading", IF r <= c THEN Holds(r) ELSE HoldsAll
    PROVE  IF r + 1 <= c THEN Holds(r + 1)' ELSE HoldsAll'
  <1>1. TypeOK /\ strategy \in StrategyNames
    BY RequestTypes DEF Inv, TypeOK
  <1>2. ~OnMalformed(record)
    BY DEF OnMalformed
  <1>3. CASE r < c
    <2>1. r + 1 <= c /\ strategy # "buffer_and_sign" /\ r < Len(flushed) /\ Holds(r)
      BY <1>1, <1>3, SentTypes DEF SentChunks
    <2>2. record = CapturedChunk(Hid, strategy, k, flushed, r + 1)
      BY <2>1 DEF SentRecord
    <2>3. record.kind = "chunk"
      BY <2>2, ChunkFields
    <2>4. OnPerChunk(record) \/ OnChainChunk(record)
      BY <1>2, <2>1, <2>3 DEF OnRecord, OnFinalBuffered, OnFinalPerChunk, OnFinalChain, OnIgnored
    <2>5. CASE OnPerChunk(record)
      <3>1. strategy = "per_chunk"
        BY <2>5 DEF OnPerChunk
      <3>2. QED
        BY <2>1, <2>2, <2>5, <3>1, PerChunkRead
    <2>6. CASE OnChainChunk(record)
      <3>1. strategy = "hash_chain"
        BY <2>6 DEF OnChainChunk
      <3>2. QED
        BY <2>1, <2>2, <2>6, <3>1, ChainChunkRead
    <2>7. QED
      BY <2>4, <2>5, <2>6
  <1>4. CASE r = c
    <2>1. ~(r + 1 <= c) /\ r + 1 = c + 1 /\ Holds(r)
      BY <1>4
    <2>2. record = CapturedFinal(Hid, strategy, flushed, buffer)
      BY <2>1 DEF SentRecord
    <2>3. CASE strategy = "buffer_and_sign"
      <3>1. record.kind = "final_buffered"
        BY <1>1, <2>2, <2>3, FinalFields
      <3>2. OnFinalBuffered(record)
        BY <1>2, <3>1 DEF OnRecord, OnPerChunk, OnChainChunk, OnFinalPerChunk, OnFinalChain, OnIgnored
      <3>3. QED
        BY <2>1, <2>2, <2>3, <3>2, BufferedRead
    <2>4. CASE strategy = "per_chunk"
      <3>1. record.kind = "final_per_chunk" /\ r = Len(flushed)
        BY <1>1, <1>4, <2>2, <2>4, FinalFields DEF SentChunks
      <3>2. OnFinalPerChunk(record)
        BY <1>2, <3>1 DEF OnRecord, OnPerChunk, OnChainChunk, OnFinalBuffered, OnFinalChain, OnIgnored
      <3>3. QED
        BY <2>1, <2>2, <2>4, <3>1, <3>2, PerChunkEndRead
    <2>5. CASE strategy = "hash_chain"
      <3>1. record.kind = "final_chain" /\ r = Len(flushed)
        BY <1>1, <1>4, <2>2, <2>5, FinalFields DEF SentChunks
      <3>2. OnFinalChain(record)
        BY <1>2, <3>1 DEF OnRecord, OnPerChunk, OnChainChunk, OnFinalBuffered, OnFinalPerChunk, OnIgnored
      <3>3. QED
        BY <2>1, <2>2, <2>5, <3>1, <3>2, ChainEndRead
    <2>6. QED
      BY <1>1, <2>3, <2>4, <2>5 DEF StrategyNames
  <1>5. CASE r > c
    <2>1. ~(r + 1 <= c) /\ r + 1 # c + 1 /\ ~(r <= c) /\ HoldsAll
      BY <1>5
    <2>2. record = DoneEvent(index)
      BY <2>1 DEF SentRecord
    <2>3. record.kind = "done"
      BY <2>2 DEF DoneEvent, Record
    <2>4. OnIgnored(record)
      BY <1>2, <2>3 DEF OnRecord, OnPerChunk, OnChainChunk, OnFinalBuffered, OnFinalPerChunk, OnFinalChain
    <2>5. UNCHANGED <<request, flushed, index, buffer, metrics, chain_state, terminal_seen,
                      expected_index, reconstructed>>
      BY <2>4 DEF OnIgnored, Read, serverVars, clientVars
    <2>6. QED
      BY <2>1, <2>5, HoldsStill
  <1>6. QED
    BY <1>3, <1>4, <1>5

\* A record taken off the wire is the next one of the stream.
LEMMA ReadInFlight ==
    ASSUME TypeOK, NEW r \in Nat, InFlight(r), Read
    PROVE  Head(wire) = SentRecord(r + 1) /\ InFlight(r + 1)' /\ UNCHANGED SentChunks /\ r < SentRecords
  <1>1. /\ wire # <<>> /\ wire \in Seq(Records) /\ wire' = Tail(wire)
        /\ UNCHANGED <<request, srv_pc, flushed, buffer, index>>
    BY DEF TypeOK, Read, serverVars
  <1>2. UNCHANGED SentChunks /\ \A i : SentRecord(i)' = SentRecord(i)
    BY <1>1, SentStill
  <1>3. UNCHANGED SentRecords
    BY <1>1, <1>2 DEF SentRecords, SentEnds
  <1>4. PICK n \in Nat : n = SentRecords
    BY <1>1, SentTypes
  <1>5. /\ r \in 0..n /\ Len(wire) = n - r /\ Len(wire) \in Nat /\ Len(wire) > 0
        /\ \A j \in 1..Len(wire) : wire[j] = SentRecord(r + j)
    BY <1>1, <1>4 DEF InFlight
  <1>6. Head(wire) = wire[1] /\ Head(wire) = SentRecord(r + 1)
    BY <1>1, <1>5
  <1>7. /\ Len(wire') = n - (r + 1) /\ r + 1 \in 0..n
        /\ \A j \in 1..Len(wire') : j + 1 \in 1..Len(wire) /\ wire'[j] = wire[j + 1]
    BY <1>1, <1>5
  <1>8. ASSUME NEW j \in 1..Len(wire')
        PROVE  wire'[j] = SentRecord((r + 1) + j)'
    <2>1. wire'[j] = SentRecord(r + (j + 1))
      BY <1>5, <1>7
    <2>2. r + (j + 1) = (r + 1) + j
      BY <1>7
    <2>3. QED
      BY <1>2, <2>1, <2>2
  <1>9. n = SentRecords' /\ r < n
    BY <1>3, <1>4, <1>5
  <1>10. QED
    BY <1>2, <1>4, <1>6, <1>7, <1>8, <1>9 DEF InFlight

LEMMA ReadsOn ==
    ASSUME Inv, NEW r \in Nat, ReadSoFar(r), wire # <<>>, OnRecord(Head(wire)), cli_pc' = "reading"
    PROVE  ReadSoFar(r + 1)'
  <1>1. Read /\ TypeOK
    BY DEF Inv, OnRecord, OnPerChunk, OnChainChunk, OnFinalBuffered, OnFinalPerChunk,
           OnFinalChain, OnIgnored, OnMalformed
  <1>2. Head(wire) = SentRecord(r + 1) /\ InFlight(r + 1)' /\ UNCHANGED SentChunks /\ r < SentRecords
    BY <1>1, ReadInFlight DEF ReadSoFar
  <1>3. PICK c \in Nat : c = SentChunks
    BY <1>1, SentTypes
  <1>4. PICK n \in Nat : n = SentRecords
    BY <1>1, SentTypes
  <1>5. /\ r \in 0..n /\ r < n /\ Len(wire) = n - r /\ Len(wire) \in Nat /\ Len(wire) > 0
        /\ IF r <= c THEN Holds(r) ELSE HoldsAll
    BY <1>1, <1>2, <1>3, <1>4 DEF ReadSoFar, InFlight, TypeOK
  <1>6. IF r + 1 <= c THEN Holds(r + 1)' ELSE HoldsAll'
    BY <1>2, <1>3, <1>4, <1>5, RecordRead
  <1>7. QED
    BY <1>2, <1>3, <1>6 DEF ReadSoFar

\* The body ends after the done event.
LEMMA EndsAccepted ==
    ASSUME Inv, NEW r \in Nat, ReadSoFar(r), EndOfBody, srv_pc = "closed"
    PROVE  AcceptedExactly'
  <1>1. TypeOK /\ wire = <<>> /\ UNCHANGED <<request, index, buffer, flushed, reconstructed>>
    BY DEF Inv, EndOfBody, serverVars
  <1>2. PICK c \in Nat : c = SentChunks
    BY <1>1, SentTypes
  <1>3. SentRecords = c + 2
    BY <1>2 DEF SentRecords, SentEnds
  <1>4. r = c + 2
    <2>1. r \in 0..(c + 2) /\ Len(wire) = (c + 2) - r /\ Len(wire) = 0
      BY <1>1, <1>3 DEF ReadSoFar, InFlight
    <2>2. QED
      BY <2>1
  <1>5. ~(r <= c)
    BY <1>4
  <1>6. HoldsAll
    BY <1>2, <1>5 DEF ReadSoFar
  <1>7. /\ metrics.all_signatures_valid /\ metrics.all_aead_ok /\ metrics.all_in_order
        /\ terminal_seen = TRUE /\ reconstructed = Genuine /\ metrics.n_signatures = SignatureCount
        /\ metrics.stream_fully_verified = None \/ metrics.stream_fully_verified = TRUE
    BY <1>6 DEF HoldsAll, Passed
  <1>8. metrics' = [metrics EXCEPT !.stream_fully_verified =
          IF ~terminal_seen THEN FALSE
          ELSE IF @ = None THEN metrics.all_signatures_valid /\ metrics.all_aead_ok
          ELSE @]
    BY DEF EndOfBody
  <1>9. /\ metrics'.all_signatures_valid /\ metrics'.all_aead_ok /\ metrics'.all_in_order
        /\ metrics'.n_signatures = metrics.n_signatures /\ metrics'.stream_fully_verified = TRUE
    BY <1>1, <1>7, <1>8 DEF TypeOK, Metrics
  <1>10. Genuine' = Genuine /\ SignatureCount' = SignatureCount
    BY <1>1, RequestFixed DEF Genuine, SignatureCount
  <1>11. QED
    BY <1>1, <1>7, <1>9, <1>10 DEF AcceptedExactly, Passed

-----------------------------------------------------------------------------
\* The steps together.
LEMMA ScheduleFlush ==
    ASSUME Inv, ScheduleInv, NEW text \in Seq(Nat), flush_buffer(text), UNCHANGED request
    PROVE  ScheduleInv'
  <1>1. UNCHANGED <<strategy, k>> /\ add_chunk(text) /\ index' = index + 1
    BY RequestFixed DEF flush_buffer
  <1>2. CASE strategy = "hash_chain"
    BY <1>1, <1>2, ChunkSent DEF ScheduleInv
  <1>3. CASE strategy # "hash_chain"
    BY <1>1, <1>3 DEF ScheduleInv
  <1>4. QED
    BY <1>2, <1>3

LEMMA StillInFlight ==
    ASSUME UNCHANGED <<request, flushed, buffer, index, wire>>, SentEnds' = SentEnds, NEW r
    PROVE  (InFlight(r)' <=> InFlight(r)) /\ UNCHANGED SentChunks
  <1>1. UNCHANGED SentChunks /\ \A i : SentRecord(i)' = SentRecord(i)
    BY SentStill
  <1>2. UNCHANGED SentRecords
    BY <1>1 DEF SentRecords
  <1>3. QED
    BY <1>1, <1>2 DEF InFlight

LEMMA ReadStill ==
    ASSUME UNCHANGED <<request, flushed, buffer, index, wire, clientVars>>, SentEnds' = SentEnds,
           NEW r
    PROVE  ReadSoFar(r)' <=> ReadSoFar(r)
  <1>1. (Holds(r)' <=> Holds(r)) /\ (HoldsAll' <=> HoldsAll)
    BY HoldsStill DEF clientVars
  <1>2. QED
    BY <1>1, StillInFlight DEF ReadSoFar

\* A token or the end of generation: a chunk is flushed, or nothing is sent.
LEMMA FlushOrNot ==
    ASSUME Inv, GenerateToken \/ EndGeneration
    PROVE  /\ srv_pc = "generating" /\ srv_pc' \in {"generating", "finalizing"}
           /\ UNCHANGED <<request, cut, faults, clientVars>>
           /\ NoFlush \/ \E text \in Seq(Nat) : flush_buffer(text)
  <1>1. TypeOK /\ token_buffer \in Seq(Nat) /\ produced \in Nat
    <2>1. TypeOK /\ max_tokens \in Nat
      BY RequestTypes DEF Inv, TypeOK
    <2>2. QED
      BY <2>1 DEF TypeOK
  <1>2. CASE GenerateToken
    <2>1. Append(token_buffer, produced + 1) \in Seq(Nat)
      BY <1>1, AppendProperties
    <2>2. QED
      BY <1>2, <2>1 DEF GenerateToken
  <1>3. CASE EndGeneration
    BY <1>1, <1>3 DEF EndGeneration
  <1>4. QED
    BY <1>2, <1>3

LEMMA ScheduleStep == Inv /\ ScheduleInv /\ [Next]_vars => ScheduleInv'
  <1> SUFFICES ASSUME Inv, ScheduleInv, [Next]_vars PROVE ScheduleInv'
    OBVIOUS
  <1>1. CASE GenerateToken \/ EndGeneration
    <2>1. UNCHANGED request /\ (NoFlush \/ \E text \in Seq(Nat) : flush_buffer(text))
      BY <1>1, FlushOrNot
    <2>2. CASE NoFlush
      BY <2>1, <2>2, ScheduleStays DEF NoFlush
    <2>3. QED
      BY <2>1, <2>2, ScheduleFlush
  <1>2. CASE ~(GenerateToken \/ EndGeneration)
    <2>1. CASE ServerNext
      BY <1>2, <2>1, ScheduleStays
         DEF ServerNext, Finalize, SendDone, Forget, Cancelled, BackendFails
    <2>2. CASE ClientNext \/ ReadError
      BY <2>2, ScheduleStays
         DEF ClientNext, ReadError, EndOfBody, OnRecord, OnPerChunk, OnChainChunk, OnFinalBuffered,
             OnFinalPerChunk, OnFinalChain, OnIgnored, OnMalformed, Read, serverVars
    <2>3. CASE FaultNext
      BY <2>3, ScheduleStays
         DEF FaultNext, Drop, Reorder, Duplicate, Replay, TamperCiphertext, TamperSignature,
             StripCheckpoint, MoveCheckpoint, Truncate, Fault, serverVars
    <2>4. CASE Finished \/ UNCHANGED vars
      BY <2>4, ScheduleStays DEF Finished, vars, serverVars
    <2>5. QED
      BY <2>1, <2>2, <2>3, <2>4 DEF Next
  <1>3. QED
    BY <1>1, <1>2

LEMMA UndisturbedServer ==
    ASSUME Inv, ScheduleInv, Undisturbed, ServerNext
    PROVE  Undisturbed'
  <1>1. CASE Cancelled
    <2>1. ~Connected /\ srv_pc' = "aborted" /\ srv_pc # "closed" /\ srv_pc # "aborted"
          /\ UNCHANGED <<cut, cli_pc>>
      BY <1>1 DEF Cancelled, clientVars
    <2>2. ~(cli_pc' = "reading" /\ ~cut')
      BY <2>1 DEF Connected
    <2>3. QED
      BY <2>1, <2>2 DEF Undisturbed
  <1>2. CASE BackendFails
    BY <1>2 DEF BackendFails, clientVars, Undisturbed
  <1>3. CASE GenerateToken \/ EndGeneration \/ Finalize \/ SendDone \/ Forget
    <2>1. /\ srv_pc \in {"generating", "finalizing", "closing", "forgetting"}
          /\ srv_pc' \in {"generating", "finalizing", "closing", "forgetting", "closed"}
          /\ UNCHANGED <<request, cut, clientVars>>
      BY <1>3, FlushOrNot DEF Finalize, SendDone, Forget
    <2>2. ~cut /\ cli_pc # "done" /\ UNCHANGED <<cut, cli_pc>>
      BY <2>1 DEF Undisturbed, clientVars
    <2>3. cli_pc = "reading" => \E r \in Nat : ReadSoFar(r)'
      <3>1. SUFFICES ASSUME cli_pc = "reading" PROVE \E r \in Nat : ReadSoFar(r)'
        OBVIOUS
      <3>2. Connected
        BY <2>2, <3>1 DEF Connected
      <3>3. PICK r \in Nat : ReadSoFar(r)
        BY <2>2, <3>1 DEF Undisturbed
      <3>4. CASE GenerateToken \/ EndGeneration
        <4>1. /\ srv_pc = "generating" /\ srv_pc' \in {"generating", "finalizing"}
              /\ NoFlush \/ \E text \in Seq(Nat) : flush_buffer(text)
          BY <3>4, FlushOrNot
        <4>2. CASE NoFlush
          <5>1. SentEnds' = SentEnds
            BY <4>1 DEF SentEnds
          <5>2. UNCHANGED <<request, flushed, buffer, index, wire, clientVars>>
            BY <2>1, <4>2 DEF NoFlush
          <5>3. QED
            BY <3>3, <5>1, <5>2, ReadStill
        <4>3. ASSUME NEW text \in Seq(Nat), flush_buffer(text)
              PROVE  ReadSoFar(r)'
          BY <2>1, <3>2, <3>3, <4>1, <4>3, FlushSends
        <4>4. QED
          BY <4>1, <4>2, <4>3
      <3>5. CASE Finalize \/ SendDone
        BY <3>2, <3>3, <3>5, EndSends
      <3>6. CASE Forget
        <4>1. SentEnds' = SentEnds
          BY <3>6 DEF SentEnds, Forget
        <4>2. UNCHANGED <<request, flushed, buffer, index, wire, clientVars>>
          BY <3>6 DEF Forget
        <4>3. QED
          BY <3>3, <4>1, <4>2, ReadStill
      <3>7. QED
        BY <1>3, <3>4, <3>5, <3>6
    <2>4. QED
      BY <2>1, <2>2, <2>3 DEF Undisturbed
  <1>4. QED
    BY <1>1, <1>2, <1>3 DEF ServerNext

LEMMA UndisturbedClient ==
    ASSUME Inv, Undisturbed, ClientNext \/ ReadError
    PROVE  Undisturbed'
  <1>1. CASE EndOfBody
    <2>1. /\ cli_pc = "reading" /\ cli_pc' = "done" /\ UNCHANGED <<cut, srv_pc>>
          /\ srv_pc = "closed" \/ cut
      BY <1>1 DEF EndOfBody, serverVars
    <2>2. CASE cut
      BY <2>1, <2>2 DEF Undisturbed
    <2>3. CASE ~cut
      <3>1. PICK r \in Nat : ReadSoFar(r)
        BY <2>1, <2>3 DEF Undisturbed
      <3>2. AcceptedExactly'
        BY <1>1, <2>1, <2>3, <3>1, EndsAccepted
      <3>3. QED
        BY <2>1, <2>3, <3>2 DEF Undisturbed
    <2>4. QED
      BY <2>2, <2>3
  <1>2. CASE wire # <<>> /\ OnRecord(Head(wire))
    <2>1. /\ cli_pc = "reading" /\ UNCHANGED <<cut, srv_pc>>
          /\ cli_pc' = "reading" \/ cli_pc' = "error"
      BY <1>2 DEF OnRecord, OnPerChunk, OnChainChunk, OnFinalBuffered, OnFinalPerChunk,
           OnFinalChain, OnIgnored, OnMalformed, Read, serverVars, clientVars
    <2>2. (cli_pc' = "reading" /\ ~cut) => \E r \in Nat : ReadSoFar(r)'
      <3>1. SUFFICES ASSUME cli_pc' = "reading", ~cut PROVE \E r \in Nat : ReadSoFar(r)'
        OBVIOUS
      <3>2. PICK r \in Nat : ReadSoFar(r)
        BY <2>1, <3>1 DEF Undisturbed
      <3>3. ReadSoFar(r + 1)' /\ r + 1 \in Nat
        BY <1>2, <3>1, <3>2, ReadsOn
      <3>4. QED
        BY <3>3
    <2>3. QED
      BY <2>1, <2>2 DEF Undisturbed
  <1>3. CASE ReadError
    BY <1>3 DEF ReadError, serverVars, Undisturbed
  <1>4. QED
    BY <1>1, <1>2, <1>3 DEF ClientNext

LEMMA UndisturbedStutter ==
    ASSUME Undisturbed, UNCHANGED vars
    PROVE  Undisturbed'
  <1>1. /\ UNCHANGED <<request, flushed, buffer, index, wire, clientVars, srv_pc, cut>>
        /\ UNCHANGED <<cli_pc, metrics, reconstructed>>
    BY DEF vars, serverVars, clientVars
  <1>2. UNCHANGED SentEnds
    BY <1>1 DEF SentEnds
  <1>3. \A r : ReadSoFar(r)' <=> ReadSoFar(r)
    BY <1>1, <1>2, ReadStill
  <1>4. AcceptedExactly' <=> AcceptedExactly
    BY <1>1, RequestFixed DEF AcceptedExactly, Passed, Genuine, SignatureCount
  <1>5. QED
    BY <1>1, <1>3, <1>4 DEF Undisturbed

LEMMA UndisturbedInit == Init => UndisturbedInv
  <1> SUFFICES ASSUME Init PROVE UndisturbedInv
    OBVIOUS
  <1>1. TypeOK /\ k \in Nat
    BY TypeInit, RequestTypes DEF TypeOK
  <1>2. ScheduleInv
    <2>1. k > 0 => 0 % k = 0
      <3>1. SUFFICES ASSUME k > 0 PROVE 0 % k = 0
        OBVIOUS
      <3>2. 0 = k * (0 \div k) + (0 % k) /\ 0 \div k \in Nat /\ 0 % k \in 0..(k - 1)
        BY <1>1, <3>1, DivMod
      <3>3. QED
        BY <1>1, <3>2
    <2>2. QED
      BY <2>1 DEF ScheduleInv, Init
  <1>3. SentRecords = 0 /\ SentChunks = 0
    BY DEF Init, SentRecords, SentChunks, SentEnds
  <1>4. Holds(0)
    <2>1. flushed = <<>> /\ SubSeq(flushed, 1, 0) = <<>>
      BY DEF Init
    <2>2. chain_state.n_absorbed = 0 /\ chain_state.running_hash = ChainOf(Hid, flushed, 0)
      BY DEF Init, NewChainState, ChainOf, genesis_hash
    <2>3. Checkpoints(0) = 0
      <3>1. k > 0 => 0 \div k = 0
        <4>1. SUFFICES ASSUME k > 0 PROVE 0 \div k = 0
          OBVIOUS
        <4>2. 0 = k * (0 \div k) + (0 % k) /\ 0 \div k \in Nat /\ 0 % k \in 0..(k - 1)
          BY <1>1, <4>1, DivMod
        <4>3. QED
          BY <1>1, <4>1, <4>2
      <3>2. QED
        BY <3>1 DEF Checkpoints
    <2>4. QED
      BY <2>1, <2>2, <2>3 DEF Init, Holds, Passed
  <1>5. ReadSoFar(0)
    <2>1. Len(wire) = 0
      BY DEF Init
    <2>2. QED
      BY <1>3, <1>4, <2>1 DEF ReadSoFar, InFlight
  <1>6. QED
    BY <1>2, <1>5 DEF Init, UndisturbedInv, Undisturbed

LEMMA UndisturbedStep == Inv /\ UndisturbedInv /\ [Next]_vars => UndisturbedInv'
  <1> SUFFICES ASSUME Inv, UndisturbedInv, [Next]_vars PROVE UndisturbedInv'
    OBVIOUS
  <1>1. ScheduleInv /\ ScheduleInv'
    BY ScheduleStep DEF UndisturbedInv
  <1>2. CASE ServerNext
    <2>1. UNCHANGED faults
      BY <1>2 DEF ServerNext, GenerateToken, EndGeneration, Finalize, SendDone, Forget, Cancelled,
                  BackendFails
    <2>2. QED
      BY <1>1, <1>2, <2>1, UndisturbedServer DEF UndisturbedInv
  <1>3. CASE ClientNext \/ ReadError
    <2>1. UNCHANGED faults
      BY <1>3 DEF ClientNext, ReadError, EndOfBody, OnRecord, OnPerChunk, OnChainChunk, OnFinalBuffered,
                  OnFinalPerChunk, OnFinalChain, OnIgnored, OnMalformed, Read
    <2>2. QED
      BY <1>1, <1>3, <2>1, UndisturbedClient DEF UndisturbedInv
  <1>4. CASE FaultNext
    <2>1. \E stream : Fault(stream)
      BY <1>4, Zenon
         DEF FaultNext, Drop, Reorder, Duplicate, Replay, TamperCiphertext, TamperSignature,
             StripCheckpoint, MoveCheckpoint, Truncate
    <2>2. faults' = faults + 1
      BY <2>1 DEF Fault
    <2>3. faults \in Nat
      BY MaxFaultsAssumption DEF Inv, TypeOK
    <2>4. faults' # 0
      BY <2>2, <2>3
    <2>5. QED
      BY <1>1, <2>4 DEF UndisturbedInv
  <1>5. CASE Finished \/ UNCHANGED vars
    <2>1. UNCHANGED vars /\ UNCHANGED faults
      BY <1>5 DEF Finished, vars
    <2>2. QED
      BY <1>1, <2>1, UndisturbedStutter DEF UndisturbedInv
  <1>6. QED
    BY <1>2, <1>3, <1>4, <1>5 DEF Next

\* A stream nothing was done to in transit is accepted with every check
\* passed, the whole text and the expected number of signatures, for every
\* strategy, chunk size and checkpoint interval (the client and the strategies
\* of crypto/streaming.py keep the same schedule).
THEOREM NothingRefused == Spec => []NoFalseRejection
  <1>1. Spec => []UndisturbedInv
    <2>1. Init => UndisturbedInv
      BY UndisturbedInit
    <2>2. Inv /\ UndisturbedInv /\ [Next]_vars => UndisturbedInv'
      BY UndisturbedStep
    <2>3. QED
      BY <2>1, <2>2, Invariance, PTL DEF Spec
  <1>2. UndisturbedInv => NoFalseRejection
    BY DEF UndisturbedInv, Undisturbed, NoFalseRejection, AcceptedExactly, Passed
  <1>3. QED
    BY <1>1, <1>2, PTL

-----------------------------------------------------------------------------
(***************************************************************************)
(* The capturing client of StreamHarvest.  It reads the same stream and    *)
(* verifies nothing, so what it has counted is again a function of how     *)
(* many records it has read; the bytes are those of the text, which the    *)
(* chunks carry, and an overhead for each envelope.                        *)
(***************************************************************************)
\* Bytes of text in the first c chunks.
TextBytes(c) == Len(FlattenSeq(SubSeq(flushed, 1, c)))

Captures == [total_ciphertext_bytes: Nat, n_signatures: Nat, n_hashes: Nat,
             n_chunks: Nat, n_wire_events: Nat, error: BOOLEAN]

\* The counts of a client that has read c chunks and ends terminal records,
\* the latter with the given bytes.
Tally(c, ends, bytes) ==
    /\ capture \in Captures
    /\ capture.n_chunks = c /\ capture.n_wire_events = c + ends
    /\ capture.n_signatures = (IF strategy = "per_chunk" THEN c ELSE 0) + ends
    /\ capture.n_hashes = IF strategy = "hash_chain" THEN c + ends ELSE 0
    /\ capture.total_ciphertext_bytes = TextBytes(c) + 28 * c + bytes

EndBytes == IF strategy = "buffer_and_sign" THEN Len(buffer) + 28 ELSE 0

Weighed(r) == IF r <= SentChunks THEN Tally(r, 0, 0) ELSE Tally(SentChunks, 1, EndBytes)

\* While it reads.
Capturing ==
    /\ cli_pc = "reading" /\ k = 0 /\ Inv /\ ChunksInv /\ ScheduleInv
    /\ faults = 0 =>
          /\ cut => srv_pc = "aborted"
          /\ ~cut => srv_pc # "aborted" /\ \E r \in Nat : InFlight(r) /\ Weighed(r)

\* When it has read, nothing happens any more to a stream that was complete.
CaptureDone ==
    /\ cli_pc \in {"captured", "error"} /\ faults \in Nat
    /\ Captured => srv_pc = "closed" /\ CaptureAsPredicted

HarvestInv == capture # None => Capturing \/ CaptureDone

-----------------------------------------------------------------------------
LEMMA SubSeqNext ==
    ASSUME NEW S, NEW s \in Seq(S), NEW c \in Nat, c < Len(s)
    PROVE  SubSeq(s, 1, c + 1) = Append(SubSeq(s, 1, c), s[c + 1]) /\ s[c + 1] \in S
           /\ SubSeq(s, 1, c) \in Seq(S)
  <1>1. PICK f \in Seq(S) : f = SubSeq(s, 1, c) /\ Len(f) = c /\ \A i \in 1..c : f[i] = s[i]
    <2>1. SubSeq(s, 1, c) \in Seq(S) /\ Len(SubSeq(s, 1, c)) = c
          /\ \A i \in 1..c : SubSeq(s, 1, c)[i] = s[i]
      OBVIOUS
    <2>2. QED
      BY <2>1
  <1>2. PICK g \in Seq(S) : g = SubSeq(s, 1, c + 1) /\ Len(g) = c + 1 /\ \A i \in 1..(c + 1) : g[i] = s[i]
    <2>1. SubSeq(s, 1, c + 1) \in Seq(S) /\ Len(SubSeq(s, 1, c + 1)) = c + 1
          /\ \A i \in 1..(c + 1) : SubSeq(s, 1, c + 1)[i] = s[i]
      OBVIOUS
    <2>2. QED
      BY <2>1
  <1>3. PICK x \in S : x = s[c + 1]
    BY ElementOfSeq
  <1>4. /\ Append(f, x) \in Seq(S) /\ Len(Append(f, x)) = c + 1
        /\ \A i \in 1..c : Append(f, x)[i] = f[i]
        /\ Append(f, x)[c + 1] = x
    BY <1>1, AppendProperties
  <1>5. \A i \in 1..(c + 1) : Append(f, x)[i] = g[i]
    BY <1>1, <1>2, <1>3, <1>4
  <1>6. Append(f, x) = g
    BY <1>2, <1>4, <1>5, SeqEqual
  <1>7. QED
    BY <1>1, <1>2, <1>3, <1>6

\* The bytes of the text, chunk by chunk.
LEMMA TextType ==
    ASSUME NEW s \in Seq(Seq(Nat))
    PROVE  FlattenSeq(s) \in Seq(Nat)
  <1> DEFINE Bad == {n \in Nat : \E t \in Seq(Seq(Nat)) : Len(t) = n /\ FlattenSeq(t) \notin Seq(Nat)}
  <1>1. SUFFICES ASSUME Bad # {} PROVE FALSE
    BY LenProperties
  <1>2. PICK n \in Bad : \A m \in Bad : ~(m < n)
    <2>1. Bad \subseteq Nat
      OBVIOUS
    <2> HIDE DEF Bad
    <2>2. QED
      BY <1>1, <2>1, Least, Zenon
  <1>3. PICK t \in Seq(Seq(Nat)) : Len(t) = n /\ FlattenSeq(t) \notin Seq(Nat)
    OBVIOUS
  <1>4. n # 0
    <2>1. SUFFICES ASSUME n = 0 PROVE FALSE
      OBVIOUS
    <2>2. t = <<>>
      BY <1>3, <2>1, EmptySeq
    <2>3. FlattenSeq(t) = <<>>
      BY <2>2 DEF FlattenSeq
    <2>4. QED
      BY <1>3, <2>3
  <1>5. PICK f \in Seq(Seq(Nat)), x \in Seq(Nat) : t = Append(f, x) /\ Len(f) = n - 1
    <2>1. PICK m \in Nat : m = n - 1 /\ m + 1 = n /\ m < Len(t)
      BY <1>3, <1>4
    <2>2. SubSeq(t, 1, n) = Append(SubSeq(t, 1, m), t[n]) /\ t[n] \in Seq(Nat) /\ SubSeq(t, 1, m) \in Seq(Seq(Nat))
      BY <2>1, SubSeqNext, Zenon
    <2>3. SubSeq(t, 1, n) = t
      BY <1>3, SubSeqWhole
    <2>4. Len(SubSeq(t, 1, m)) = m
      BY <2>1
    <2>5. QED
      BY <2>1, <2>2, <2>3, <2>4, Zenon
  <1>6. n - 1 \notin Bad /\ n - 1 \in Nat
    <2>1. n \in Nat /\ n - 1 \in Nat /\ n - 1 < n
      BY <1>4
    <2> HIDE DEF Bad
    <2>2. QED
      BY <1>2, <2>1
  <1>7. FlattenSeq(f) \in Seq(Nat)
    BY <1>5, <1>6
  <1>8. FlattenSeq(t) = FlattenSeq(f) \o x
    BY <1>5, FlattenAppend
  <1>9. QED
    BY <1>3, <1>7, <1>8, ConcatProperties

LEMMA TextNext ==
    ASSUME flushed \in Seq(Seq(Nat)), NEW c \in Nat, c < Len(flushed)
    PROVE  /\ TextBytes(c) \in Nat /\ Len(flushed[c + 1]) \in Nat
           /\ TextBytes(c + 1) = TextBytes(c) + Len(flushed[c + 1])
  <1>1. PICK f \in Seq(Seq(Nat)), x \in Seq(Nat) :
           f = SubSeq(flushed, 1, c) /\ x = flushed[c + 1] /\ SubSeq(flushed, 1, c + 1) = Append(f, x)
    <2>1. /\ SubSeq(flushed, 1, c + 1) = Append(SubSeq(flushed, 1, c), flushed[c + 1])
          /\ flushed[c + 1] \in Seq(Nat) /\ SubSeq(flushed, 1, c) \in Seq(Seq(Nat))
      BY SubSeqNext, Zenon
    <2>2. QED
      BY <2>1, Zenon
  <1>2. FlattenSeq(f) \in Seq(Nat) /\ FlattenSeq(Append(f, x)) = FlattenSeq(f) \o x
    BY TextType, FlattenAppend
  <1>3. Len(FlattenSeq(f) \o x) = Len(FlattenSeq(f)) + Len(x) /\ Len(FlattenSeq(f)) \in Nat /\ Len(x) \in Nat
    BY <1>2, ConcatProperties, LenProperties
  <1>4. QED
    BY <1>1, <1>2, <1>3 DEF TextBytes

LEMMA TextStays ==
    ASSUME flushed \in Seq(Seq(Nat)), NEW c \in Nat, c <= Len(flushed), NEW text \in Seq(Nat),
           flushed' = Append(flushed, text)
    PROVE  TextBytes(c)' = TextBytes(c)
  <1>1. SubSeq(flushed', 1, c) = SubSeq(flushed, 1, c)
    BY AppendProperties
  <1>2. QED
    BY <1>1 DEF TextBytes

\* Once the last chunk is flushed the chunks are the text.
LEMMA TextWhole ==
    ASSUME ChunksInv, srv_pc = "closed"
    PROVE  /\ TextBytes(Len(flushed)) = produced /\ TextBytes(0) = 0
           /\ strategy = "buffer_and_sign" => Len(buffer) = produced
  <1>1. /\ token_buffer = <<>> /\ FlattenSeq(flushed) \in Seq(Nat) /\ flushed \in Seq(Seq(Nat))
        /\ FlattenSeq(flushed) \o token_buffer = Tokens(produced) /\ produced \in Nat
        /\ strategy = "buffer_and_sign" => buffer = FlattenSeq(flushed)
    BY RequestTypes DEF ChunksInv, TypeOK
  <1>2. FlattenSeq(flushed) = Tokens(produced)
    BY <1>1, ConcatEmptySeq
  <1>3. Len(Tokens(produced)) = produced
    BY <1>1 DEF Tokens
  <1>4. SubSeq(flushed, 1, Len(flushed)) = flushed /\ SubSeq(flushed, 1, 0) = <<>>
    BY <1>1, SubSeqWhole
  <1>5. FlattenSeq(<<>>) = <<>>
    BY DEF FlattenSeq
  <1>6. TextBytes(Len(flushed)) = produced
    BY <1>2, <1>3, <1>4, Zenon DEF TextBytes
  <1>7. TextBytes(0) = 0
    <2>1. Len(<<>>) = 0
      OBVIOUS
    <2>2. QED
      BY <1>4, <1>5, <2>1, Zenon DEF TextBytes
  <1>8. QED
    BY <1>1, <1>2, <1>3, <1>6, <1>7, Zenon

-----------------------------------------------------------------------------
\* What has been counted depends on what was read, not on what is still sent.
LEMMA WeighedStill ==
    ASSUME UNCHANGED <<request, flushed, buffer, index, capture>>, NEW r
    PROVE  Weighed(r)' <=> Weighed(r)
  <1>1. UNCHANGED SentChunks
    BY SentStill
  <1>2. UNCHANGED strategy /\ \A c : TextBytes(c)' = TextBytes(c)
    BY RequestFixed DEF TextBytes
  <1>3. \A c, ends, bytes : Tally(c, ends, bytes)' <=> Tally(c, ends, bytes)
    BY <1>2 DEF Tally
  <1>4. EndBytes' = EndBytes
    BY <1>2 DEF EndBytes
  <1>5. QED
    BY <1>1, <1>3, <1>4 DEF Weighed

LEMMA WeighedOn ==
    ASSUME TypeOK, NEW text \in Seq(Nat), flushed' = Append(flushed, text), UNCHANGED <<request, capture>>,
           NEW r \in Nat, r <= SentChunks, r <= SentChunks', Weighed(r)
    PROVE  Weighed(r)'
  <1>1. Tally(r, 0, 0) /\ UNCHANGED strategy
    BY RequestFixed DEF Weighed
  <1>2. r <= Len(flushed) /\ flushed \in Seq(Seq(Nat))
    <2>1. PICK c \in Nat, n \in Nat : c = SentChunks /\ n = Len(flushed) /\ c <= n
      BY SentTypes
    <2>2. QED
      BY <2>1 DEF TypeOK
  <1>3. TextBytes(r)' = TextBytes(r)
    BY <1>2, TextStays
  <1>4. Tally(r, 0, 0)'
    BY <1>1, <1>3 DEF Tally
  <1>5. QED
    BY <1>4 DEF Weighed

\* A record off the wire, counted.
Updated(m, t, a, b, e, w) ==
    [m EXCEPT !.total_ciphertext_bytes = t, !.n_signatures = a, !.n_hashes = b, !.n_chunks = e,
              !.n_wire_events = w]

LEMMA CountedAs ==
    ASSUME NEW record, record.kind # "done", CaptureLine(record), NEW c \in Nat, NEW ends \in Nat, NEW bytes \in Nat,
           Tally(c, ends, bytes), TextBytes(c) \in Nat,
           NEW more \in Nat, EnvelopeBytes(record.env) = more
    PROVE  /\ capture' \in Captures
           /\ capture'.total_ciphertext_bytes = TextBytes(c) + 28 * c + bytes + more
           /\ capture'.n_signatures = (IF strategy = "per_chunk" THEN c ELSE 0) + ends + Count(record.signature)
           /\ capture'.n_hashes = (IF strategy = "hash_chain" THEN c + ends ELSE 0) + Count(record.chain)
           /\ capture'.n_chunks = c + (IF record.kind = "chunk" THEN 1 ELSE 0)
           /\ capture'.n_wire_events = c + ends + 1
  <1>1. /\ capture \in Captures /\ capture.n_chunks = c /\ capture.n_wire_events = c + ends
        /\ capture.n_signatures = (IF strategy = "per_chunk" THEN c ELSE 0) + ends
        /\ capture.n_hashes = IF strategy = "hash_chain" THEN c + ends ELSE 0
        /\ capture.total_ciphertext_bytes = TextBytes(c) + 28 * c + bytes
    BY DEF Tally
  <1>2. PICK s \in {0, 1}, h \in {0, 1}, d \in {0, 1} :
           s = Count(record.signature) /\ h = Count(record.chain) /\ d = IF record.kind = "chunk" THEN 1 ELSE 0
    BY DEF Count
  <1>3. capture' = [capture EXCEPT !.total_ciphertext_bytes = @ + more, !.n_signatures = @ + s,
                                   !.n_hashes = @ + h, !.n_chunks = @ + d, !.n_wire_events = @ + 1]
    BY <1>2 DEF CaptureLine
  <1>4. PICK t \in Nat, a \in Nat, b \in Nat, e \in Nat, w \in Nat :
           /\ t = capture.total_ciphertext_bytes /\ a = capture.n_signatures /\ b = capture.n_hashes
           /\ e = capture.n_chunks /\ w = capture.n_wire_events
    BY <1>1 DEF Captures
  <1>5. /\ capture' \in Captures
        /\ capture'.total_ciphertext_bytes = t + more /\ capture'.n_signatures = a + s
        /\ capture'.n_hashes = b + h /\ capture'.n_chunks = e + d /\ capture'.n_wire_events = w + 1
    <2>1. t + more \in Nat /\ a + s \in Nat /\ b + h \in Nat /\ e + d \in Nat /\ w + 1 \in Nat
      BY <1>4
    <2>2. capture' = Updated(capture, t + more, a + s, b + h, e + d, w + 1)
      BY <1>3, <1>4, Zenon DEF Updated
    <2>3. PICK T \in Nat, A \in Nat, B \in Nat, E \in Nat, W \in Nat :
             T = t + more /\ A = a + s /\ B = b + h /\ E = e + d /\ W = w + 1
      BY <2>1
    <2>4. PICK m \in Captures : m = capture
      BY <1>1
    <2>5. LET u == Updated(m, T, A, B, E, W)
          IN  /\ u \in Captures /\ u.total_ciphertext_bytes = T /\ u.n_signatures = A
              /\ u.n_hashes = B /\ u.n_chunks = E /\ u.n_wire_events = W
      BY DEF Captures, Updated
    <2>6. capture' = Updated(m, T, A, B, E, W)
      BY <2>2, <2>3, <2>4, Zenon
    <2>7. QED
      BY <2>3, <2>5, <2>6, Zenon
  <1>6. QED
    BY <1>1, <1>2, <1>4, <1>5

LEMMA FieldsAre ==
    ASSUME NEW sig \in Signatures, NEW hash \in Hashes, NEW env \in Envelopes
    PROVE  /\ Count(sig) = 1 /\ Count(hash) = 1 /\ Count(None) = 0
           /\ EnvelopeBytes(None) = 0 /\ EnvelopeBytes(env) = Len(env.text) + 28
           /\ Len(env.text) \in Nat
  <1>1. sig # None /\ hash # None /\ env # None
    BY NoneAssumption
  <1>2. Len(env.text) \in Nat
    BY DEF Envelopes
  <1>3. QED
    BY <1>1, <1>2 DEF Count, EnvelopeBytes, overhead_per_extra_envelope, GCM_NONCE_BYTES, GCM_TAG_BYTES

\* The kinds of records a stream without checkpoints consists of.
LEMMA ChunkWeighed ==
    ASSUME TypeOK, k = 0, NEW c \in Nat, c < SentChunks, CaptureLine(SentRecord(c + 1)), Tally(c, 0, 0)
    PROVE  Tally(c + 1, 0, 0)'
  <1>1. /\ strategy # "buffer_and_sign" /\ strategy \in StrategyNames /\ c < Len(flushed)
        /\ flushed \in Seq(Seq(Nat)) /\ c + 1 \in 0..Len(flushed) /\ c + 1 <= SentChunks
    BY RequestTypes, SentTypes DEF SentChunks, TypeOK
  <1>2. PICK record : record = SentRecord(c + 1)
    OBVIOUS
  <1>3. record = CapturedChunk(Hid, strategy, k, flushed, c + 1)
    BY <1>1, <1>2 DEF SentRecord
  <1>4. /\ TextBytes(c) \in Nat /\ Len(flushed[c + 1]) \in Nat
        /\ TextBytes(c + 1) = TextBytes(c) + Len(flushed[c + 1])
    BY <1>1, TextNext
  <1>5. PICK env \in Envelopes, hash \in Hashes :
           /\ env = aead_encrypt(Hid, c + 1, flushed[c + 1]) /\ hash = ChainOf(Hid, flushed, c + 1)
           /\ env.text = flushed[c + 1]
    <2>1. flushed[c + 1] \in Seq(Nat)
      BY <1>1, ElementOfSeq
    <2>2. aead_encrypt(Hid, c + 1, flushed[c + 1]) \in Envelopes
      BY <2>1, EnvelopeType
    <2>3. ChainOf(Hid, flushed, c + 1) \in Hashes
      BY <1>1, ChainOfType
    <2>4. QED
      BY <2>2, <2>3 DEF aead_encrypt
  <1>6. /\ record.kind = "chunk" /\ record.env = env
        /\ strategy = "per_chunk" => record.chain = None /\ record.signature \in Signatures
        /\ strategy # "per_chunk" => record.chain = hash /\ record.signature = None
    <2>1. record = IF strategy = "per_chunk"
                   THEN ChunkRow(c + 1 - 1, env, None, Sign(Hid, chunk_message(ctx, c + 1 - 1, env)))
                   ELSE ChunkRow(c + 1 - 1, env, hash, None)
      BY <1>3, <1>5 DEF CapturedChunk, ctx
    <2>2. Sign(Hid, chunk_message(ctx, c + 1 - 1, env)) \in Signatures
      <3>1. c + 1 - 1 \in Nat
        OBVIOUS
      <3>2. chunk_message(ctx, c + 1 - 1, env) \in Messages
        BY <3>1, MessageTypes, ContextTypes DEF ctx
      <3>3. QED
        BY <3>2, SignatureType
    <2>3. QED
      BY <2>1, <2>2 DEF ChunkRow, Record
  <1>7. PICK sig \in Signatures : strategy = "per_chunk" => record.signature = sig
    <2>1. CASE strategy = "per_chunk"
      BY <1>6, <2>1
    <2>2. CASE strategy # "per_chunk"
      <3>1. Sign(Hid, chunk_message(ctx, 0, env)) \in Signatures
        <4>1. chunk_message(ctx, 0, env) \in Messages
          BY MessageTypes, ContextTypes DEF ctx
        <4>2. QED
          BY <4>1, SignatureType
      <3>2. QED
        BY <2>2, <3>1
    <2>3. QED
      BY <2>1, <2>2
  <1>8. /\ Count(sig) = 1 /\ Count(hash) = 1 /\ Count(None) = 0
        /\ EnvelopeBytes(env) = Len(env.text) + 28 /\ Len(env.text) \in Nat
    BY FieldsAre
  <1>9. PICK more \in Nat : more = Len(flushed[c + 1]) + 28 /\ EnvelopeBytes(record.env) = more
    BY <1>4, <1>5, <1>6, <1>8
  <1>10. /\ capture' \in Captures
         /\ capture'.total_ciphertext_bytes = TextBytes(c) + 28 * c + 0 + more
         /\ capture'.n_signatures = (IF strategy = "per_chunk" THEN c ELSE 0) + 0 + Count(record.signature)
         /\ capture'.n_hashes = (IF strategy = "hash_chain" THEN c + 0 ELSE 0) + Count(record.chain)
         /\ capture'.n_chunks = c + (IF record.kind = "chunk" THEN 1 ELSE 0)
         /\ capture'.n_wire_events = c + 0 + 1
    <2>1. record.kind # "done" /\ CaptureLine(record)
      BY <1>2, <1>6
    <2>2. QED
      BY <1>4, <1>9, <2>1, CountedAs
  <1>11. UNCHANGED <<strategy, flushed>>
    BY RequestFixed DEF CaptureLine, Read, serverVars
  <1>12. TextBytes(c + 1)' = TextBytes(c + 1)
    BY <1>11 DEF TextBytes
  <1>13. /\ capture'.total_ciphertext_bytes = TextBytes(c + 1) + 28 * (c + 1) + 0
         /\ capture'.n_chunks = c + 1 /\ capture'.n_wire_events = (c + 1) + 0
         /\ capture'.n_signatures = (IF strategy = "per_chunk" THEN c + 1 ELSE 0) + 0
         /\ capture'.n_hashes = IF strategy = "hash_chain" THEN (c + 1) + 0 ELSE 0
    BY <1>1, <1>4, <1>6, <1>7, <1>8, <1>9, <1>10 DEF StrategyNames
  <1>14. QED
    BY <1>10, <1>11, <1>12, <1>13 DEF Tally

LEMMA FinalWeighed ==
    ASSUME Inv, NEW c \in Nat, c = SentChunks, CaptureLine(SentRecord(c + 1)), Tally(c, 0, 0)
    PROVE  Tally(c, 1, EndBytes)'
  <1>1. /\ TypeOK /\ strategy \in StrategyNames /\ c <= Len(flushed) /\ Len(flushed) \in Nat
        /\ flushed \in Seq(Seq(Nat)) /\ buffer \in Seq(Nat) /\ Len(buffer) \in Nat
    BY RequestTypes, SentTypes DEF Inv, TypeOK
  <1>2. PICK record : record = SentRecord(c + 1)
    OBVIOUS
  <1>3. record = CapturedFinal(Hid, strategy, flushed, buffer)
    <2>1. ~(c + 1 <= c) /\ c + 1 = c + 1
      OBVIOUS
    <2>2. QED
      BY <1>2, <2>1 DEF SentRecord
  <1>4. TextBytes(c) \in Nat
    <2>1. SubSeq(flushed, 1, c) \in Seq(Seq(Nat))
      BY <1>1
    <2>2. FlattenSeq(SubSeq(flushed, 1, c)) \in Seq(Nat)
      BY <2>1, TextType
    <2>3. QED
      BY <2>2, LenProperties DEF TextBytes
  <1>5. PICK env \in Envelopes, hash \in Hashes :
           /\ env = aead_encrypt(Hid, 0, buffer) /\ hash = ChainOf(Hid, flushed, Len(flushed))
           /\ env.text = buffer
    <2>1. aead_encrypt(Hid, 0, buffer) \in Envelopes
      BY <1>1, EnvelopeType
    <2>2. Len(flushed) \in 0..Len(flushed)
      BY <1>1
    <2>3. ChainOf(Hid, flushed, Len(flushed)) \in Hashes
      BY <1>1, <2>2, ChainOfType
    <2>4. QED
      BY <2>1, <2>3 DEF aead_encrypt
  <1>6. PICK n \in Nat : n = Len(flushed)
    BY <1>1
  <1>7. /\ record.kind # "chunk" /\ record.kind # "done" /\ record.signature \in Signatures
        /\ strategy = "buffer_and_sign" => record.env = env /\ record.chain = None
        /\ strategy = "per_chunk" => record.env = None /\ record.chain = None
        /\ strategy = "hash_chain" => record.env = None /\ record.chain = hash
    <2>1. /\ buffered_message(ctx, env) \in Messages /\ end_message(ctx, n) \in Messages
          /\ final_chain_message(ctx, n, hash) \in Messages
      BY MessageTypes, ContextTypes DEF ctx
    <2>2. /\ Sign(Hid, buffered_message(ctx, env)) \in Signatures /\ Sign(Hid, end_message(ctx, n)) \in Signatures
          /\ Sign(Hid, final_chain_message(ctx, n, hash)) \in Signatures
      BY <2>1, SignatureType
    <2>3. /\ strategy = "buffer_and_sign" => record = BufferedFinal(env, Sign(Hid, buffered_message(ctx, env)))
          /\ strategy = "per_chunk" => record = PerChunkFinal(n, Sign(Hid, end_message(ctx, n)))
          /\ strategy = "hash_chain" => record = ChainFinal(n, hash, Sign(Hid, final_chain_message(ctx, n, hash)))
      BY <1>3, <1>5, <1>6 DEF CapturedFinal, ctx
    <2>4. QED
      BY <1>1, <2>2, <2>3 DEF BufferedFinal, PerChunkFinal, ChainFinal, Record, StrategyNames
  <1>8. PICK sig \in Signatures : record.signature = sig
    BY <1>7
  <1>9. /\ Count(sig) = 1 /\ Count(hash) = 1 /\ Count(None) = 0
        /\ EnvelopeBytes(env) = Len(env.text) + 28 /\ EnvelopeBytes(None) = 0
    BY FieldsAre
  <1>10. PICK more \in Nat : more = EndBytes /\ EnvelopeBytes(record.env) = more
    <2>1. EndBytes \in Nat
      BY <1>1 DEF EndBytes
    <2>2. EnvelopeBytes(record.env) = EndBytes
      BY <1>1, <1>5, <1>7, <1>9 DEF EndBytes, StrategyNames
    <2>3. QED
      BY <2>1, <2>2
  <1>11. /\ capture' \in Captures
         /\ capture'.total_ciphertext_bytes = TextBytes(c) + 28 * c + 0 + more
         /\ capture'.n_signatures = (IF strategy = "per_chunk" THEN c ELSE 0) + 0 + Count(record.signature)
         /\ capture'.n_hashes = (IF strategy = "hash_chain" THEN c + 0 ELSE 0) + Count(record.chain)
         /\ capture'.n_chunks = c + (IF record.kind = "chunk" THEN 1 ELSE 0)
         /\ capture'.n_wire_events = c + 0 + 1
    <2>1. CaptureLine(record)
      BY <1>2
    <2>2. QED
      BY <1>4, <1>7, <1>10, <2>1, CountedAs
  <1>12. UNCHANGED <<strategy, flushed, buffer>>
    BY RequestFixed DEF CaptureLine, Read, serverVars
  <1>13. TextBytes(c)' = TextBytes(c) /\ EndBytes' = EndBytes
    BY <1>12 DEF TextBytes, EndBytes
  <1>14. /\ capture'.total_ciphertext_bytes = TextBytes(c) + 28 * c + EndBytes
         /\ capture'.n_chunks = c /\ capture'.n_wire_events = c + 1
         /\ capture'.n_signatures = (IF strategy = "per_chunk" THEN c ELSE 0) + 1
         /\ capture'.n_hashes = IF strategy = "hash_chain" THEN c + 1 ELSE 0
    BY <1>1, <1>4, <1>7, <1>8, <1>9, <1>10, <1>11 DEF StrategyNames
  <1>15. QED
    BY <1>11, <1>12, <1>13, <1>14 DEF Tally

\* A line read: the count moves on with the stream.
LEMMA LineWeighed ==
    ASSUME Inv, k = 0, NEW r \in Nat, InFlight(r), Weighed(r), wire # <<>>, CaptureLine(Head(wire))
    PROVE  InFlight(r + 1)' /\ Weighed(r + 1)'
  <1>1. Read /\ TypeOK
    BY DEF CaptureLine, Inv
  <1>2. Head(wire) = SentRecord(r + 1) /\ InFlight(r + 1)' /\ UNCHANGED SentChunks
    BY <1>1, ReadInFlight
  <1>3. PICK c \in Nat : c = SentChunks /\ c = SentChunks'
    BY <1>1, <1>2, SentTypes
  <1>4. CASE r < c
    <2>1. Tally(r, 0, 0)
      BY <1>3, <1>4 DEF Weighed
    <2>2. Tally(r + 1, 0, 0)'
      BY <1>1, <1>2, <1>3, <1>4, <2>1, ChunkWeighed
    <2>3. r + 1 <= SentChunks'
      BY <1>3, <1>4
    <2>4. QED
      BY <1>2, <2>2, <2>3 DEF Weighed
  <1>5. CASE r = c
    <2>1. Tally(c, 0, 0) /\ CaptureLine(SentRecord(c + 1))
      BY <1>2, <1>3, <1>5 DEF Weighed
    <2>2. Tally(c, 1, EndBytes)'
      BY <1>3, <2>1, FinalWeighed
    <2>3. ~(r + 1 <= c)
      BY <1>5
    <2>4. QED
      BY <1>2, <1>3, <2>2, <2>3 DEF Weighed
  <1>6. CASE r > c
    <2>1. ~(r + 1 <= c) /\ r + 1 # c + 1 /\ ~(r <= c)
      BY <1>6
    <2>2. SentRecord(r + 1) = DoneEvent(index)
      BY <1>3, <2>1 DEF SentRecord
    <2>3. UNCHANGED capture
      BY <1>2, <2>2 DEF CaptureLine, DoneEvent, Record
    <2>4. Tally(SentChunks, 1, EndBytes) /\ ~(r <= SentChunks)
      BY <1>3, <2>1 DEF Weighed
    <2>5. UNCHANGED <<request, flushed, buffer, index>>
      BY <1>1 DEF Read, serverVars
    <2>6. Weighed(r)'
      BY <2>3, <2>5, WeighedStill
    <2>7. QED
      BY <1>2, <1>3, <2>1, <2>6 DEF Weighed
  <1>7. QED
    BY <1>3, <1>4, <1>5, <1>6

LEMMA CapturingReads ==
    ASSUME Capturing, wire # <<>>, CaptureLine(Head(wire))
    PROVE  Capturing'
  <1>1. /\ Inv /\ TypeOK /\ ChunksInv /\ ScheduleInv /\ k = 0 /\ Read
        /\ UNCHANGED <<request, serverVars, cut, faults, clientVars>>
    BY DEF Capturing, CaptureLine, Read, Inv
  <1>2. wire' \in Seq(AuthenticRecords) /\ wire' \in Seq(Records)
    BY <1>1, ReadKeepsWire DEF Inv, TypeOK
  <1>3. TypeOK'
    BY <1>1, <1>2, RequestFixed DEF TypeOK, serverVars, clientVars, max_tokens, chunk_size_tokens
  <1>4. Inv'
    BY <1>1, <1>2, <1>3, ServerIdle, ClientStable DEF Inv, clientVars
  <1>5. ChunksInv'
    BY <1>1, <1>3, ChunksStay DEF chunkVars, serverVars
  <1>6. ScheduleInv' /\ k' = 0 /\ cli_pc' = "reading"
    BY <1>1, ScheduleStays, RequestFixed DEF serverVars, clientVars, Capturing
  <1>7. (faults' = 0 /\ ~cut') => \E r \in Nat : (InFlight(r) /\ Weighed(r))'
    <2>1. SUFFICES ASSUME faults = 0, ~cut PROVE \E r \in Nat : (InFlight(r) /\ Weighed(r))'
      BY <1>1
    <2>2. PICK r \in Nat : InFlight(r) /\ Weighed(r)
      BY <2>1 DEF Capturing
    <2>3. InFlight(r + 1)' /\ Weighed(r + 1)' /\ r + 1 \in Nat
      BY <1>1, <2>2, LineWeighed
    <2>4. QED
      BY <2>3
  <1>8. UNCHANGED srv_pc
    BY <1>1 DEF serverVars
  <1>9. QED
    BY <1>1, <1>4, <1>5, <1>6, <1>7, <1>8 DEF Capturing

LEMMA CapturingServes ==
    ASSUME Capturing, ServerStep
    PROVE  Capturing'
  <1>1. /\ Inv /\ TypeOK /\ ChunksInv /\ ScheduleInv /\ k = 0 /\ ServerNext /\ UNCHANGED capture
        /\ cli_pc = "reading" /\ [Next]_vars
    BY DEF Capturing, ServerStep, Inv, Next
  <1>2. UNCHANGED <<request, faults, clientVars, k, cli_pc>>
    <2>1. UNCHANGED <<request, faults, clientVars>>
      BY <1>1 DEF ServerNext, GenerateToken, EndGeneration, Finalize, SendDone, Forget, Cancelled, BackendFails
    <2>2. QED
      BY <2>1, RequestFixed DEF clientVars
  <1>3. Inv' /\ ScheduleInv' /\ TypeOK'
    BY <1>1, InvStep, ScheduleStep DEF Inv
  <1>4. ChunksInv'
    BY <1>1, <1>3, ChunksServer
  <1>5. SUFFICES ASSUME faults = 0
                 PROVE  /\ cut' => srv_pc' = "aborted"
                        /\ ~cut' => srv_pc' # "aborted" /\ \E r \in Nat : (InFlight(r) /\ Weighed(r))'
    BY <1>1, <1>2, <1>3, <1>4 DEF Capturing
  <1>6. /\ cut => srv_pc = "aborted"
        /\ ~cut => srv_pc # "aborted" /\ \E r \in Nat : InFlight(r) /\ Weighed(r)
    BY <1>5 DEF Capturing
  <1>7. CASE Cancelled
    BY <1>1, <1>6, <1>7 DEF Cancelled, Connected
  <1>8. CASE BackendFails
    BY <1>8 DEF BackendFails
  <1>9. CASE GenerateToken \/ EndGeneration \/ Finalize \/ SendDone \/ Forget
    <2>1. /\ srv_pc \in {"generating", "finalizing", "closing", "forgetting"}
          /\ srv_pc' \in {"generating", "finalizing", "closing", "forgetting", "closed"}
          /\ UNCHANGED cut
      BY <1>1, <1>9, FlushOrNot DEF Finalize, SendDone, Forget
    <2>2. ~cut /\ ~cut' /\ Connected
      BY <1>1, <1>6, <2>1 DEF Connected
    <2>3. PICK r \in Nat : InFlight(r) /\ Weighed(r)
      BY <1>6, <2>2
    <2>4. CASE GenerateToken \/ EndGeneration
      <3>1. /\ srv_pc = "generating" /\ srv_pc' \in {"generating", "finalizing"}
            /\ NoFlush \/ \E text \in Seq(Nat) : flush_buffer(text)
        BY <1>1, <2>4, FlushOrNot
      <3>2. CASE NoFlush
        <4>1. SentEnds' = SentEnds
          BY <3>1 DEF SentEnds
        <4>2. UNCHANGED <<request, flushed, buffer, index, wire>>
          BY <1>2, <3>2 DEF NoFlush
        <4>3. InFlight(r)' /\ Weighed(r)'
          BY <1>1, <2>3, <4>1, <4>2, StillInFlight, WeighedStill
        <4>4. QED
          BY <2>1, <2>2, <4>3
      <3>3. ASSUME NEW text \in Seq(Nat), flush_buffer(text)
            PROVE  InFlight(r)' /\ Weighed(r)'
        <4>1. InFlight(r)' /\ r <= SentChunks /\ r <= SentChunks'
          BY <1>1, <1>2, <2>2, <2>3, <3>1, <3>3, FlushInFlight
        <4>2. flushed' = Append(flushed, text)
          BY <3>3 DEF flush_buffer
        <4>3. QED
          BY <1>1, <1>2, <2>3, <4>1, <4>2, WeighedOn
      <3>4. QED
        BY <2>1, <2>2, <3>1, <3>2, <3>3
    <2>5. CASE Finalize \/ SendDone
      <3>1. InFlight(r)'
        BY <1>1, <2>2, <2>3, <2>5, EndInFlight
      <3>2. Weighed(r)'
        BY <1>1, <2>3, <2>5, WeighedStill DEF Finalize, SendDone
      <3>3. QED
        BY <2>1, <2>2, <3>1, <3>2
    <2>6. CASE Forget
      <3>1. SentEnds' = SentEnds
        BY <2>6 DEF SentEnds, Forget
      <3>2. UNCHANGED <<request, flushed, buffer, index, wire>>
        BY <2>6 DEF Forget
      <3>3. InFlight(r)' /\ Weighed(r)'
        BY <1>1, <2>3, <3>1, <3>2, StillInFlight, WeighedStill
      <3>4. QED
        BY <2>1, <2>2, <3>3
    <2>7. QED
      BY <1>9, <2>4, <2>5, <2>6
  <1>10. QED
    BY <1>1, <1>7, <1>8, <1>9 DEF ServerNext

\* The row of a complete stream.
RowRight ==
    /\ IF strategy = "buffer_and_sign"
       THEN capture.n_chunks = 0 /\ actual_delta = 0
       ELSE capture.n_chunks = Len(flushed) /\ actual_delta = expected_delta
    /\ capture.n_wire_events = capture.n_chunks + 1
    /\ capture.n_signatures = IF strategy = "per_chunk" THEN capture.n_chunks + 1 ELSE 1
    /\ capture.n_hashes = IF strategy = "hash_chain" THEN capture.n_chunks + 1 ELSE 0

LEMMA CapturingEnds ==
    ASSUME Capturing, CaptureEnds
    PROVE  CaptureDone'
  <1>1. /\ cli_pc' = "captured" /\ wire = <<>> /\ (srv_pc = "closed" \/ cut)
        /\ UNCHANGED <<request, srv_pc, produced, flushed, buffer, index, cut, faults, capture>>
    BY DEF CaptureEnds, serverVars
  <1>2. Inv /\ TypeOK /\ ChunksInv /\ faults \in Nat
    BY MaxFaultsAssumption DEF Capturing, Inv, TypeOK
  <1>3. SUFFICES ASSUME Captured' PROVE srv_pc = "closed" /\ CaptureAsPredicted'
    BY <1>1, <1>2 DEF CaptureDone
  <1>4. ~cut /\ faults = 0 /\ srv_pc = "closed"
    BY <1>1, <1>3 DEF Captured
  <1>5. PICK r \in Nat : InFlight(r) /\ Weighed(r)
    BY <1>4 DEF Capturing
  <1>6. PICK c \in Nat : c = SentChunks /\ SentRecords = c + 2
    BY <1>2, <1>4, SentTypes DEF SentRecords, SentEnds
  <1>7. r = c + 2
    <2>1. r \in 0..(c + 2) /\ Len(wire) = (c + 2) - r /\ Len(wire) = 0
      BY <1>1, <1>5, <1>6 DEF InFlight
    <2>2. QED
      BY <2>1
  <1>8. Tally(c, 1, EndBytes)
    <2>1. ~(r <= c)
      BY <1>7
    <2>2. QED
      BY <1>5, <1>6, <2>1 DEF Weighed
  <1>9. /\ TextBytes(Len(flushed)) = produced /\ TextBytes(0) = 0 /\ produced \in Nat
        /\ strategy = "buffer_and_sign" => Len(buffer) = produced
        /\ Len(flushed) \in Nat /\ strategy \in StrategyNames
    BY <1>2, <1>4, TextWhole, RequestTypes, SentTypes DEF TypeOK
  <1>10. /\ capture.n_chunks = c /\ capture.n_wire_events = c + 1
         /\ capture.n_signatures = (IF strategy = "per_chunk" THEN c ELSE 0) + 1
         /\ capture.n_hashes = IF strategy = "hash_chain" THEN c + 1 ELSE 0
         /\ capture.total_ciphertext_bytes = TextBytes(c) + 28 * c + EndBytes
    BY <1>8 DEF Tally
  <1>11. IF strategy = "buffer_and_sign"
         THEN capture.n_chunks = 0 /\ actual_delta = 0
         ELSE capture.n_chunks = Len(flushed) /\ actual_delta = expected_delta
    <2>1. overhead_per_extra_envelope = 28
      BY DEF overhead_per_extra_envelope, GCM_NONCE_BYTES, GCM_TAG_BYTES
    <2>2. CASE strategy = "buffer_and_sign"
      <3>1. c = 0 /\ EndBytes = produced + 28
        BY <1>6, <1>9, <2>2 DEF SentChunks, EndBytes
      <3>2. capture.n_chunks = 0 /\ capture.total_ciphertext_bytes = produced + 28
        BY <1>9, <1>10, <3>1
      <3>3. QED
        BY <1>9, <2>1, <2>2, <3>2 DEF actual_delta, BufferedBytes
    <2>3. CASE strategy # "buffer_and_sign"
      <3>1. c = Len(flushed) /\ EndBytes = 0
        BY <1>6, <2>3 DEF SentChunks, EndBytes
      <3>2. capture.n_chunks = Len(flushed) /\ capture.total_ciphertext_bytes = produced + 28 * c
        BY <1>9, <1>10, <3>1
      <3>3. QED
        BY <1>9, <1>10, <2>1, <2>3, <3>2 DEF actual_delta, expected_delta, BufferedBytes
    <2>4. QED
      BY <2>2, <2>3
  <1>12. RowRight
    BY <1>9, <1>10, <1>11 DEF RowRight, StrategyNames
  <1>13. RowRight'
    <2>1. UNCHANGED strategy
      BY <1>1, RequestFixed
    <2>2. QED
      BY <1>1, <1>12, <2>1 DEF RowRight, actual_delta, expected_delta, BufferedBytes
  <1>14. QED
    BY <1>4, <1>13 DEF RowRight, CaptureAsPredicted, HarvestPredicted, TrafficShape

\* A stream that has been read is not read again.
LEMMA DoneStays ==
    ASSUME CaptureDone, UNCHANGED <<cli_pc, capture, flushed, request, produced>>,
           faults' \in Nat, faults' = 0 => UNCHANGED faults, ~cut' => ~cut,
           srv_pc = "closed" => srv_pc' = "closed"
    PROVE  CaptureDone'
  <1>1. cli_pc' \in {"captured", "error"}
    BY DEF CaptureDone
  <1>2. SUFFICES ASSUME Captured' PROVE srv_pc' = "closed" /\ CaptureAsPredicted'
    BY <1>1 DEF CaptureDone
  <1>3. Captured
    BY <1>2 DEF Captured
  <1>4. srv_pc = "closed" /\ RowRight
    BY <1>3 DEF CaptureDone, CaptureAsPredicted, HarvestPredicted, TrafficShape, RowRight
  <1>5. UNCHANGED strategy
    BY RequestFixed
  <1>6. RowRight'
    BY <1>4, <1>5 DEF RowRight, actual_delta, expected_delta, BufferedBytes
  <1>7. QED
    BY <1>4, <1>6 DEF RowRight, CaptureAsPredicted, HarvestPredicted, TrafficShape

LEMMA HarvestInitInv == HarvestInit => HarvestInv
  <1> SUFFICES ASSUME HarvestInit, capture # None PROVE Capturing
    BY DEF HarvestInv
  <1>1. Init /\ capture = NewCapture /\ k = 0
    BY DEF HarvestInit
  <1>2. Inv /\ ChunksInv /\ ScheduleInv /\ TypeOK
    BY <1>1, InvInit, ChunksInit, UndisturbedInit DEF UndisturbedInv, Inv
  <1>3. SentRecords = 0 /\ SentChunks = 0 /\ Len(wire) = 0
    BY <1>1 DEF Init, SentRecords, SentChunks, SentEnds
  <1>4. InFlight(0)
    BY <1>3 DEF InFlight
  <1>5. TextBytes(0) = 0
    <2>1. flushed = <<>> /\ SubSeq(flushed, 1, 0) = <<>>
      BY <1>1 DEF Init
    <2>2. FlattenSeq(<<>>) = <<>> /\ Len(<<>>) = 0
      BY DEF FlattenSeq
    <2>3. QED
      BY <2>1, <2>2, Zenon DEF TextBytes
  <1>6. Weighed(0)
    <2>1. capture \in Captures
      BY <1>1 DEF NewCapture, Captures
    <2>2. Tally(0, 0, 0)
      BY <1>1, <1>5, <2>1 DEF Tally, NewCapture
    <2>3. QED
      BY <1>3, <2>2 DEF Weighed
  <1>7. cli_pc = "reading" /\ ~cut /\ srv_pc = "generating"
    BY <1>1 DEF Init
  <1>8. QED
    BY <1>1, <1>2, <1>4, <1>6, <1>7 DEF Capturing

LEMMA HarvestNextInv == HarvestInv /\ [HarvestNext]_harvestVars => HarvestInv'
  <1> SUFFICES ASSUME HarvestInv, [HarvestNext]_harvestVars, capture' # None
               PROVE  Capturing' \/ CaptureDone'
    BY DEF HarvestInv
  <1>1. capture # None
    BY DEF HarvestNext, ServerStep, ClientStep, harvestVars
  <1>2. Capturing \/ CaptureDone
    BY <1>1 DEF HarvestInv
  <1>3. CASE ServerStep
    <2>1. CASE Capturing
      BY <1>3, <2>1, CapturingServes
    <2>2. CASE CaptureDone
      <3>1. srv_pc # "closed" /\ cli_pc # "reading" /\ faults \in Nat /\ UNCHANGED capture
        BY <1>3, <2>2 DEF CaptureDone, ServerStep, ServerNext, GenerateToken, EndGeneration, Finalize, SendDone,
                          Forget, Cancelled, BackendFails
      <3>2. UNCHANGED <<cli_pc, faults>> /\ (cut' # cut => cut')
        BY <1>3 DEF ServerStep, ServerNext, GenerateToken, EndGeneration, Finalize, SendDone, Forget, Cancelled,
                    BackendFails, clientVars
      <3>3. ~Captured
        BY <2>2, <3>1 DEF CaptureDone
      <3>4. ~Captured'
        BY <1>1, <3>1, <3>2, <3>3 DEF Captured
      <3>5. QED
        BY <2>2, <3>1, <3>2, <3>4 DEF CaptureDone
    <2>3. QED
      BY <1>2, <2>1, <2>2
  <1>4. CASE CaptureEnds
    <2>1. Capturing
      BY <1>2, <1>4 DEF CaptureDone, CaptureEnds
    <2>2. QED
      BY <1>4, <2>1, CapturingEnds
  <1>5. CASE wire # <<>> /\ CaptureLine(Head(wire))
    <2>1. Capturing
      BY <1>2, <1>5 DEF CaptureDone, CaptureLine, Read
    <2>2. QED
      BY <1>5, <2>1, CapturingReads
  <1>6. CASE FaultNext /\ UNCHANGED capture
    <2>1. PICK stream : Fault(stream)
      BY <1>6, Zenon
         DEF FaultNext, Drop, Reorder, Duplicate, Replay, TamperCiphertext, TamperSignature,
             StripCheckpoint, MoveCheckpoint, Truncate
    <2>2. faults' = faults + 1 /\ UNCHANGED <<request, serverVars, clientVars>>
      BY <2>1 DEF Fault
    <2>3. faults \in Nat
      BY <1>2, MaxFaultsAssumption DEF CaptureDone, Capturing, Inv, TypeOK
    <2>4. faults' # 0 /\ faults' \in Nat
      BY <2>2, <2>3
    <2>5. CASE Capturing
      <3>1. Inv /\ ScheduleInv /\ ChunksInv /\ [Next]_vars
        BY <1>6, <2>5 DEF Capturing, Next
      <3>2. Inv' /\ ScheduleInv' /\ TypeOK'
        BY <3>1, InvStep, ScheduleStep DEF Inv
      <3>3. ChunksInv'
        BY <2>2, <3>1, <3>2, ChunksStay DEF chunkVars, serverVars
      <3>4. UNCHANGED <<cli_pc, k>>
        BY <2>2, RequestFixed DEF clientVars
      <3>5. QED
        BY <2>4, <2>5, <3>2, <3>3, <3>4 DEF Capturing
    <2>6. CASE CaptureDone
      BY <2>2, <2>4, <2>6 DEF CaptureDone, Captured, clientVars
    <2>7. QED
      BY <1>2, <2>5, <2>6
  <1>7. CASE CaptureFails
    <2>1. Capturing /\ cli_pc' = "error" /\ UNCHANGED faults
      BY <1>2, <1>7 DEF CaptureFails, ReadError, CaptureDone
    <2>2. faults' \in Nat
      BY <2>1, MaxFaultsAssumption DEF Capturing, Inv, TypeOK
    <2>3. QED
      BY <2>1, <2>2 DEF CaptureDone, Captured
  <1>8. CASE UNCHANGED <<vars, capture>>
    <2>1. /\ UNCHANGED <<request, serverVars, wire, cut, faults, clientVars, capture>>
          /\ UNCHANGED <<cli_pc, srv_pc, flushed, buffer, index, produced, since_checkpoint>>
      BY <1>8 DEF vars, serverVars, clientVars
    <2>2. CASE Capturing
      <3>1. Inv' /\ TypeOK' /\ ScheduleInv' /\ ChunksInv' /\ k' = 0
        <4>1. Inv' /\ TypeOK' /\ ScheduleInv'
          BY <1>8, <2>2, InvStep, ScheduleStep DEF Capturing, Inv
        <4>2. QED
          BY <2>1, <2>2, <4>1, ChunksStay, RequestFixed DEF Capturing, chunkVars, serverVars
      <3>2. SentEnds' = SentEnds
        BY <2>1 DEF SentEnds
      <3>3. \A r : (InFlight(r)' <=> InFlight(r)) /\ (Weighed(r)' <=> Weighed(r))
        BY <2>1, <3>2, StillInFlight, WeighedStill
      <3>4. QED
        BY <2>1, <2>2, <3>1, <3>3 DEF Capturing
    <2>3. CASE CaptureDone
      BY <2>1, <2>3, DoneStays DEF CaptureDone
    <2>4. QED
      BY <1>2, <2>2, <2>3
  <1>9. QED
    BY <1>1, <1>3, <1>4, <1>5, <1>6, <1>7, <1>8 DEF HarvestNext, ClientStep, Finished, harvestVars

\* For every strategy, length and chunk size, the bytes an observer of an
\* undisturbed stream stores differ from those of buffer_and_sign by the delta
\* that run_strategy_independence_check predicts, and the records, signatures
\* and hashes are as many as the strategy says.
THEOREM HarvestRight == HarvestFairSpec => []CaptureAsPredicted
  <1>1. HarvestInit => HarvestInv
    BY HarvestInitInv
  <1>2. HarvestInv /\ [HarvestNext]_harvestVars => HarvestInv'
    BY HarvestNextInv
  <1>3. HarvestInv => CaptureAsPredicted
    BY DEF HarvestInv, Capturing, CaptureDone, CaptureAsPredicted, HarvestPredicted, TrafficShape, Captured
  <1>4. QED
    BY <1>1, <1>2, <1>3, PTL DEF HarvestFairSpec

=============================================================================
