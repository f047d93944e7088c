---------------------------- MODULE StreamHarvest ----------------------------
(***************************************************************************)
(* threats/streaming_hndl_experiment.py: the stream of StreamTransaction   *)
(* opened by a client that records it and verifies nothing, to count what  *)
(* a passive observer could store.  A behaviour is the transaction of one  *)
(* client or of the other: capture is None when the verifying client of    *)
(* run_streaming_transaction opened the stream.  A token is one byte.      *)
(***************************************************************************)
EXTENDS StreamDelivery

VARIABLE capture  \* result of capture_transaction, or None

harvestVars == <<vars, capture>>

GCM_NONCE_BYTES == 12
GCM_TAG_BYTES == 16
overhead_per_extra_envelope == GCM_NONCE_BYTES + GCM_TAG_BYTES

NewCapture ==
    [total_ciphertext_bytes |-> 0, n_signatures |-> 0, n_hashes |-> 0,
     n_chunks |-> 0, n_wire_events |-> 0, error |-> FALSE]

\* The capturing client asks for no checkpoints.
HarvestInit == Init /\ (capture = None \/ (capture = NewCapture /\ k = 0))

\* Nonce and ciphertext, of the records that have them.
EnvelopeBytes(env) == IF env = None THEN 0 ELSE Len(env.text) + overhead_per_extra_envelope

Count(field) == IF field = None THEN 0 ELSE 1

\* Mutant: the done event is counted with the records.
CaptureLineWithDone(record) ==
    /\ Read
    /\ capture' = [capture EXCEPT
          !.total_ciphertext_bytes = @ + EnvelopeBytes(record.env),
          !.n_signatures = @ + Count(record.signature),
          !.n_hashes = @ + Count(record.chain),
          !.n_chunks = @ + (IF record.kind = "chunk" THEN 1 ELSE 0),
          !.n_wire_events = @ + 1]
    /\ UNCHANGED clientVars

\* A data line is weighed and counted; the done event has no kind.
CaptureLine(record) ==
    /\ Read
    /\ IF record.kind = "done"
       THEN UNCHANGED capture
       ELSE capture' = [capture EXCEPT
              !.total_ciphertext_bytes = @ + EnvelopeBytes(record.env),
              !.n_signatures = @ + Count(record.signature),
              !.n_hashes = @ + Count(record.chain),
              !.n_chunks = @ + (IF record.kind = "chunk" THEN 1 ELSE 0),
              !.n_wire_events = @ + 1]
    /\ UNCHANGED clientVars

\* The body ends, cut short or not: the row is complete, without an error.
CaptureEnds ==
    /\ cli_pc = "reading" /\ wire = <<>> /\ (srv_pc = "closed" \/ cut)
    /\ cli_pc' = "captured"
    /\ UNCHANGED <<request, serverVars, wire, cut, faults, metrics, chain_state, terminal_seen,
                   expected_index, reconstructed, pending, capture>>

\* An exception becomes the row's error.
CaptureFails == ReadError /\ capture' = [capture EXCEPT !.error = TRUE]

ServerStep == ServerNext /\ UNCHANGED capture
ClientStep ==
    \/ capture = None /\ ClientNext /\ UNCHANGED capture
    \/ capture # None /\ (CaptureEnds \/ (wire # <<>> /\ CaptureLine(Head(wire))))

HarvestNext ==
    \/ ServerStep \/ ClientStep
    \/ (FaultNext \/ Finished) /\ UNCHANGED capture
    \/ capture = None /\ ReadError /\ UNCHANGED capture
    \/ capture # None /\ CaptureFails

HarvestFairSpec ==
    /\ HarvestInit /\ [][HarvestNext]_harvestVars
    /\ WF_harvestVars(ServerStep) /\ WF_harvestVars(ClientStep)

-----------------------------------------------------------------------------
\* The row of a stream nothing happened to.
Captured == capture # None /\ cli_pc = "captured" /\ ~cut /\ faults = 0

\* run_strategy_independence_check: what buffer_and_sign stores for the same
\* text, the delta expected of a strategy with n_chunks envelopes and the one
\* observed.
BufferedBytes == produced + overhead_per_extra_envelope
expected_delta == (capture.n_chunks - 1) * overhead_per_extra_envelope
actual_delta == capture.total_ciphertext_bytes - BufferedBytes

\* The bytes worth storing depend on the strategy only through the number of
\* envelopes, by exactly the delta the experiment predicts, an empty stream
\* and every split of the text into chunks included.
HarvestPredicted ==
    Captured =>
        IF strategy = "buffer_and_sign"
        THEN capture.n_chunks = 0 /\ actual_delta = 0
        ELSE capture.n_chunks = Len(flushed) /\ actual_delta = expected_delta

\* What the shape of the stream gives away: per_chunk and hash_chain show an
\* observer every chunk and equally many records, buffer_and_sign one record
\* whatever it carries; a hash_chain without checkpoints is signed once.
TrafficShape ==
    Captured =>
        /\ capture.n_wire_events = capture.n_chunks + 1
        /\ capture.n_signatures = IF strategy = "per_chunk" THEN capture.n_chunks + 1 ELSE 1
        /\ capture.n_hashes = IF strategy = "hash_chain" THEN capture.n_chunks + 1 ELSE 0

\* The row the experiment writes for an undisturbed stream is the one its
\* check of strategy independence and its leakage comparison build on.
CaptureAsPredicted == HarvestPredicted /\ TrafficShape

=============================================================================
