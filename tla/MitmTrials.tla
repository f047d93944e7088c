----------------------------- MODULE MitmTrials -----------------------------
(***************************************************************************)
(* run_experiment of threats/streaming_mitm_experiment.py for one          *)
(* configuration and strategy: a number of trials of each attack, always   *)
(* in the middle of the stream, with the stream of the trial before as the *)
(* donor of replayed records.  Its rows are counted next to those of the   *)
(* campaign, which shares replay_through_client with it.                   *)
(***************************************************************************)
EXTENDS AttackCampaign

VARIABLE mitm  \* the experiment, or None where the campaign is run

trialVars == <<vars, mitm>>

ATTACKS == <<"drop", "reorder", "duplicate", "replay", "truncate">>

\* combo_rows, of which only the counts matter, and foreign
NewCombo(number) == [attack |-> number, trials |-> 0, n_valid |-> 0, n_detected |-> 0, n_mid_stream |-> 0,
                     foreign |-> None]

TrialInit == Init /\ mitm \in {None, NewCombo(1)}

Middle(chunks) == Len(chunks) \div 2

\* What the attack makes of the chunks and the terminal record.
_mutate(attack_name, cap, foreign) ==
    LET chunks == cap.chunks
        m == Middle(chunks) + 1
    IN  CASE attack_name = "drop" -> [chunks |-> RemoveAt(chunks, m), final |-> cap.final]
          [] attack_name = "reorder" -> [chunks |-> Swap(chunks, m), final |-> cap.final]
          [] attack_name = "duplicate" -> [chunks |-> InsertAt(chunks, m + 1, chunks[m]), final |-> cap.final]
          [] attack_name = "replay" ->
                [chunks |-> [chunks EXCEPT ![m] = foreign[Min({m, Len(foreign)})]], final |-> cap.final]
          [] attack_name = "truncate" ->
                [chunks |-> SubSeq(chunks, 1, Max({1, (2 * Len(chunks)) \div 3})), final |-> None]

Error(foreign) == [valid |-> 0, detected |-> 0, mid_stream |-> 0, foreign |-> foreign]

\* The row of a trial on a stream of len chunks, and the donor it leaves for
\* the next.  A replay without one captures a stream of donor_len chunks.
run_trial(attack_name, len, donor_len, donor) ==
    LET cap == Captured(Hid, cell.strategy, cell.k, len)
        foreign == IF attack_name = "replay" /\ donor = None THEN donor_len ELSE donor
        left == IF len > 0 THEN len ELSE donor
    IN  IF len < 3 \/ (attack_name = "replay" /\ foreign = 0) THEN Error(left)
        ELSE LET m == _mutate(attack_name, cap, IF foreign = None THEN <<>>
                              ELSE Captured(Other, cell.strategy, cell.k, foreign).chunks)
                 at_chunk == replay_through_client(cell.strategy, cell.k, m.chunks, m.final).pos
             IN  [valid |-> 1, detected |-> IF at_chunk # None THEN 1 ELSE 0,
                  mid_stream |-> IF at_chunk # None /\ at_chunk < Len(m.chunks) THEN 1 ELSE 0,
                  foreign |-> left]

Running == mitm # None /\ outcome = "running"

Trial(len, donor_len) ==
    /\ Running /\ mitm.attack <= Len(ATTACKS) /\ mitm.trials < Trials
    /\ LET result == run_trial(ATTACKS[mitm.attack], len, donor_len, mitm.foreign)
       IN  mitm' = [mitm EXCEPT !.trials = @ + 1, !.n_valid = @ + result.valid,
                                !.n_detected = @ + result.detected, !.n_mid_stream = @ + result.mid_stream,
                                !.foreign = result.foreign]
    /\ UNCHANGED vars

\* The connection fails: an error row, and no stream to replay from.
TrialFails ==
    /\ Running /\ mitm.attack <= Len(ATTACKS) /\ mitm.trials < Trials
    /\ mitm' = [mitm EXCEPT !.trials = @ + 1]
    /\ UNCHANGED vars

summarize ==
    /\ Running /\ mitm.attack <= Len(ATTACKS) /\ mitm.trials = Trials
    /\ row' = [Row(ATTACKS[mitm.attack], mitm.n_valid, mitm.n_detected) EXCEPT !.mid_stream = mitm.n_mid_stream]
    /\ mitm' = NewCombo(mitm.attack + 1)
    /\ UNCHANGED <<cell, at, counts, outcome>>

ExperimentReturns ==
    /\ Running /\ mitm.attack > Len(ATTACKS)
    /\ outcome' = "returned"
    /\ UNCHANGED <<cell, at, counts, row, mitm>>

TrialNext ==
    \/ mitm = None /\ Next /\ UNCHANGED mitm
    \/ \E len, donor_len \in PoolLengths : Trial(len, donor_len)
    \/ TrialFails \/ summarize \/ ExperimentReturns
    \/ mitm # None /\ Finished /\ UNCHANGED mitm

\* One process runs either experiment to its end.
TrialSpec == TrialInit /\ [][TrialNext]_trialVars /\ WF_trialVars(TrialNext)

-----------------------------------------------------------------------------
\* Where the experiment finds an attack is a matter of the strategy: per_chunk
\* notices every rearrangement while the stream runs, a hash chain without
\* checkpoints only a foreign record; a cut is noticed by neither before the
\* stream is over.
MidStreamByStrategy ==
    (mitm # None /\ row # None) =>
        /\ row.attack = "truncate" => row.mid_stream = 0
        /\ row.attack # "truncate" /\ cell.strategy = "per_chunk" => row.mid_stream = row.n
        /\ row.attack # "truncate" /\ cell.strategy = "hash_chain" /\ cell.k = 0 =>
              row.mid_stream = IF row.attack = "replay" THEN row.n ELSE 0

\* Both experiments find every attack in every valid trial, and find it where
\* the strategy lets the client find it.
DetectedAsReported == EveryAttackDetected /\ MidStreamByStrategy

=============================================================================
