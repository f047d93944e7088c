---------------------------- MODULE AttackCampaign ----------------------------
(***************************************************************************)
(* run_cell of threats/streaming_attack_campaign.py: the false-rejection   *)
(* baseline, then a number of trials of every attack on streams and        *)
(* positions drawn at random, and the row of counts for each.              *)
(*                                                                         *)
(* A trial draws victim and donor from a pool; of a stream only its length *)
(* matters, so the pool is a set of lengths and the victim is session Hid. *)
(***************************************************************************)
EXTENDS StreamAttacks

CONSTANTS Cells,        \* strategy and checkpoint interval, 0 for None
          PoolLengths,  \* numbers of chunks of the streams in the pool
          Trials        \* --trials

ASSUME CampaignAssumption ==
    /\ \A cell \in Cells : cell.strategy \in {"per_chunk", "hash_chain"} /\ cell.k \in Nat
    /\ PoolLengths \subseteq Nat /\ PoolLengths # {} /\ Trials \in Nat \ {0}

VARIABLES
    cell,
    at,          \* number of the attack under way; 0 is the baseline
    n, det, mid, tries,
    exposures, unverified,  \* the values in the two lists
    row,         \* the row appended last
    outcome      \* "running", "returned" or "raised"

counts == <<n, det, mid, tries, exposures, unverified>>
vars == <<cell, at, counts, row, outcome>>

attacks == STATIC \o (IF cell.strategy = "hash_chain" /\ cell.k > 0 THEN ADAPTIVE ELSE <<>>)
attack == attacks[at]

NoCounts ==
    /\ n = 0 /\ det = 0 /\ mid = 0 /\ tries = 0 /\ exposures = {} /\ unverified = {}

Init ==
    /\ cell \in Cells /\ at = 0 /\ NoCounts
    /\ row = None /\ outcome = "running"

Row(name, total, detected) ==
    [attack |-> name, n |-> total, detected |-> detected, mid_stream |-> mid,
     exposure_chunks |-> exposures, unverified_at_detection |-> unverified]

\* Every pool stream unmodified; a rejection counts as detected.
Baseline ==
    /\ outcome = "running" /\ at = 0
    /\ LET rejected == {len \in PoolLengths :
               LET cap == Captured(Hid, cell.strategy, cell.k, len)
               IN  replay_through_client(cell.strategy, cell.k, cap.chunks, cap.final).pos # None}
       IN  row' = Row("benign", Cardinality(PoolLengths), Cardinality(rejected))
    /\ at' = 1
    /\ UNCHANGED <<cell, counts, outcome>>

MoreTries == n < Trials /\ tries < 5 * Trials

\* Mutant: tries are not counted.
CountTrySkipped == UNCHANGED tries

CountTry == tries' = tries + 1

\* What replay_through_client returned goes into the counts.
Judged(m, result) ==
    /\ n' = n + 1
    /\ det' = IF result.pos # None THEN det + 1 ELSE det
    /\ mid' = IF result.pos # None /\ result.pos < Len(m.chunks) THEN mid + 1 ELSE mid
    /\ exposures' = IF result.pos # None
                    THEN exposures \cup {Max({0, result.pos - m.first})} ELSE exposures
    /\ unverified' = CASE result.pos # None -> unverified \cup {result.pos - result.covered}
                       [] result.pos = None /\ attack = "checkpoint_strip_v2client" ->
                             unverified \cup {Len(m.chunks)}
                       [] OTHER -> unverified

\* One turn of the while loop.
Try(len, donor_len) ==
    /\ outcome = "running" /\ at \in 1..Len(attacks) /\ MoreTries
    /\ CountTry
    /\ LET s == cell.strategy
           cap == Captured(Hid, s, cell.k, len)
           donor == Captured(Other, s, cell.k, donor_len)
           enforced == IF attack = "checkpoint_strip_v2client" THEN 0 ELSE cell.k
       IN  \/ /\ DrawRaises(attack, cap, donor)
              /\ outcome' = "raised"
              /\ UNCHANGED <<n, det, mid, exposures, unverified>>
           \/ /\ ~DrawRaises(attack, cap, donor)
              /\ \E m \in mutate(attack, s, cap, donor) :
                    \/ m = None /\ UNCHANGED <<n, det, mid, exposures, unverified>>
                    \/ m # None /\ Judged(m, replay_through_client(s, enforced, m.chunks, m.final))
              /\ UNCHANGED outcome
    /\ UNCHANGED <<cell, at, row>>

NextAttack ==
    /\ outcome = "running" /\ at \in 1..Len(attacks) /\ ~MoreTries
    /\ row' = Row(attack, n, det)
    /\ n' = 0 /\ det' = 0 /\ mid' = 0 /\ tries' = 0 /\ exposures' = {} /\ unverified' = {}
    /\ at' = at + 1
    /\ UNCHANGED <<cell, outcome>>

Return ==
    /\ outcome = "running" /\ at > Len(attacks)
    /\ outcome' = "returned"
    /\ UNCHANGED <<cell, at, counts, row>>

Finished == outcome # "running" /\ UNCHANGED vars

Next ==
    \/ Baseline \/ NextAttack \/ Return \/ Finished
    \/ \E len, donor_len \in PoolLengths : Try(len, donor_len)

Spec == Init /\ [][Next]_vars
\* One process runs the loop to its end.
FairSpec == Spec /\ WF_vars(Next)

-----------------------------------------------------------------------------
(***************************************************************************)
(* Properties of the rows the campaign reports.                            *)
(***************************************************************************)
\* The counts of an attack stay within its trials and tries.
TypeOK ==
    /\ cell \in Cells /\ at \in 0..(Len(attacks) + 1) /\ outcome \in {"running", "returned", "raised"}
    /\ n \in 0..Trials /\ tries \in n..(5 * Trials) /\ det \in 0..n /\ mid \in 0..det
    /\ exposures \subseteq Nat /\ unverified \subseteq Nat

\* Every attack is detected in every trial and no genuine stream is rejected;
\* only the v2 client, which does not enforce the schedule, lets a stripped
\* stream pass, and always does.
EveryAttackDetected ==
    row # None =>
        row.detected = IF row.attack \in {"benign", "checkpoint_strip_v2client"} THEN 0 ELSE row.n

\* A per_chunk client rejects at the very chunk the attack touched first, and
\* has shown nothing that a signature does not cover.
PerChunkExposesNothing ==
    (cell.strategy = "per_chunk" /\ row # None) =>
        row.exposure_chunks \subseteq {0} /\ row.unverified_at_detection \subseteq {0}

\* With checkpoints every k chunks and the schedule enforced, fewer than k
\* chunks are shown without a signature when the attack is detected, wherever
\* it strikes and whichever checkpoints it removes or moves.
UnverifiedBelowInterval ==
    (/\ cell.k > 0 /\ row # None
     /\ row.attack # "checkpoint_strip_v2client") =>
        \A u \in row.unverified_at_detection : u < cell.k

\* The counts of a row and the exposures it reports are those of the strategy:
\* what the paper states for per_chunk and for hash_chain with interval k.
ExposureAsReported == TypeOK /\ PerChunkExposesNothing /\ UnverifiedBelowInterval

\* run_cell ends, although some attacks apply to few streams of the pool or to
\* none; it fails only on a stream too short to draw a position in.
CellEnds == <>(outcome = "returned" \/ (outcome = "raised" /\ \E len \in PoolLengths : len < 2))

=============================================================================
