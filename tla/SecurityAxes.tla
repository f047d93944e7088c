----------------------------- MODULE SecurityAxes -----------------------------
(***************************************************************************)
(* What the analysis states as facts about the six protected               *)
(* configurations; Harvest compares it with the handshake.                 *)
(***************************************************************************)

\* SEC_AXES, a set per axis of the configurations marked 1.
KexVsCrqc == {"hybrid", "hybrid_kex", "full_pqc", "hybrid_kex_pq"}
KexIfMlkemBreaks == {"classical", "classical_ecdhe", "hybrid_kex", "hybrid_kex_pq"}
SigVsCrqc == {"full_pqc", "hybrid_kex_pq"}

\* SECURITY_SCORES, in tenths.
SECURITY_SCORES ==
    [classical |-> 0, classical_ecdhe |-> 0, hybrid |-> 8, hybrid_kex |-> 8,
     full_pqc |-> 10, hybrid_kex_pq |-> 10]

=============================================================================
