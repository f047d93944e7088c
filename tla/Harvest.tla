------------------------------- MODULE Harvest -------------------------------
(***************************************************************************)
(* Harvest now, decrypt later: a passive observer of the client's link     *)
(* archives a protected request (threats/hndl_capture.py) and tries to     *)
(* open it once a primitive has fallen.  The tables that the threat        *)
(* experiments, the decision table and the trade-off matrix print as facts *)
(* about the six configurations are compared with what the observer can    *)
(* then compute from the key establishment of HandshakeAuth.               *)
(***************************************************************************)
EXTENDS HandshakeAuth, SecurityAxes

VARIABLES archive,  \* what was recorded: key-establishment blob and response
          broken    \* the primitives that have fallen since

harvestVars == <<vars, archive, broken>>

-----------------------------------------------------------------------------
(***************************************************************************)
(* threats/hndl_capture.py's table; the others are in SecurityAxes.       *)
(***************************************************************************)
KEX_DECRYPTABLE_UNDER_CRQC ==
    [classical |-> TRUE, classical_ecdhe |-> TRUE, hybrid |-> FALSE,
     hybrid_kex_pq |-> FALSE, hybrid_kex |-> FALSE, full_pqc |-> FALSE]

-----------------------------------------------------------------------------
\* Shor's algorithm breaks factoring and discrete logarithms alike; the AES
\* payload key stays out of reach (PAYLOAD_DECRYPTABLE_UNDER_CRQC).
CRQC == {RSA, X25519, ECDSA}

HarvestInit == Init /\ archive = [kex_blob |-> None, envelope |-> None] /\ broken = {}

\* capture: the blob of the request and the ciphertext of the response, as
\* they pass; nothing is changed.
Capture ==
    archive' = [kex_blob |-> IF pc # "posted" /\ pc' = "posted"
                             THEN request'.kex_blob ELSE archive.kex_blob,
                envelope |-> IF pc # "answered" /\ pc' = "answered"
                             THEN response'.envelope ELSE archive.envelope]

\* A primitive falls, once the transaction is history.
Break(primitives) ==
    /\ Ended /\ broken = {}
    /\ broken' = primitives
    /\ UNCHANGED <<vars, archive>>

HarvestNext ==
    \/ Next /\ Capture /\ UNCHANGED broken
    \/ Break(CRQC) \/ Break({MLKEM})

HarvestSpec == HarvestInit /\ [][HarvestNext]_harvestVars

\* The secrets in the blob whose primitive has fallen, and the key they give.
Recovered ==
    derive_session_key(
        [i \in DOMAIN archive.kex_blob |->
            IF archive.kex_blob[i].share.scheme \in broken THEN archive.kex_blob[i] ELSE None],
        client_config.context)

Archived == archive.kex_blob # None /\ archive.envelope # None
Readable == Recovered = archive.envelope.key

-----------------------------------------------------------------------------
\* What hndl_capture reports as decryptable, and the two key-establishment
\* columns of the decision table, are what an observer can compute: a session
\* key falls when every primitive that went into it has, and not before.  The
\* RSA and X25519 configurations fall to a CRQC, ML-KEM alone falls with
\* ML-KEM, the combined key exchange to neither.
HarvestAsTabulated ==
    Archived =>
        /\ broken = {} => ~Readable
        /\ broken = CRQC =>
              /\ Readable <=> KEX_DECRYPTABLE_UNDER_CRQC[client_config.name]
              /\ Readable <=> client_config.name \notin KexVsCrqc
        /\ broken = {MLKEM} => (Readable <=> client_config.name \notin KexIfMlkemBreaks)

\* The trade-off matrix scores 0, 0.8 and 1 for what is left standing when a
\* CRQC exists: nothing, the recorded session, the session and the signatures.
ScoresFollowExposure ==
    (Archived /\ broken = CRQC) =>
        LET signatures_stand == client_config.sig \notin broken
        IN  /\ signatures_stand <=> client_config.name \in SigVsCrqc
            /\ SECURITY_SCORES[client_config.name] =
                  IF Readable THEN 0 ELSE IF signatures_stand THEN 10 ELSE 8

\* The tables of three modules (hndl_capture, paper_figures, tradeoff_matrix)
\* say of every configuration what its key schedule and its signatures imply.
TablesFollowKeySchedule == HarvestAsTabulated /\ ScoresFollowExposure

=============================================================================
