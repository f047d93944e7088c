----------------------------- MODULE DemoRequest -----------------------------
(***************************************************************************)
(* The dashboard's own client of a protected request, run_secure_          *)
(* transaction of webapp/demo_transaction.py, and the verdict the live     *)
(* demo page makes of its row.  Up to the response it takes the steps of   *)
(* HandshakeAuth without a pinned identity; then it verifies before it     *)
(* decrypts, where secure_client decrypts first, and the page judges by    *)
(* three fields of the row.                                                *)
(***************************************************************************)
EXTENDS Harvest

Row(valid_signature, decryption_ok, error) ==
    [valid_signature |-> valid_signature, decryption_ok |-> decryption_ok, error |-> error]

\* There is no response, or verify raises on the key: only error is set.  A
\* response that does not open is an error as well, after its signature.
run_secure_transaction ==
    IF response = None \/ rejected_at \in {"establish", "timeout"}
       \/ ~Loads(client_config, handshake.sig_public_key)
    THEN Row(None, None, TRUE)
    ELSE LET opens == response.envelope.key = session_key
         IN  Row(response.signature = Signature(handshake.sig_public_key, response.envelope),
                 opens, ~opens)

\* Mutant: a row without an error is a success.
banner_by_error(row) ==
    IF row.error /\ row.decryption_ok = FALSE THEN "tampering"
    ELSE IF row.error THEN "failed" ELSE "verified"

banner(row) ==
    IF row.error /\ row.decryption_ok = FALSE THEN "tampering"
    ELSE IF row.valid_signature = FALSE THEN "tampering"
    ELSE IF row.error THEN "failed" ELSE "verified"

-----------------------------------------------------------------------------
\* The page calls a response verified exactly when the benchmark client
\* accepts it, although the checks come in another order; and it calls it
\* tampering, rather than a failed request, exactly when a check of the
\* benchmark client refused what a server of the same configuration answered.
PageAgrees ==
    (Ended /\ mode = "unauthenticated") =>
        LET shown == banner(run_secure_transaction)
        IN  /\ shown = "verified" <=> pc = "accepted"
            /\ client_config = server_config =>
                  (shown = "tampering" <=> rejected_at \in {"aead", "signature"})

\* Neither client refuses what nobody disturbed, and they judge alike.
ClientsAgree == NoFalseRejection /\ PageAgrees

=============================================================================
