----------------------------- MODULE HandshakeAuth -----------------------------
(***************************************************************************)
(* One protected request with a party on the path: the handshake and its   *)
(* transcript signature (api/secure_app.py, crypto/handshake_auth.py), the *)
(* client with or without a pinned identity (api/secure_client.py), and    *)
(* the middle of threats/key_substitution.py and threats/mitm_harness.py,  *)
(* which here decides step by step instead of once per trial.              *)
(*                                                                         *)
(* Client and server may be configured differently, and the server may     *)
(* restart: its identity key and its handshakes live in the process.       *)
(***************************************************************************)
EXTENDS KeyEstablishment

CONSTANT MaxRestarts  \* bound on restarts of the server
ASSUME MaxRestartsAssumption == MaxRestarts \in Nat

Middle == <<"middle", 0>>
Server(process) == <<"server", process>>
Nobody == <<"nobody", 0>>  \* owner of an altered signature
Client == <<"client", 0>>

\* What keys, secrets and responses can be; Python's None is none of them.
PublicKeys == [scheme: {RSA, X25519, MLKEM, ECDSA, MLDSA},
               owner: {"server", "middle", "nobody", "client"} \X Nat, use: {"kex", "sig", "identity"}]
Secrets == [share: PublicKeys, by: {Client, Middle}]
SessionKeys == [context: {config.context : config \in CONFIGS} \cup {"altered"},
                secrets: Seq(Secrets \cup {None})]
Envelopes == [key: SessionKeys, text: {"prediction", "forged"}]
Responses == [envelope: Envelopes, signature: [key: PublicKeys, message: Envelopes]]

ASSUME NoneAssumption ==
    /\ None \notin {"ciphertext", "signature", "aead", "establish", "timeout", "error", "handshake"}
    /\ None \notin BOOLEAN /\ None \notin Secrets /\ None \notin Responses

VARIABLES
    client_config, server_config,
    mode,          \* "unauthenticated" or "pinned"
    auth_enabled,  \* PQ_SHIELD_AUTH_HANDSHAKE=1
    process,       \* which run of the server process this is
    live,          \* the handshake is in _sessions
    pinned,        \* the client's pinned identity key, or None
    pc,            \* how far the transaction is
    real,          \* the handshake the server sent
    handshake,     \* the handshake the client receives
    session_key,   \* the client's
    middle_key,    \* the middle's key with the client
    upstream_key,  \* the middle's key with the server
    request,       \* the request on its way to the server
    response,      \* the response on its way to the client
    tampered,      \* history: the field of the response that was altered
    rejected_at    \* which check, if any, refused

parties == <<client_config, server_config, mode, auth_enabled>>
keys == <<session_key, middle_key, upstream_key>>
vars == <<parties, process, live, pinned, pc, real, handshake, keys, request, response,
          tampered, rejected_at>>

identity == IdentityKey(server_config, Server(process))

Init ==
    /\ client_config \in CONFIGS /\ server_config \in CONFIGS
    /\ mode \in {"unauthenticated", "pinned"} /\ auth_enabled \in BOOLEAN
    /\ process = 0 /\ live = FALSE /\ pinned = None
    /\ pc = IF mode = "pinned" THEN "pin" ELSE "begin"
    /\ real = None /\ handshake = None
    /\ session_key = None /\ middle_key = None /\ upstream_key = None
    /\ request = None /\ response = None
    /\ tampered = None /\ rejected_at = None

Fail(where) == pc' = "failed" /\ rejected_at' = where

-----------------------------------------------------------------------------
\* A new process has a new identity key and no handshakes.
Restart ==
    /\ process < MaxRestarts
    /\ process' = process + 1 /\ live' = FALSE
    /\ UNCHANGED <<parties, pinned, pc, real, handshake, keys, request, response,
                   tampered, rejected_at>>

\* fetch_identity: a 404 when handshake authentication is off.
FetchIdentity ==
    /\ pc = "pin"
    /\ IF auth_enabled
       THEN pinned' = identity /\ pc' = "begin" /\ UNCHANGED rejected_at
       ELSE Fail("error") /\ UNCHANGED pinned
    /\ UNCHANGED <<parties, process, live, real, handshake, keys, request, response, tampered>>

\* identity.sign(transcript(...))
SignedTranscript(shares, sig_key) ==
    Signature(identity, transcript(server_config, shares, sig_key))

\* GET /secure/handshake
Handshake ==
    /\ pc = "begin"
    /\ LET shares == kex_public_key(server_config, Server(process))
           sig_key == sig_public_key(server_config, Server(process))
       IN  real' = [kex_public_key |-> shares, sig_public_key |-> sig_key,
                    transcript_signature |->
                        IF auth_enabled THEN SignedTranscript(shares, sig_key) ELSE None]
    /\ handshake' = real'
    /\ live' = TRUE /\ pc' = "received"
    /\ UNCHANGED <<parties, process, pinned, keys, request, response, tampered, rejected_at>>

\* substitute: key share and signing key of the middle, in the client's format.
SubstituteKeys ==
    /\ pc = "received" /\ handshake = real
    /\ handshake' = [handshake EXCEPT
          !.kex_public_key = kex_public_key(client_config, Middle),
          !.sig_public_key = sig_public_key(client_config, Middle)]
    /\ UNCHANGED <<parties, process, live, pinned, pc, real, keys, request, response,
                   tampered, rejected_at>>

\* substitute_resign: a transcript signature under the middle's own identity.
Resign ==
    /\ pc = "received" /\ handshake # real
    /\ handshake' = [handshake EXCEPT !.transcript_signature =
          Signature(IdentityKey(server_config, Middle),
                    transcript(server_config, handshake.kex_public_key, handshake.sig_public_key))]
    /\ UNCHANGED <<parties, process, live, pinned, pc, real, keys, request, response,
                   tampered, rejected_at>>

-----------------------------------------------------------------------------
\* The algorithm names come with the handshake, as server_config's.
verify_handshake ==
    handshake.transcript_signature =
        Signature(pinned, transcript(server_config, handshake.kex_public_key,
                                     handshake.sig_public_key))

CheckHandshake ==
    /\ pc = "received" /\ mode = "pinned"
    /\ IF verify_handshake THEN pc' = "checked" /\ UNCHANGED rejected_at ELSE Fail("handshake")
    /\ UNCHANGED <<parties, process, live, pinned, real, handshake, keys, request, response,
                   tampered>>

\* establish and POST /secure/predict
Establish ==
    /\ pc = "checked" \/ (pc = "received" /\ mode = "unauthenticated")
    /\ IF Establishes(client_config, handshake.kex_public_key)
       THEN /\ session_key' = establish(client_config, handshake.kex_public_key, Client)
            /\ request' = [kex_blob |-> kex_blob(handshake.kex_public_key, Client),
                           key |-> session_key']
            /\ pc' = "posted" /\ UNCHANGED rejected_at
       ELSE Fail("establish") /\ UNCHANGED <<session_key, request>>
    /\ UNCHANGED <<parties, process, live, pinned, real, handshake, middle_key, upstream_key,
                   response, tampered>>

\* The middle, having substituted its keys, opens the request and sends it on
\* in a session of its own.
Intercept ==
    /\ pc = "posted" /\ handshake # real
    /\ middle_key' = accept(client_config, Middle, request.kex_blob)
    /\ IF Establishes(client_config, real.kex_public_key)
       THEN /\ upstream_key' = establish(client_config, real.kex_public_key, Middle)
            /\ request' = [kex_blob |-> kex_blob(real.kex_public_key, Middle),
                           key |-> upstream_key']
            /\ pc' = "forwarded" /\ UNCHANGED rejected_at
       ELSE Fail("error") /\ UNCHANGED <<upstream_key, request>>
    /\ UNCHANGED <<parties, process, live, pinned, real, handshake, session_key, response, tampered>>

Answer(key, text, signer) ==
    LET envelope == [key |-> key, text |-> text]
    IN  [envelope |-> envelope, signature |-> Signature(signer, envelope)]

\* POST /secure/predict: 404 for an unknown handshake, 400 for a request that
\* does not open; an answered handshake is forgotten.
Predict ==
    /\ \/ pc = "posted" /\ handshake = real
       \/ pc = "forwarded"
    /\ LET key == accept(server_config, Server(process), request.kex_blob)
       IN  IF live /\ key = request.key
           THEN /\ response' = Answer(key, "prediction",
                                      sig_public_key(server_config, Server(process)))
                /\ live' = FALSE
                /\ pc' = IF pc = "posted" THEN "answered" ELSE "intercepted"
                /\ UNCHANGED rejected_at
           ELSE Fail("error") /\ UNCHANGED <<response, live>>
    /\ UNCHANGED <<parties, process, pinned, real, handshake, keys, request, tampered>>

\* The middle opens the answer, re-encrypts a forged prediction and signs it
\* with its own key.
Forge ==
    /\ pc = "intercepted" /\ response.envelope.key = upstream_key
    /\ response' = Answer(middle_key, "forged", sig_public_key(client_config, Middle))
    /\ pc' = "answered"
    /\ UNCHANGED <<parties, process, live, pinned, real, handshake, keys, request, tampered,
                   rejected_at>>

\* An altered ciphertext opens under the key of no configuration.
Garbage == derive_session_key(<<>>, "altered")

\* _tamper_response_body, relay_tamper: one field of a response is altered.
Tamper(field) ==
    /\ pc = "answered" /\ tampered = None
    /\ tampered' = field
    /\ response' = IF field = "ciphertext"
                   THEN [response EXCEPT !.envelope.key = Garbage]
                   ELSE [response EXCEPT !.signature.key = sig_public_key(client_config, Nobody)]
    /\ UNCHANGED <<parties, process, live, pinned, pc, real, handshake, keys, request, rejected_at>>

\* aead_decrypt first,
OpenResponse ==
    /\ pc = "answered"
    /\ IF response.envelope.key = session_key
       THEN pc' = "opened" /\ UNCHANGED rejected_at
       ELSE Fail("aead")
    /\ UNCHANGED <<parties, process, live, pinned, real, handshake, keys, request, response, tampered>>

\* Mutant: the result of verify is not looked at.
VerifyResponseIgnored ==
    /\ pc = "opened"
    /\ IF Loads(client_config, handshake.sig_public_key)
       THEN pc' = "accepted" /\ UNCHANGED rejected_at
       ELSE Fail("error")
    /\ UNCHANGED <<parties, process, live, pinned, real, handshake, keys, request, response, tampered>>

\* then verify, under the signing key of the handshake.  secure_client records
\* a refusal as valid_signature = False, key_substitution as rejected_at.
VerifyResponse ==
    /\ pc = "opened"
    /\ IF ~Loads(client_config, handshake.sig_public_key)
       THEN Fail("error")
       ELSE IF response.signature = Signature(handshake.sig_public_key, response.envelope)
       THEN pc' = "accepted" /\ UNCHANGED rejected_at
       ELSE Fail("signature")
    /\ UNCHANGED <<parties, process, live, pinned, real, handshake, keys, request, response, tampered>>

\* A request fails or times out: the exception is the row's error.
GiveUp ==
    /\ pc \in {"pin", "begin", "posted", "forwarded", "intercepted"}
    /\ Fail("timeout")
    /\ UNCHANGED <<parties, process, live, pinned, real, handshake, keys, request, response, tampered>>

Ended == pc \in {"accepted", "failed"}
Done == Ended /\ UNCHANGED vars

Next ==
    \/ Restart \/ FetchIdentity \/ Handshake \/ SubstituteKeys \/ Resign
    \/ CheckHandshake \/ Establish \/ Intercept \/ Predict \/ Forge
    \/ Tamper("ciphertext") \/ Tamper("signature")
    \/ OpenResponse \/ VerifyResponse \/ GiveUp \/ Done

Spec == Init /\ [][Next]_vars

-----------------------------------------------------------------------------
(***************************************************************************)
(* Properties.                                                             *)
(***************************************************************************)
\* The parties of a transaction do not change and its stages are known ones.
TypeOK ==
    /\ client_config \in CONFIGS /\ server_config \in CONFIGS
    /\ mode \in {"unauthenticated", "pinned"} /\ auth_enabled \in BOOLEAN
    /\ process \in 0..MaxRestarts /\ live \in BOOLEAN
    /\ pc \in {"pin", "begin", "received", "checked", "posted", "forwarded", "intercepted",
               "answered", "opened", "accepted", "failed"}
    /\ tampered \in {None, "ciphertext", "signature"}
    /\ rejected_at \in {None, "error", "timeout", "handshake", "establish", "aead", "signature"}
    /\ pinned # None => auth_enabled /\ mode = "pinned"

\* A client with a pinned identity never has its request read, never accepts
\* a forged prediction, and what it accepts was signed by the very process
\* whose identity it pinned, restarts or not.
PinnedNeverDeceived ==
    mode = "pinned" =>
        /\ middle_key = None
        /\ pc = "accepted" =>
              /\ response.envelope.text = "prediction"
              /\ response.signature.key.owner = pinned.owner

\* An altered response is never accepted, pinned or not.
TamperingDetected == pc = "accepted" => tampered = None

\* Without a middle, client and server complete a transaction only under the
\* same configuration: key formats, HKDF contexts and signature algorithms
\* between them tell all six apart.
ConfigsDoNotMix ==
    (pc = "accepted" /\ handshake = real) => client_config = server_config

\* Client and server of one configuration complete a transaction unless the
\* network, a restart or the middle interferes: the six implementations agree
\* on keys, contexts and signatures, and the identity check refuses no honest
\* handshake.
NoFalseRejection ==
    (/\ client_config = server_config /\ process = 0
     /\ mode = "pinned" => auth_enabled
     /\ handshake = real /\ tampered = None) => rejected_at \in {None, "timeout"}

-----------------------------------------------------------------------------
(***************************************************************************)
(* Why they hold: the inductive invariant.                                 *)
(***************************************************************************)
\* The handshake of process p, and what the middle makes of it.
Sent(p) ==
    LET shares == kex_public_key(server_config, Server(p))
        sig_key == sig_public_key(server_config, Server(p))
    IN  [kex_public_key |-> shares, sig_public_key |-> sig_key,
         transcript_signature |->
             IF auth_enabled
             THEN Signature(IdentityKey(server_config, Server(p)),
                            transcript(server_config, shares, sig_key))
             ELSE None]
Substituted(h) ==
    [kex_public_key |-> kex_public_key(client_config, Middle),
     sig_public_key |-> sig_public_key(client_config, Middle),
     transcript_signature |-> h.transcript_signature]
Resigned(h) ==
    [h EXCEPT !.transcript_signature =
        Signature(IdentityKey(server_config, Middle),
                  transcript(server_config, h.kex_public_key, h.sig_public_key))]

\* What the client pinned is the identity of a process of the server.
PinInv ==
    /\ pc = "pin" => mode = "pinned"
    /\ (mode = "pinned" /\ pc \notin {"pin", "failed"}) =>
          auth_enabled /\ \E p \in 0..process : pinned = IdentityKey(server_config, Server(p))

\* The client holds a process's handshake, or the middle's version of it.
HandshakeInv ==
    pc \notin {"pin", "begin", "failed"} =>
        \E p \in 0..process :
            /\ real = Sent(p)
            /\ \/ handshake = real
               \/ handshake = Substituted(real)
               \/ handshake = Resigned(Substituted(real))

\* Past the check, a pinned client holds the handshake of the process it pinned.
CheckedInv ==
    mode = "pinned" =>
        /\ pc \notin {"forwarded", "intercepted"} /\ middle_key = None
        /\ pc \in {"checked", "posted", "answered", "opened", "accepted"} =>
              handshake = real /\ real.sig_public_key.owner = pinned.owner
        /\ pc \in {"answered", "opened", "accepted"} => response.envelope.text = "prediction"

\* An altered field stays recognizable until the client looks at it.
ResponseInv ==
    /\ pc \notin {"answered", "opened", "failed"} => tampered = None
    /\ pc \in {"posted", "forwarded", "intercepted", "answered", "opened"} =>
          session_key.context = client_config.context
    /\ pc \in {"answered", "opened"} =>
          /\ response = [envelope |-> [key |-> response.envelope.key,
                                       text |-> response.envelope.text],
                         signature |-> [key |-> response.signature.key,
                                        message |-> response.signature.message]]
          /\ tampered = "ciphertext" => response.envelope.key = Garbage
          /\ tampered = "signature" => response.signature.key.owner = Nobody
    /\ pc = "opened" => tampered # "ciphertext"
    /\ pc = "accepted" => response.signature.key = handshake.sig_public_key

Inv == TypeOK /\ PinInv /\ HandshakeInv /\ CheckedInv /\ ResponseInv

=============================================================================
