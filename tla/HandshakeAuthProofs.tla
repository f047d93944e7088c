-------------------------- MODULE HandshakeAuthProofs --------------------------
(***************************************************************************)
(* What holds of the handshake and its clients for any number of restarts  *)
(* of the server.  Inv, of HandshakeAuth, says what a client may hold and  *)
(* carries the pinned identity to the accepted response.  ClientInv adds   *)
(* what the client sent and what each of its outcomes says of the          *)
(* response, which the dashboard's client judges by; ArchiveInv what an    *)
(* observer has recorded of it.                                            *)
(***************************************************************************)
EXTENDS DemoRequest, TLAPS

\* A configuration's HKDF context is never the one that stands for garbage.
LEMMA ContextGenuine ==
    ASSUME NEW config \in CONFIGS
    PROVE  config.context # "altered"
<1>1. hybrid_kex_pq.context = hybrid_kex.context
  BY DEF hybrid_kex_pq, hybrid_kex, Config
<1>2. /\ classical.context # "altered" /\ classical_ecdhe.context # "altered"
      /\ hybrid.context # "altered" /\ hybrid_kex.context # "altered"
      /\ full_pqc.context # "altered"
  BY DEF classical, classical_ecdhe, hybrid, hybrid_kex, full_pqc, Config
<1> QED BY <1>1, <1>2 DEF CONFIGS

\* The owners of keys are told apart by their tags.
LEMMA Owners ==
    /\ \A p : Server(p) # Middle /\ Server(p) # Nobody
    /\ Middle # Nobody
    /\ \A p, q : Server(p) = Server(q) => p = q
BY DEF Server, Middle, Nobody

\* verify_handshake accepts, of all that can reach a pinned client, only the
\* handshake a server process sent, and only that of the process pinned.
LEMMA OnlyThePinned ==
    ASSUME mode = "pinned", auth_enabled,
           NEW p, NEW q, pinned = IdentityKey(server_config, Server(q)),
           real = Sent(p),
           \/ handshake = real
           \/ handshake = Substituted(real)
           \/ handshake = Resigned(Substituted(real)),
           verify_handshake
    PROVE  handshake = real /\ real.sig_public_key.owner = pinned.owner
<1> DEFINE T(h) == transcript(server_config, h.kex_public_key, h.sig_public_key)
<1>1. /\ real.sig_public_key.owner = Server(p)
      /\ real.transcript_signature.key.owner = Server(p)
      /\ real.transcript_signature.message = T(real)
  BY DEF Sent, sig_public_key, PublicKey, Signature, IdentityKey
<1>2. /\ handshake.transcript_signature.key = pinned
      /\ handshake.transcript_signature.message = T(handshake)
      /\ pinned.owner = Server(q)
  BY DEF verify_handshake, Signature, IdentityKey, PublicKey
<1>3. CASE handshake = real
  BY <1>1, <1>2, <1>3
<1>4. CASE handshake = Substituted(real)
  <2>1. handshake.transcript_signature = real.transcript_signature
    BY <1>4 DEF Substituted
  <2>2. T(handshake) = T(real)
    BY <1>1, <1>2, <2>1
  <2>3. /\ handshake.kex_public_key = real.kex_public_key
        /\ handshake.sig_public_key = real.sig_public_key
    BY <2>2 DEF transcript
  <2>4. handshake = real
    BY <1>4, <2>1, <2>3 DEF Substituted, Sent
  <2> QED BY <1>1, <1>2, <2>4
<1>5. CASE handshake = Resigned(Substituted(real))
  <2>1. handshake.transcript_signature.key.owner = Middle
    BY <1>5 DEF Resigned, Substituted, Signature, IdentityKey, PublicKey
  <2> QED BY <1>2, <2>1, Owners
<1> QED BY <1>3, <1>4, <1>5

-----------------------------------------------------------------------------
LEMMA InitInv == Init => Inv
<1> SUFFICES ASSUME Init PROVE Inv
  OBVIOUS
<1>1. pc \in {"pin", "begin"}
  BY DEF Init
<1>2. 0 \in 0..MaxRestarts
  BY MaxRestartsAssumption
<1>3. TypeOK
  BY <1>1, <1>2, Zenon DEF Init, TypeOK
<1>4. PinInv /\ HandshakeInv /\ CheckedInv /\ ResponseInv
  BY <1>1 DEF Init, PinInv, HandshakeInv, CheckedInv, ResponseInv
<1> QED BY <1>3, <1>4 DEF Inv

\* One case per action of the specification.
LEMMA StepInv == Inv /\ [Next]_vars => Inv'
<1> SUFFICES ASSUME Inv, [Next]_vars PROVE Inv'
  OBVIOUS
<1> USE MaxRestartsAssumption
<1>a. None # "ciphertext" /\ None # "signature"
  BY NoneAssumption
<1>0. /\ process \in Nat /\ \A p \in 0..process : p \in 0..(process + 1)
      /\ client_config \in CONFIGS
  BY DEF Inv, TypeOK
<1>1. CASE Restart
  <2>1. 0..process \subseteq 0..process'
    BY <1>0, <1>1 DEF Restart
  <2>2. process' \in 0..MaxRestarts
    BY <1>0, <1>1 DEF Restart
  <2>6. TypeOK'
    BY <1>1, <2>2, Zenon DEF Restart, Inv, TypeOK, parties, keys
  <2>3. PinInv'
    BY <1>1, <2>1 DEF Restart, Inv, PinInv, parties, keys, IdentityKey
  <2>4. HandshakeInv'
    BY <1>1, <2>1 DEF Restart, Inv, HandshakeInv, parties, keys, Sent, Substituted, Resigned
  <2>5. CheckedInv' /\ ResponseInv'
    BY <1>1 DEF Restart, Inv, CheckedInv, ResponseInv, parties, keys
  <2> QED BY <2>3, <2>4, <2>5, <2>6 DEF Inv
<1>2. CASE FetchIdentity
  <2>1. process \in 0..process /\ mode \in {"unauthenticated", "pinned"}
    BY <1>0 DEF Inv, TypeOK
  <2>2. TypeOK'
    BY <1>2, Zenon DEF FetchIdentity, Fail, Inv, TypeOK, PinInv, parties, keys
  <2>3. PinInv'
    BY <1>2, <2>1 DEF FetchIdentity, Fail, PinInv, parties, identity, IdentityKey
  <2>4. HandshakeInv' /\ CheckedInv' /\ ResponseInv'
    BY <1>2 DEF FetchIdentity, Fail, Inv, HandshakeInv, CheckedInv, ResponseInv, parties, keys
  <2> QED BY <2>2, <2>3, <2>4 DEF Inv
<1>3. CASE Handshake
  <2>1. real' = Sent(process) /\ handshake' = real' /\ process \in 0..process
    BY <1>0, <1>3 DEF Handshake, Sent, SignedTranscript, identity
  <2>2. HandshakeInv'
    BY <1>3, <2>1 DEF Handshake, HandshakeInv, parties, Sent
  <2> QED BY <1>3, <2>2 DEF Handshake, Inv, TypeOK, PinInv, CheckedInv, ResponseInv, parties, keys
<1>4. CASE SubstituteKeys
  <2>1. PICK p \in 0..process : real = Sent(p)
    BY <1>4 DEF SubstituteKeys, Inv, HandshakeInv
  <2>2. handshake' = Substituted(real)
    BY <1>4, <2>1 DEF SubstituteKeys, Substituted, Sent
  <2>3. HandshakeInv'
    BY <1>4, <2>1, <2>2 DEF SubstituteKeys, HandshakeInv, parties, Sent, Substituted
  <2> QED BY <1>4, <2>3 DEF SubstituteKeys, Inv, TypeOK, PinInv, CheckedInv, ResponseInv, parties, keys
<1>5. CASE Resign
  <2>1. PICK p \in 0..process :
          /\ real = Sent(p)
          /\ handshake \in {Substituted(real), Resigned(Substituted(real))}
    BY <1>5 DEF Resign, Inv, HandshakeInv
  <2>2. handshake' = Resigned(Substituted(real))
    BY <1>5, <2>1 DEF Resign, Resigned, Substituted
  <2>3. HandshakeInv'
    BY <1>5, <2>1, <2>2 DEF Resign, HandshakeInv, parties, Sent, Substituted, Resigned
  <2> QED BY <1>5, <2>3 DEF Resign, Inv, TypeOK, PinInv, CheckedInv, ResponseInv, parties, keys
<1>6. CASE CheckHandshake
  <2>1. PICK p \in 0..process :
          /\ real = Sent(p)
          /\ \/ handshake = real
             \/ handshake = Substituted(real)
             \/ handshake = Resigned(Substituted(real))
    BY <1>6 DEF CheckHandshake, Inv, HandshakeInv
  <2>2. /\ auth_enabled /\ mode = "pinned"
        /\ \E q \in 0..process : pinned = IdentityKey(server_config, Server(q))
    BY <1>6 DEF CheckHandshake, Inv, PinInv
  <2>3. PICK q \in 0..process : pinned = IdentityKey(server_config, Server(q))
    BY <2>2
  <2>4. verify_handshake => handshake = real /\ real.sig_public_key.owner = pinned.owner
    BY <2>1, <2>2, <2>3, OnlyThePinned
  <2>5. HandshakeInv'
    BY <1>6, <2>1 DEF CheckHandshake, Fail, HandshakeInv, parties, Sent, Substituted, Resigned
  <2>6. CheckedInv'
    BY <1>6, <2>4 DEF CheckHandshake, Fail, Inv, CheckedInv, parties, keys
  <2> QED BY <1>6, <2>5, <2>6 DEF CheckHandshake, Fail, Inv, TypeOK, PinInv, ResponseInv, parties, keys
<1> DEFINE SameHandshake == UNCHANGED <<parties, process, pinned, real, handshake>>
           Unsent == {"pin", "begin", "failed"}
<1>7. ASSUME SameHandshake, pc \in Unsent => pc' = "failed", pc' \notin {"pin", "begin"}
      PROVE  HandshakeInv' /\ PinInv'
  <2>1. HandshakeInv'
    BY <1>7 DEF Inv, HandshakeInv, parties, Sent, Substituted, Resigned
  <2>2. PinInv'
    BY <1>7 DEF Inv, PinInv, parties, IdentityKey
  <2> QED BY <2>1, <2>2
<1>8. CASE Establish
  <2>1. HandshakeInv' /\ PinInv'
    BY <1>7, <1>8 DEF Establish, Fail, parties
  <2>2. TypeOK'
    BY <1>8 DEF Establish, Fail, Inv, TypeOK, parties, keys
  <2>3. CheckedInv' /\ ResponseInv'
    BY <1>8 DEF Establish, Fail, Inv, CheckedInv, ResponseInv, parties, establish, derive_session_key
  <2> QED BY <2>1, <2>2, <2>3 DEF Inv
<1>9. CASE Intercept
  <2>1. HandshakeInv' /\ PinInv'
    BY <1>7, <1>9 DEF Intercept, Fail, parties
  <2>2. mode # "pinned"
    BY <1>9 DEF Intercept, Inv, CheckedInv
  <2>3. TypeOK'
    BY <1>9 DEF Intercept, Fail, Inv, TypeOK, parties
  <2>4. CheckedInv' /\ ResponseInv'
    BY <1>9, <2>2 DEF Intercept, Fail, Inv, CheckedInv, ResponseInv, parties
  <2> QED BY <2>1, <2>3, <2>4 DEF Inv
<1>10. CASE Predict
  <2>1. HandshakeInv' /\ PinInv'
    BY <1>7, <1>10 DEF Predict, Fail, parties
  <2>2. TypeOK'
    BY <1>10 DEF Predict, Fail, Inv, TypeOK, parties, keys
  <2>3. CheckedInv'
    BY <1>10 DEF Predict, Fail, Inv, CheckedInv, parties, keys, Answer
  <2>4. ResponseInv'
    BY <1>a, <1>10 DEF Predict, Fail, Inv, ResponseInv, parties, keys, Answer, Signature
  <2> QED BY <2>1, <2>2, <2>3, <2>4 DEF Inv
<1>11. CASE Forge
  <2>1. HandshakeInv' /\ PinInv'
    BY <1>7, <1>11 DEF Forge, parties
  <2>2. TypeOK' /\ CheckedInv'
    BY <1>11 DEF Forge, Inv, TypeOK, CheckedInv, parties, keys
  <2>3. ResponseInv'
    BY <1>a, <1>11 DEF Forge, Inv, ResponseInv, parties, keys, Answer, Signature
  <2> QED BY <2>1, <2>2, <2>3 DEF Inv
<1>12. ASSUME NEW field \in {"ciphertext", "signature"}, Tamper(field)
       PROVE  Inv'
  <2>1. HandshakeInv' /\ PinInv'
    BY <1>7, <1>12 DEF Tamper, parties
  <2>2. TypeOK'
    BY <1>12, Zenon DEF Tamper, Inv, TypeOK, parties
  <2> DEFINE r == response
  <2>3. r = [envelope |-> [key |-> r.envelope.key, text |-> r.envelope.text],
             signature |-> [key |-> r.signature.key, message |-> r.signature.message]]
    BY <1>12 DEF Tamper, Inv, ResponseInv
  <2>4. \/ /\ field = "ciphertext"
           /\ response' = [envelope |-> [key |-> Garbage, text |-> r.envelope.text],
                           signature |-> r.signature]
        \/ /\ field = "signature"
           /\ response' = [envelope |-> r.envelope,
                           signature |-> [key |-> sig_public_key(client_config, Nobody),
                                          message |-> r.signature.message]]
    BY <1>12, <2>3 DEF Tamper
  <2>5. response'.envelope.text = response.envelope.text
    BY <2>3, <2>4
  <2>6. CheckedInv'
    BY <1>12, <2>5 DEF Tamper, Inv, CheckedInv, parties, keys
  <2>7. ResponseInv'
    BY <1>12, <2>3, <2>4 DEF Tamper, Inv, ResponseInv, parties, keys, sig_public_key, PublicKey, Garbage,
       derive_session_key
  <2> QED BY <2>1, <2>2, <2>6, <2>7 DEF Inv
<1>13. CASE OpenResponse
  <2>1. HandshakeInv' /\ PinInv'
    BY <1>7, <1>13 DEF OpenResponse, Fail, parties
  <2>2. TypeOK' /\ CheckedInv'
    BY <1>13 DEF OpenResponse, Fail, Inv, TypeOK, CheckedInv, parties, keys
  <2>3. response.envelope.key = session_key => tampered # "ciphertext"
    BY <1>0, <1>13, ContextGenuine DEF OpenResponse, Inv, ResponseInv, Garbage, derive_session_key
  <2>4. ResponseInv'
    BY <1>13, <2>3 DEF OpenResponse, Fail, Inv, ResponseInv, parties, keys
  <2> QED BY <2>1, <2>2, <2>4 DEF Inv
<1>14. CASE VerifyResponse
  <2>1. HandshakeInv' /\ PinInv'
    BY <1>7, <1>14 DEF VerifyResponse, Fail, parties
  <2>2. TypeOK' /\ CheckedInv'
    BY <1>14 DEF VerifyResponse, Fail, Inv, TypeOK, CheckedInv, parties, keys
  <2>3. handshake.sig_public_key.owner # Nobody
    <3>1. PICK p \in 0..process :
            /\ real = Sent(p)
            /\ \/ handshake = real
               \/ handshake = Substituted(real)
               \/ handshake = Resigned(Substituted(real))
      BY <1>14 DEF VerifyResponse, Inv, HandshakeInv
    <3>2. Sent(p).sig_public_key.owner = Server(p)
      BY DEF Sent, sig_public_key, PublicKey
    <3>3. Substituted(real).sig_public_key.owner = Middle
      BY DEF Substituted, sig_public_key, PublicKey
    <3>4. Resigned(Substituted(real)).sig_public_key = Substituted(real).sig_public_key
      BY DEF Substituted, Resigned
    <3> QED BY <3>1, <3>2, <3>3, <3>4, Owners
  <2>4. response.signature = Signature(handshake.sig_public_key, response.envelope)
          => tampered = None /\ response.signature.key = handshake.sig_public_key
    BY <1>14, <2>3 DEF VerifyResponse, Inv, TypeOK, ResponseInv, Signature
  <2>5. ResponseInv'
    BY <1>14, <2>4 DEF VerifyResponse, Fail, Inv, ResponseInv, parties, keys
  <2> QED BY <2>1, <2>2, <2>5 DEF Inv
<1>15. CASE GiveUp
  BY <1>15 DEF GiveUp, Fail, Inv, TypeOK, PinInv, HandshakeInv, CheckedInv, ResponseInv, parties, keys
<1>16. CASE UNCHANGED vars
  <2>1. HandshakeInv'
    BY <1>16 DEF vars, Inv, HandshakeInv, parties, Sent, Substituted, Resigned
  <2> QED BY <1>16, <2>1 DEF vars, Inv, TypeOK, PinInv, CheckedInv, ResponseInv, parties, keys
<1> QED BY <1>1, <1>2, <1>3, <1>4, <1>5, <1>6, <1>8, <1>9, <1>10, <1>11, <1>12, <1>13, <1>14,
           <1>15, <1>16 DEF Next, Done

\* The inductive invariant of the handshake, of the client that checks it and
\* of the middle between them.
THEOREM Invariance == Spec => []Inv
BY InitInv, StepInv, PTL DEF Spec

\* A client that pinned the server's identity (fetch_identity) is never read
\* and never accepts what another process, or the middle, signed.
THEOREM PinnedSafe == Spec => []PinnedNeverDeceived
<1>1. Inv => PinnedNeverDeceived
  BY DEF Inv, CheckedInv, ResponseInv, PinnedNeverDeceived
<1> QED BY <1>1, Invariance, PTL

\* AEAD and signature between them catch any altered response, whoever holds
\* the session with the client.
THEOREM TamperSafe == Spec => []TamperingDetected
<1>1. Inv => TamperingDetected
  BY DEF Inv, ResponseInv, TamperingDetected
<1> QED BY <1>1, Invariance, PTL

-----------------------------------------------------------------------------
(***************************************************************************)
(* Configurations.                                                         *)
(***************************************************************************)
\* The client has run establish on the handshake it holds, and what it has
\* accepted was verified with its own algorithm.
FormatInv ==
    /\ pc \in {"posted", "forwarded", "intercepted", "answered", "opened", "accepted"} =>
          Establishes(client_config, handshake.kex_public_key)
    /\ pc = "accepted" => Loads(client_config, handshake.sig_public_key)

\* The schemes of the key shares and of the signature tell the six apart.
LEMMA SchemesTellApart ==
    ASSUME NEW c \in CONFIGS, NEW d \in CONFIGS, c.sig = d.sig,
           DOMAIN c.kex = DOMAIN d.kex, \A i \in DOMAIN c.kex : c.kex[i] = d.kex[i]
    PROVE  c = d
<1>1. /\ classical.kex = <<RSA>> /\ classical.sig = ECDSA
      /\ classical_ecdhe.kex = <<X25519>> /\ classical_ecdhe.sig = ECDSA
      /\ hybrid.kex = <<MLKEM>> /\ hybrid.sig = ECDSA
      /\ hybrid_kex.kex = <<MLKEM, X25519>> /\ hybrid_kex.sig = ECDSA
      /\ full_pqc.kex = <<MLKEM>> /\ full_pqc.sig = MLDSA
      /\ hybrid_kex_pq.kex = <<MLKEM, X25519>> /\ hybrid_kex_pq.sig = MLDSA
  BY DEF classical, classical_ecdhe, hybrid, hybrid_kex, full_pqc, hybrid_kex_pq, Config
<1>2. /\ c.kex \in {<<RSA>>, <<X25519>>, <<MLKEM>>, <<MLKEM, X25519>>}
      /\ d.kex \in {<<RSA>>, <<X25519>>, <<MLKEM>>, <<MLKEM, X25519>>}
  BY <1>1 DEF CONFIGS
<1>3. RSA # X25519 /\ RSA # MLKEM /\ X25519 # MLKEM /\ ECDSA # MLDSA
  BY DEF RSA, X25519, MLKEM, ECDSA, MLDSA
<1>4. c.kex = d.kex
  BY <1>2, <1>3
<1>5. /\ <<RSA>> # <<X25519>> /\ <<RSA>> # <<MLKEM>> /\ <<X25519>> # <<MLKEM>>
      /\ <<RSA>> # <<MLKEM, X25519>> /\ <<X25519>> # <<MLKEM, X25519>> /\ <<MLKEM>> # <<MLKEM, X25519>>
  BY <1>3
<1>6. CASE c = classical
  BY <1>1, <1>3, <1>4, <1>5, <1>6 DEF CONFIGS
<1>7. CASE c = classical_ecdhe
  BY <1>1, <1>3, <1>4, <1>5, <1>7 DEF CONFIGS
<1>8. CASE c = hybrid
  BY <1>1, <1>3, <1>4, <1>5, <1>8 DEF CONFIGS
<1>9. CASE c = hybrid_kex
  BY <1>1, <1>3, <1>4, <1>5, <1>9 DEF CONFIGS
<1>10. CASE c = full_pqc
  BY <1>1, <1>3, <1>4, <1>5, <1>10 DEF CONFIGS
<1>11. CASE c = hybrid_kex_pq
  BY <1>1, <1>3, <1>4, <1>5, <1>11 DEF CONFIGS
<1> QED BY <1>6, <1>7, <1>8, <1>9, <1>10, <1>11 DEF CONFIGS

LEMMA FormatStep == FormatInv /\ [Next]_vars => FormatInv'
<1> SUFFICES ASSUME FormatInv, [Next]_vars PROVE FormatInv'
  OBVIOUS
<1>1. CASE Establish
  BY <1>1 DEF Establish, Fail, FormatInv, parties
<1>2. CASE VerifyResponse
  BY <1>2 DEF VerifyResponse, Fail, FormatInv, parties
<1>3. CASE Restart \/ FetchIdentity \/ Handshake \/ SubstituteKeys \/ Resign \/ CheckHandshake
  BY <1>3 DEF Restart, FetchIdentity, Handshake, SubstituteKeys, Resign, CheckHandshake, Fail,
     FormatInv, parties
<1>4. CASE Intercept \/ Predict \/ Forge \/ OpenResponse \/ GiveUp
  BY <1>4 DEF Intercept, Predict, Forge, OpenResponse, GiveUp, Fail, FormatInv, parties
<1>5. CASE Tamper("ciphertext") \/ Tamper("signature")
  BY <1>5 DEF Tamper, FormatInv, parties
<1>6. CASE UNCHANGED vars
  BY <1>6 DEF vars, FormatInv, parties
<1> QED BY <1>1, <1>2, <1>3, <1>4, <1>5, <1>6 DEF Next, Done

LEMMA NoMix == Inv /\ FormatInv => ConfigsDoNotMix
<1> SUFFICES ASSUME Inv, FormatInv, pc = "accepted", handshake = real
             PROVE  client_config = server_config
  BY DEF ConfigsDoNotMix
<1>1. client_config \in CONFIGS /\ server_config \in CONFIGS
  BY DEF Inv, TypeOK
<1>2. PICK p \in 0..process : real = Sent(p)
  BY DEF Inv, HandshakeInv
<1>3. /\ real.kex_public_key = kex_public_key(server_config, Server(p))
      /\ real.sig_public_key = sig_public_key(server_config, Server(p))
  BY <1>2 DEF Sent
<1>4. /\ DOMAIN real.kex_public_key = DOMAIN server_config.kex
      /\ \A i \in DOMAIN server_config.kex : real.kex_public_key[i].scheme = server_config.kex[i]
  BY <1>3 DEF kex_public_key, PublicKey
<1>5. /\ DOMAIN real.kex_public_key = DOMAIN client_config.kex
      /\ \A i \in DOMAIN real.kex_public_key : real.kex_public_key[i].scheme = client_config.kex[i]
  BY DEF FormatInv, Establishes
<1>6. client_config.sig = server_config.sig
  BY <1>3 DEF FormatInv, Loads, sig_public_key, PublicKey
<1> QED BY <1>1, <1>4, <1>5, <1>6, SchemesTellApart

\* establish and verify let a client complete a transaction with a server only
\* if both run the same of the six configurations.
THEOREM NeverMixed == Spec => []ConfigsDoNotMix
<1>1. Init => FormatInv
  BY DEF Init, FormatInv
<1> QED BY <1>1, FormatStep, NoMix, Invariance, PTL DEF Spec


-----------------------------------------------------------------------------
(***************************************************************************)
(* The two clients.                                                        *)
(***************************************************************************)
\* An undisturbed exchange passes every check still to come.
Undisturbed ==
    /\ client_config = server_config /\ process = 0
    /\ mode = "pinned" => auth_enabled
    /\ handshake = real /\ tampered = None

Posted == {"posted", "forwarded", "intercepted", "answered", "opened", "accepted"}

\* What the client sent, and what it holds against the answer.
RequestInv ==
    /\ pc \in Posted => session_key = establish(client_config, handshake.kex_public_key, Client)
    /\ pc = "posted" =>
          request = [kex_blob |-> kex_blob(handshake.kex_public_key, Client), key |-> session_key]
    /\ pc \in {"forwarded", "intercepted"} => handshake # real
    /\ pc = "forwarded" =>
          /\ Establishes(client_config, real.kex_public_key)
          /\ request.key = establish(client_config, real.kex_public_key, Middle)
    /\ pc \in {"forwarded", "intercepted"} => middle_key = session_key
    /\ process = 0 /\ pc \in {"received", "checked", "posted", "forwarded"} => live

\* Without a fault, the answer is the one the client is waiting for, and no
\* check has refused.
HonestInv ==
    Undisturbed =>
        /\ rejected_at \in {None, "timeout"}
        /\ pc \in {"answered", "opened"} =>
              response = Answer(session_key, "prediction", handshake.sig_public_key)

\* What each outcome of the benchmark client says of the response.
SignatureOK == response.signature = Signature(handshake.sig_public_key, response.envelope)
OutcomeInv ==
    /\ pc = "failed" => rejected_at \in {"error", "timeout", "handshake", "establish", "aead", "signature"}
    /\ pc # "failed" => rejected_at = None
    /\ rejected_at = "handshake" => mode = "pinned"
    /\ rejected_at = "error" /\ mode = "unauthenticated" =>
          response = None \/ ~Loads(client_config, handshake.sig_public_key)
    /\ pc \in {"pin", "begin", "received", "checked", "posted", "forwarded"} => response = None
    /\ pc \in {"intercepted", "answered", "opened", "accepted"} \/ rejected_at \in {"aead", "signature"} =>
          response \in Responses
    /\ pc \in {"opened", "accepted"} \/ rejected_at = "signature" => response.envelope.key = session_key
    /\ rejected_at = "aead" => response.envelope.key # session_key
    /\ rejected_at \in {"aead", "signature"} /\ client_config = server_config =>
          Loads(client_config, handshake.sig_public_key)
    /\ pc = "accepted" => Loads(client_config, handshake.sig_public_key) /\ SignatureOK
    /\ rejected_at = "signature" => Loads(client_config, handshake.sig_public_key) /\ ~SignatureOK

\* The configurations' schemes, and the keys made of them.
LEMMA ConfigShape ==
    ASSUME NEW c \in CONFIGS
    PROVE  /\ c.sig \in {ECDSA, MLDSA}
           /\ c.kex \in {<<RSA>>, <<X25519>>, <<MLKEM>>, <<MLKEM, X25519>>}
           /\ \E n \in {1, 2} : DOMAIN c.kex = 1..n
           /\ \A i \in DOMAIN c.kex : c.kex[i] \in {RSA, X25519, MLKEM}
<1>1. /\ classical.kex = <<RSA>> /\ classical.sig = ECDSA
      /\ classical_ecdhe.kex = <<X25519>> /\ classical_ecdhe.sig = ECDSA
      /\ hybrid.kex = <<MLKEM>> /\ hybrid.sig = ECDSA
      /\ hybrid_kex.kex = <<MLKEM, X25519>> /\ hybrid_kex.sig = ECDSA
      /\ full_pqc.kex = <<MLKEM>> /\ full_pqc.sig = MLDSA
      /\ hybrid_kex_pq.kex = <<MLKEM, X25519>> /\ hybrid_kex_pq.sig = MLDSA
  BY DEF classical, classical_ecdhe, hybrid, hybrid_kex, full_pqc, hybrid_kex_pq, Config
<1>2. /\ c.sig \in {ECDSA, MLDSA}
      /\ c.kex \in {<<RSA>>, <<X25519>>, <<MLKEM>>, <<MLKEM, X25519>>}
  BY <1>1 DEF CONFIGS
<1>3. \/ DOMAIN c.kex = 1..1 /\ c.kex[1] \in {RSA, X25519, MLKEM}
      \/ DOMAIN c.kex = 1..2 /\ c.kex[1] \in {RSA, X25519, MLKEM} /\ c.kex[2] \in {RSA, X25519, MLKEM}
  BY <1>2
<1> QED BY <1>2, <1>3

Owner == {"server", "middle", "nobody", "client"} \X Nat

\* A key share in the format of a configuration.
ShareOf(shares, config) ==
    /\ DOMAIN shares = DOMAIN config.kex
    /\ \A i \in DOMAIN config.kex : shares[i] \in PublicKeys /\ shares[i].scheme = config.kex[i]

LEMMA KeyTypes ==
    ASSUME NEW c \in CONFIGS, NEW o \in Owner
    PROVE  /\ sig_public_key(c, o) \in PublicKeys
           /\ sig_public_key(c, o).scheme = c.sig /\ sig_public_key(c, o).owner = o
           /\ ShareOf(kex_public_key(c, o), c)
           /\ \A i \in DOMAIN c.kex : kex_public_key(c, o)[i].owner = o
<1>1. c.sig \in {ECDSA, MLDSA} /\ \A i \in DOMAIN c.kex : c.kex[i] \in {RSA, X25519, MLKEM}
  BY ConfigShape
<1>2. /\ sig_public_key(c, o) \in PublicKeys
      /\ sig_public_key(c, o).scheme = c.sig /\ sig_public_key(c, o).owner = o
  BY <1>1 DEF sig_public_key, PublicKey, PublicKeys, Owner
<1>3. DOMAIN kex_public_key(c, o) = DOMAIN c.kex
  BY DEF kex_public_key
<1>4. ASSUME NEW i \in DOMAIN c.kex
      PROVE  /\ kex_public_key(c, o)[i] \in PublicKeys
             /\ kex_public_key(c, o)[i].scheme = c.kex[i] /\ kex_public_key(c, o)[i].owner = o
  <2>1. c.kex[i] \in {RSA, X25519, MLKEM}
    BY <1>1
  <2>2. kex_public_key(c, o)[i] = [scheme |-> c.kex[i], owner |-> o, use |-> "kex"]
    BY DEF kex_public_key, PublicKey
  <2>3. [scheme |-> c.kex[i], owner |-> o, use |-> "kex"] \in PublicKeys
    BY <2>1 DEF PublicKeys, Owner
  <2> QED BY <2>2, <2>3
<1> QED BY <1>2, <1>3, <1>4 DEF ShareOf

LEMMA OwnerTypes == Middle \in Owner /\ Nobody \in Owner /\ \A p \in Nat : Server(p) \in Owner
BY DEF Owner, Middle, Nobody, Server

\* The secrets a client makes against a share, and the key they give.
LEMMA SecretTypes ==
    ASSUME NEW c \in CONFIGS, NEW shares, ShareOf(shares, c), NEW by \in {Client, Middle}
    PROVE  /\ DOMAIN kex_blob(shares, by) = DOMAIN c.kex
           /\ \A i \in DOMAIN c.kex : /\ kex_blob(shares, by)[i] \in Secrets
                                      /\ kex_blob(shares, by)[i].share = shares[i]
           /\ \A d \in CONFIGS : establish(d, shares, by) \in SessionKeys
           /\ \A d : establish(d, shares, by) = [context |-> d.context, secrets |-> kex_blob(shares, by)]
<1>1. DOMAIN kex_blob(shares, by) = DOMAIN c.kex
  BY DEF kex_blob, ShareOf
<1>2. ASSUME NEW i \in DOMAIN c.kex
      PROVE  kex_blob(shares, by)[i] \in Secrets /\ kex_blob(shares, by)[i].share = shares[i]
  <2>1. kex_blob(shares, by)[i] = [share |-> shares[i], by |-> by]
    BY DEF kex_blob, encaps, ShareOf
  <2>2. shares[i] \in PublicKeys
    BY DEF ShareOf
  <2> QED BY <2>1, <2>2 DEF Secrets
<1>3. kex_blob(shares, by) \in Seq(Secrets \cup {None})
  <2>1. PICK n \in {1, 2} : DOMAIN c.kex = 1..n
    BY ConfigShape
  <2>2. kex_blob(shares, by) = [i \in 1..n |-> kex_blob(shares, by)[i]]
    BY <1>1, <2>1 DEF kex_blob
  <2>3. \A i \in 1..n : kex_blob(shares, by)[i] \in Secrets \cup {None}
    BY <1>2, <2>1
  <2>4. n \in Nat
    BY <2>1
  <2> QED BY <2>2, <2>3, <2>4
<1>4. ASSUME NEW d
      PROVE  establish(d, shares, by) = [context |-> d.context, secrets |-> kex_blob(shares, by)]
  BY DEF establish, derive_session_key
<1>5. ASSUME NEW d \in CONFIGS PROVE establish(d, shares, by) \in SessionKeys
  <2>1. d.context \in {config.context : config \in CONFIGS} \cup {"altered"}
    OBVIOUS
  <2> QED BY <1>3, <1>4, <2>1 DEF SessionKeys
<1> QED BY <1>1, <1>2, <1>4, <1>5

\* accept recovers the key of a blob made against the owner's own share.
LEMMA AcceptsOwn ==
    ASSUME NEW c \in CONFIGS, NEW d, NEW o \in Owner, NEW by
    PROVE  accept(d, o, kex_blob(kex_public_key(c, o), by)) = establish(d, kex_public_key(c, o), by)
<1> DEFINE shares == kex_public_key(c, o)
           blob == kex_blob(shares, by)
<1>1. DOMAIN blob = DOMAIN c.kex /\ \A i \in DOMAIN c.kex : blob[i].share.owner = o
  BY KeyTypes DEF kex_blob, encaps, ShareOf
<1>2. \A i \in DOMAIN blob : decaps(o, blob[i]) = blob[i]
  BY <1>1 DEF decaps
<1>3. blob = [i \in DOMAIN blob |-> blob[i]]
  BY DEF kex_blob
<1>4. [i \in DOMAIN blob |-> decaps(o, blob[i])] = blob
  BY <1>2, <1>3
<1> QED BY <1>4 DEF accept, establish

\* What the client holds: the server's keys, or the middle's in its own format.
LEMMA HeldKeys ==
    ASSUME Inv, pc \notin {"pin", "begin", "failed"}
    PROVE  /\ \E p \in 0..process :
                 /\ real = Sent(p)
                 /\ real.kex_public_key = kex_public_key(server_config, Server(p))
                 /\ real.sig_public_key = sig_public_key(server_config, Server(p))
           /\ handshake # real =>
                 /\ handshake.kex_public_key = kex_public_key(client_config, Middle)
                 /\ handshake.sig_public_key = sig_public_key(client_config, Middle)
<1>1. PICK p \in 0..process :
        /\ real = Sent(p)
        /\ \/ handshake = real
           \/ handshake = Substituted(real)
           \/ handshake = Resigned(Substituted(real))
  BY DEF Inv, HandshakeInv
<1>2. /\ real.kex_public_key = kex_public_key(server_config, Server(p))
      /\ real.sig_public_key = sig_public_key(server_config, Server(p))
  BY <1>1 DEF Sent
<1>3. /\ Substituted(real).kex_public_key = kex_public_key(client_config, Middle)
      /\ Substituted(real).sig_public_key = sig_public_key(client_config, Middle)
      /\ Resigned(Substituted(real)).kex_public_key = Substituted(real).kex_public_key
      /\ Resigned(Substituted(real)).sig_public_key = Substituted(real).sig_public_key
  BY DEF Substituted, Resigned
<1> QED BY <1>1, <1>2, <1>3

\* Keys of one configuration establish and load on both sides.
LEMMA SameFormat ==
    ASSUME Inv, pc \notin {"pin", "begin", "failed"}, client_config = server_config \/ handshake # real
    PROVE  /\ Establishes(client_config, handshake.kex_public_key)
           /\ Loads(client_config, handshake.sig_public_key)
<1>1. client_config \in CONFIGS /\ process \in Nat
  BY MaxRestartsAssumption DEF Inv, TypeOK
<1>2. PICK p \in 0..process :
        /\ real.kex_public_key = kex_public_key(server_config, Server(p))
        /\ real.sig_public_key = sig_public_key(server_config, Server(p))
  BY HeldKeys
<1>3. Server(p) \in Owner /\ Middle \in Owner
  BY <1>1, OwnerTypes
<1>4. PICK o \in Owner : /\ handshake.kex_public_key = kex_public_key(client_config, o)
                         /\ handshake.sig_public_key = sig_public_key(client_config, o)
  BY <1>2, <1>3, HeldKeys
<1> QED BY <1>1, <1>4, KeyTypes DEF Establishes, ShareOf, Loads

\* The client's own request and the middle's, one case per action.
LEMMA RequestStep == Inv /\ RequestInv /\ [Next]_vars => RequestInv'
<1> SUFFICES ASSUME Inv, RequestInv, [Next]_vars PROVE RequestInv'
  OBVIOUS
<1>0. client_config \in CONFIGS /\ process \in Nat
  BY MaxRestartsAssumption DEF Inv, TypeOK
<1>1. CASE Restart
  BY <1>0, <1>1 DEF Restart, RequestInv, Posted, parties, keys
<1>2. CASE FetchIdentity \/ Handshake
  BY <1>2 DEF FetchIdentity, Handshake, Fail, RequestInv, Posted, parties, keys
<1>3. CASE SubstituteKeys \/ Resign
  BY <1>3 DEF SubstituteKeys, Resign, RequestInv, Posted, parties, keys
<1>4. CASE CheckHandshake
  BY <1>4 DEF CheckHandshake, Fail, RequestInv, Posted, parties, keys
<1>5. CASE Establish
  BY <1>5 DEF Establish, Fail, RequestInv, Posted, parties
<1>6. CASE Intercept
  <2>1. /\ pc = "posted" /\ handshake # real
        /\ request.kex_blob = kex_blob(handshake.kex_public_key, Client)
        /\ session_key = establish(client_config, handshake.kex_public_key, Client)
    BY <1>6 DEF Intercept, RequestInv, Posted
  <2>2. handshake.kex_public_key = kex_public_key(client_config, Middle)
    BY <2>1, HeldKeys
  <2>3. middle_key' = session_key
    BY <1>0, <1>6, <2>1, <2>2, AcceptsOwn, OwnerTypes DEF Intercept
  <2>4. pc' = "forwarded" =>
          /\ Establishes(client_config, real.kex_public_key)
          /\ request'.key = establish(client_config, real.kex_public_key, Middle)
    BY <1>6 DEF Intercept, Fail
  <2>5. pc' \in {"forwarded", "failed"} /\ UNCHANGED <<parties, process, live, real, handshake, session_key>>
    BY <1>6 DEF Intercept, Fail
  <2>6. process = 0 => live
    BY <2>1 DEF RequestInv
  <2> QED BY <2>1, <2>3, <2>4, <2>5, <2>6 DEF RequestInv, Posted, parties
<1>7. CASE Predict
  <2>1. pc' \in {"answered", "intercepted", "failed"} /\ (pc' = "intercepted" => pc = "forwarded")
    BY <1>7 DEF Predict, Fail
  <2>2. pc \in {"posted", "forwarded"} /\ UNCHANGED <<parties, process, real, handshake, keys, request>>
    BY <1>7 DEF Predict
  <2> QED BY <2>1, <2>2 DEF RequestInv, Posted, parties, keys
<1>8. CASE Forge
  BY <1>8 DEF Forge, RequestInv, Posted, parties, keys
<1>9. CASE Tamper("ciphertext") \/ Tamper("signature")
  BY <1>9 DEF Tamper, RequestInv, Posted, parties, keys
<1>10. CASE OpenResponse \/ VerifyResponse \/ GiveUp
  BY <1>10 DEF OpenResponse, VerifyResponse, GiveUp, Fail, RequestInv, Posted, parties, keys
<1>11. CASE UNCHANGED vars
  BY <1>11 DEF vars, RequestInv, Posted, parties, keys
<1> QED BY <1>1, <1>2, <1>3, <1>4, <1>5, <1>6, <1>7, <1>8, <1>9, <1>10, <1>11 DEF Next, Done

\* The keys that encrypt a response are keys.
LEMMA RequestKeys ==
    ASSUME Inv, RequestInv, FormatInv
    PROVE  /\ pc \in Posted => session_key \in SessionKeys
           /\ pc \in {"posted", "forwarded"} => request.key \in SessionKeys
<1>0. client_config \in CONFIGS /\ server_config \in CONFIGS /\ process \in Nat
  BY MaxRestartsAssumption DEF Inv, TypeOK
<1>1. ASSUME pc \in Posted PROVE session_key \in SessionKeys
  <2>1. pc \notin {"pin", "begin", "failed"} /\ Establishes(client_config, handshake.kex_public_key)
    BY <1>1 DEF Posted, FormatInv
  <2>2. PICK p \in 0..process : real.kex_public_key = kex_public_key(server_config, Server(p))
    BY <2>1, HeldKeys
  <2>3. Server(p) \in Owner /\ Middle \in Owner
    BY <1>0, OwnerTypes
  <2>4. PICK c \in CONFIGS, o \in Owner : handshake.kex_public_key = kex_public_key(c, o)
    BY <1>0, <2>1, <2>2, <2>3, HeldKeys
  <2>5. ShareOf(handshake.kex_public_key, c)
    BY <2>4, KeyTypes
  <2>6. establish(client_config, handshake.kex_public_key, Client) \in SessionKeys
    BY <1>0, <2>5, SecretTypes
  <2> QED BY <1>1, <2>6 DEF RequestInv
<1>2. ASSUME pc = "forwarded" PROVE request.key \in SessionKeys
  <2>1. PICK p \in 0..process : real.kex_public_key = kex_public_key(server_config, Server(p))
    BY <1>2, HeldKeys
  <2>2. ShareOf(real.kex_public_key, server_config)
    BY <1>0, <2>1, KeyTypes, OwnerTypes
  <2>3. establish(client_config, real.kex_public_key, Middle) \in SessionKeys
    BY <1>0, <2>2, SecretTypes
  <2> QED BY <1>2, <2>3 DEF RequestInv
<1>3. pc = "posted" => request.key = session_key
  BY DEF RequestInv
<1> QED BY <1>1, <1>2, <1>3 DEF Posted

LEMMA AnswerTypes ==
    ASSUME NEW key \in SessionKeys, NEW text \in {"prediction", "forged"}, NEW signer \in PublicKeys
    PROVE  /\ Answer(key, text, signer) \in Responses
           /\ Answer(key, text, signer).envelope = [key |-> key, text |-> text]
           /\ Answer(key, text, signer).signature =
                 [key |-> signer, message |-> Answer(key, text, signer).envelope]
BY DEF Answer, Signature, Responses, Envelopes

LEMMA GarbageKey == Garbage \in SessionKeys
BY DEF Garbage, derive_session_key, SessionKeys

\* What each action makes of the client's outcome.
LEMMA OutcomeStep == Inv /\ RequestInv /\ FormatInv /\ OutcomeInv /\ [Next]_vars => OutcomeInv'
<1> SUFFICES ASSUME Inv, RequestInv, FormatInv, OutcomeInv, [Next]_vars PROVE OutcomeInv'
  OBVIOUS
<1>0. /\ client_config \in CONFIGS /\ server_config \in CONFIGS /\ process \in Nat
      /\ None \notin {"ciphertext", "signature", "aead", "establish", "timeout", "error", "handshake"}
  BY MaxRestartsAssumption, NoneAssumption DEF Inv, TypeOK
<1> USE DEF OutcomeInv, SignatureOK
<1>1. CASE Restart
  BY <1>1 DEF Restart, parties, keys
<1>2. CASE FetchIdentity
  BY <1>0, <1>2 DEF FetchIdentity, Fail, parties, keys, Inv, PinInv
<1>3. CASE Handshake \/ SubstituteKeys \/ Resign
  BY <1>0, <1>3 DEF Handshake, SubstituteKeys, Resign, parties, keys
<1>4. CASE CheckHandshake
  BY <1>0, <1>4 DEF CheckHandshake, Fail, parties, keys
<1>5. CASE Establish
  BY <1>0, <1>5 DEF Establish, Fail, parties
<1>6. CASE Intercept
  BY <1>0, <1>6 DEF Intercept, Fail, parties
<1>7. CASE Predict
  <2>1. pc \in {"posted", "forwarded"} /\ UNCHANGED <<parties, handshake, session_key>>
    BY <1>7 DEF Predict, keys
  <2>2. \/ pc' = "failed" /\ rejected_at' = "error" /\ response' = response
        \/ /\ pc' \in {"answered", "intercepted"} /\ rejected_at' = rejected_at
           /\ response' = Answer(request.key, "prediction",
                                 sig_public_key(server_config, Server(process)))
    BY <1>7 DEF Predict, Fail
  <2>3. request.key \in SessionKeys
    BY <2>1, RequestKeys
  <2>4. sig_public_key(server_config, Server(process)) \in PublicKeys
    BY <1>0, KeyTypes, OwnerTypes
  <2>5. pc' # "failed" => response' \in Responses
    BY <2>2, <2>3, <2>4, AnswerTypes
  <2> QED BY <1>0, <2>1, <2>2, <2>5 DEF parties
<1>8. CASE Forge
  <2>1. /\ pc = "intercepted" /\ pc' = "answered" /\ UNCHANGED <<parties, handshake, session_key, rejected_at>>
        /\ response' = Answer(middle_key, "forged", sig_public_key(client_config, Middle))
    BY <1>8 DEF Forge, keys
  <2>2. middle_key \in SessionKeys
    BY <2>1, RequestKeys DEF RequestInv, Posted
  <2>3. response' \in Responses
    BY <1>0, <2>1, <2>2, KeyTypes, OwnerTypes, AnswerTypes
  <2> QED BY <1>0, <2>1, <2>3 DEF parties
<1>9. ASSUME NEW field \in {"ciphertext", "signature"}, Tamper(field)
      PROVE  OutcomeInv'
  <2>1. /\ pc = "answered" /\ pc' = pc /\ UNCHANGED <<parties, handshake, session_key, rejected_at>>
    BY <1>9 DEF Tamper, keys
  <2>2. response' \in Responses
    <3>1. response \in Responses /\ sig_public_key(client_config, Nobody) \in PublicKeys
      BY <1>0, <2>1, KeyTypes, OwnerTypes
    <3> QED BY <1>9, <3>1, GarbageKey DEF Tamper, Responses, Envelopes
  <2> QED BY <1>0, <2>1, <2>2 DEF parties
<1>10. CASE OpenResponse
  <2>1. client_config = server_config => Loads(client_config, handshake.sig_public_key)
    BY <1>10, SameFormat DEF OpenResponse
  <2> QED BY <1>0, <1>10, <2>1 DEF OpenResponse, Fail, parties, keys
<1>11. CASE VerifyResponse
  BY <1>0, <1>11 DEF VerifyResponse, Fail, parties, keys
<1>12. CASE GiveUp
  BY <1>0, <1>12 DEF GiveUp, Fail, parties, keys
<1>13. CASE UNCHANGED vars
  BY <1>13 DEF vars, parties, keys
<1> QED BY <1>1, <1>2, <1>3, <1>4, <1>5, <1>6, <1>7, <1>8, <1>9, <1>10, <1>11, <1>12, <1>13
        DEF Next, Done

\* The checks of an exchange nobody disturbs.
LEMMA HonestStep ==
    Inv /\ RequestInv /\ OutcomeInv /\ HonestInv /\ [Next]_vars => HonestInv'
<1> SUFFICES ASSUME Inv, RequestInv, OutcomeInv, HonestInv, [Next]_vars, Undisturbed'
             PROVE  /\ rejected_at' \in {None, "timeout"}
                    /\ pc' \in {"answered", "opened"} =>
                          response' = Answer(session_key', "prediction", handshake'.sig_public_key)
  BY DEF HonestInv
<1>0. /\ client_config \in CONFIGS /\ server_config \in CONFIGS /\ process \in Nat
      /\ None \notin {"ciphertext", "signature"}
  BY MaxRestartsAssumption, NoneAssumption DEF Inv, TypeOK
<1>1. CASE Restart
  BY <1>0, <1>1 DEF Restart, Undisturbed
<1>2. CASE FetchIdentity
  BY <1>2 DEF FetchIdentity, Fail, parties, Undisturbed, Inv, PinInv, OutcomeInv
<1>3. CASE Handshake \/ SubstituteKeys \/ Resign
  BY <1>3 DEF Handshake, SubstituteKeys, Resign, OutcomeInv
<1>a. ASSUME pc \notin {"pin", "begin", "failed"}, UNCHANGED <<parties, process, real, handshake, tampered>>
      PROVE  /\ Undisturbed /\ real = Sent(0) /\ Server(0) \in Owner
             /\ handshake.kex_public_key = kex_public_key(server_config, Server(0))
             /\ handshake.sig_public_key = sig_public_key(server_config, Server(0))
  <2>1. Undisturbed
    BY <1>a DEF Undisturbed, parties
  <2>2. \A p \in 0..process : p = 0
    BY <2>1 DEF Undisturbed
  <2>3. handshake = real
    BY <2>1 DEF Undisturbed
  <2> QED BY <1>a, <2>1, <2>2, <2>3, HeldKeys, OwnerTypes
<1>4. CASE CheckHandshake
  <2>1. /\ pc = "received" /\ mode = "pinned"
        /\ UNCHANGED <<parties, process, real, handshake, tampered, response, session_key>>
    BY <1>4 DEF CheckHandshake, keys
  <2>2. real = Sent(0) /\ handshake = real /\ auth_enabled
    BY <1>a, <2>1 DEF Undisturbed
  <2>3. pinned = IdentityKey(server_config, Server(0))
    <3>1. \E p \in 0..process : pinned = IdentityKey(server_config, Server(p))
      BY <2>1 DEF Inv, PinInv
    <3>2. process = 0
      BY <1>a, <2>1 DEF Undisturbed
    <3> QED BY <3>1, <3>2
  <2>4. verify_handshake
    BY <2>2, <2>3 DEF verify_handshake, Sent
  <2> QED BY <1>4, <2>1, <2>4 DEF CheckHandshake, OutcomeInv
<1>5. CASE Establish
  <2>1. /\ pc \in {"received", "checked"}
        /\ UNCHANGED <<parties, process, real, handshake, tampered>>
    BY <1>5 DEF Establish
  <2>2. Establishes(client_config, handshake.kex_public_key)
    BY <1>a, <2>1, SameFormat DEF Undisturbed
  <2> QED BY <1>5, <2>1, <2>2 DEF Establish, OutcomeInv
<1>6. CASE Intercept
  BY <1>6 DEF Intercept, Undisturbed
<1>7. CASE Predict
  <2>1. /\ pc \in {"posted", "forwarded"} /\ UNCHANGED <<parties, process, real, handshake, tampered, session_key>>
    BY <1>7 DEF Predict, keys
  <2>2. /\ Undisturbed /\ Server(0) \in Owner
        /\ handshake.kex_public_key = kex_public_key(server_config, Server(0))
        /\ handshake.sig_public_key = sig_public_key(server_config, Server(0))
    BY <1>a, <2>1
  <2>3. pc = "posted" /\ live /\ process = 0 /\ client_config = server_config
    BY <2>1, <2>2 DEF Undisturbed, RequestInv
  <2>4. /\ request.kex_blob = kex_blob(handshake.kex_public_key, Client)
        /\ request.key = session_key
        /\ session_key = establish(client_config, handshake.kex_public_key, Client)
    BY <2>3 DEF RequestInv, Posted
  <2>5. accept(server_config, Server(process), request.kex_blob) = request.key
    BY <1>0, <2>2, <2>3, <2>4, AcceptsOwn
  <2>6. /\ response' = Answer(session_key, "prediction", sig_public_key(server_config, Server(0)))
        /\ rejected_at' = rejected_at
    BY <1>7, <2>3, <2>4, <2>5 DEF Predict
  <2> QED BY <2>1, <2>2, <2>6 DEF HonestInv
<1>8. CASE Forge
  BY <1>8 DEF Forge, Undisturbed, RequestInv
<1>9. CASE Tamper("ciphertext") \/ Tamper("signature")
  BY <1>0, <1>9 DEF Tamper, Undisturbed
<1>10. CASE OpenResponse \/ VerifyResponse
  <2>1. /\ pc \in {"answered", "opened"}
        /\ UNCHANGED <<parties, process, real, handshake, tampered, response, session_key>>
    BY <1>10 DEF OpenResponse, VerifyResponse, keys
  <2>2. Undisturbed
    BY <1>a, <2>1
  <2>3. response = Answer(session_key, "prediction", handshake.sig_public_key)
    BY <2>1, <2>2 DEF HonestInv
  <2>4. /\ response.envelope.key = session_key
        /\ response.signature = Signature(handshake.sig_public_key, response.envelope)
    BY <2>3 DEF Answer
  <2>5. Loads(client_config, handshake.sig_public_key)
    BY <2>1, <2>2, SameFormat DEF Undisturbed
  <2>6. rejected_at' = rejected_at
    BY <1>10, <2>4, <2>5 DEF OpenResponse, VerifyResponse
  <2> QED BY <2>1, <2>2, <2>3, <2>6 DEF HonestInv
<1>11. CASE GiveUp
  BY <1>11 DEF GiveUp, Fail
<1>12. CASE UNCHANGED vars
  BY <1>12 DEF vars, parties, keys, Undisturbed, HonestInv
<1> QED BY <1>1, <1>2, <1>3, <1>4, <1>5, <1>6, <1>7, <1>8, <1>9, <1>10, <1>11, <1>12 DEF Next, Done

\* Verdict by verdict, the page says what the benchmark client concluded.
LEMMA PageFollows == Inv /\ OutcomeInv => PageAgrees
<1> SUFFICES ASSUME Inv, OutcomeInv, Ended, mode = "unauthenticated"
             PROVE  LET shown == banner(run_secure_transaction)
                    IN  /\ shown = "verified" <=> pc = "accepted"
                        /\ client_config = server_config =>
                              (shown = "tampering" <=> rejected_at \in {"aead", "signature"})
  BY DEF PageAgrees
<1> DEFINE shown == banner(run_secure_transaction)
           loads == Loads(client_config, handshake.sig_public_key)
           opens == response.envelope.key = session_key
<1>0. /\ None \notin {"signature", "aead", "establish", "timeout", "error"}
      /\ None # FALSE /\ None \notin Responses
  BY NoneAssumption
<1>1. Row(None, None, TRUE).error = TRUE /\ banner(Row(None, None, TRUE)) = "failed"
  BY <1>0 DEF Row, banner
<1>2. CASE response = None \/ rejected_at \in {"establish", "timeout"} \/ ~loads
  <2>1. shown = "failed"
    BY <1>1, <1>2 DEF run_secure_transaction
  <2>2. pc # "accepted"
    BY <1>0, <1>2 DEF OutcomeInv
  <2>3. client_config = server_config => rejected_at \notin {"aead", "signature"}
    BY <1>0, <1>2 DEF OutcomeInv
  <2> QED BY <2>1, <2>2, <2>3
<1>3. CASE ~(response = None \/ rejected_at \in {"establish", "timeout"} \/ ~loads)
  <2>1. run_secure_transaction = Row(SignatureOK, opens, ~opens)
    BY <1>3 DEF run_secure_transaction, SignatureOK
  <2>2. \/ pc = "accepted" /\ rejected_at = None /\ opens /\ SignatureOK
        \/ pc = "failed" /\ rejected_at = "aead" /\ ~opens
        \/ pc = "failed" /\ rejected_at = "signature" /\ opens /\ ~SignatureOK
    BY <1>0, <1>3 DEF OutcomeInv, Ended
  <2>3. /\ opens /\ SignatureOK => shown = "verified"
        /\ ~opens => shown = "tampering"
        /\ opens /\ ~SignatureOK => shown = "tampering"
    <3>1. /\ Row(TRUE, TRUE, FALSE).error = FALSE /\ Row(TRUE, TRUE, FALSE).valid_signature = TRUE
          /\ banner(Row(TRUE, TRUE, FALSE)) = "verified"
      BY DEF Row, banner
    <3>2. banner(Row(TRUE, FALSE, TRUE)) = "tampering" /\ banner(Row(FALSE, FALSE, TRUE)) = "tampering"
      BY DEF Row, banner
    <3>3. banner(Row(FALSE, TRUE, FALSE)) = "tampering"
      BY DEF Row, banner
    <3>4. opens \in BOOLEAN /\ SignatureOK \in BOOLEAN
      BY DEF SignatureOK
    <3> QED BY <2>1, <3>1, <3>2, <3>3, <3>4, Zenon
  <2> QED BY <1>0, <2>2, <2>3
<1> QED BY <1>2, <1>3

ClientInv == Inv /\ FormatInv /\ RequestInv /\ OutcomeInv /\ HonestInv

LEMMA ClientStep == ClientInv /\ [Next]_vars => ClientInv'
BY StepInv, FormatStep, RequestStep, OutcomeStep, HonestStep DEF ClientInv

LEMMA ClientInit == Init => ClientInv
<1> SUFFICES ASSUME Init PROVE ClientInv
  OBVIOUS
<1>1. pc \in {"pin", "begin"} /\ rejected_at = None /\ response = None
  BY DEF Init
<1>2. None \notin {"aead", "signature", "error", "handshake"}
  BY NoneAssumption
<1>3. FormatInv /\ RequestInv /\ OutcomeInv /\ HonestInv
  BY <1>1, <1>2 DEF FormatInv, RequestInv, OutcomeInv, HonestInv, Posted
<1> QED BY <1>3, InitInv DEF ClientInv

\* Every step of the observed exchange is one of the exchange, or of nobody.
LEMMA ObservedSpec == HarvestSpec => Spec
<1>1. HarvestInit => Init
  BY DEF HarvestInit
<1>2. [HarvestNext]_harvestVars => [Next]_vars
  BY DEF HarvestNext, harvestVars, Break
<1> QED BY <1>1, <1>2, PTL DEF HarvestSpec, Spec

\* secure_client and run_secure_transaction refuse nothing that nobody
\* disturbed, and the dashboard's page (live_demo.py) calls a response verified
\* or tampered with exactly when the benchmark's client does, for any number of
\* restarts, whatever the middle does and whatever an observer keeps.
THEOREM ClientsJudgeAlike == HarvestSpec => []ClientsAgree
<1>1. HonestInv => NoFalseRejection
  BY DEF HonestInv, Undisturbed, NoFalseRejection
<1>2. ClientInv => ClientsAgree
  BY <1>1, PageFollows DEF ClientInv, ClientsAgree
<1>3. Spec => []ClientInv
  BY ClientInit, ClientStep, PTL DEF Spec
<1> QED BY <1>2, <1>3, ObservedSpec, PTL

-----------------------------------------------------------------------------
(***************************************************************************)
(* The observer.                                                           *)
(***************************************************************************)
\* The observer has the client's secrets and the key they made, encrypted.
BlobOf(blob, config) ==
    /\ blob = [i \in DOMAIN config.kex |-> blob[i]]
    /\ \A i \in DOMAIN config.kex : blob[i] \in Secrets /\ blob[i].share.scheme = config.kex[i]
ArchiveInv ==
    /\ broken \in {{}, CRQC, {MLKEM}}
    /\ archive.kex_blob = None \/ BlobOf(archive.kex_blob, client_config)
    /\ pc \in {"posted", "forwarded", "intercepted"} =>
          session_key = [context |-> client_config.context, secrets |-> archive.kex_blob]
    /\ pc \in {"pin", "begin", "received", "checked", "posted", "forwarded", "intercepted"} =>
          archive.envelope = None
    /\ archive.envelope = None \/
          archive.envelope.key = [context |-> client_config.context, secrets |-> archive.kex_blob]

\* What passes on the client's link when the client posts its request.
LEMMA CapturedBlob ==
    ASSUME ClientInv, Establish, pc' = "posted"
    PROVE  /\ BlobOf(request'.kex_blob, client_config)
           /\ session_key' = [context |-> client_config.context, secrets |-> request'.kex_blob]
<1>0. client_config \in CONFIGS /\ server_config \in CONFIGS /\ process \in Nat /\ Inv
  BY MaxRestartsAssumption DEF ClientInv, Inv, TypeOK
<1>1. /\ pc \notin {"pin", "begin", "failed"} /\ Establishes(client_config, handshake.kex_public_key)
      /\ request'.kex_blob = kex_blob(handshake.kex_public_key, Client)
      /\ session_key' = establish(client_config, handshake.kex_public_key, Client)
  BY DEF Establish, Fail
<1>2. PICK p \in 0..process : real.kex_public_key = kex_public_key(server_config, Server(p))
  BY <1>0, <1>1, HeldKeys
<1>3. Server(p) \in Owner /\ Middle \in Owner
  BY <1>0, OwnerTypes
<1>4. PICK c \in CONFIGS, o \in Owner : handshake.kex_public_key = kex_public_key(c, o)
  BY <1>0, <1>1, <1>2, <1>3, HeldKeys
<1>5. ShareOf(handshake.kex_public_key, client_config)
  BY <1>1, <1>4, KeyTypes DEF ShareOf, Establishes
<1> DEFINE blob == kex_blob(handshake.kex_public_key, Client)
<1>6. /\ DOMAIN blob = DOMAIN client_config.kex
      /\ \A i \in DOMAIN client_config.kex : blob[i] \in Secrets /\ blob[i].share = handshake.kex_public_key[i]
      /\ session_key' = [context |-> client_config.context, secrets |-> blob]
  BY <1>0, <1>1, <1>5, SecretTypes
<1>7. blob = [i \in DOMAIN blob |-> blob[i]]
  BY DEF kex_blob
<1> QED BY <1>1, <1>5, <1>6, <1>7 DEF BlobOf, ShareOf

\* The steps in which something is recorded, and the others.
LEMMA ArchiveStep == ClientInv /\ ArchiveInv /\ [HarvestNext]_harvestVars => ArchiveInv'
<1> SUFFICES ASSUME ClientInv, ArchiveInv, [HarvestNext]_harvestVars PROVE ArchiveInv'
  OBVIOUS
<1>1. CASE Break(CRQC) \/ Break({MLKEM})
  BY <1>1 DEF Break, vars, parties, keys, ArchiveInv, BlobOf
<1>2. CASE UNCHANGED harvestVars
  BY <1>2 DEF harvestVars, vars, parties, keys, ArchiveInv, BlobOf
<1>3. CASE Next /\ Capture /\ UNCHANGED broken
  <2>0. client_config' = client_config
    BY <1>3 DEF Next, Restart, FetchIdentity, Handshake, SubstituteKeys, Resign, CheckHandshake, Establish,
       Intercept, Predict, Forge, Tamper, OpenResponse, VerifyResponse, GiveUp, Done, vars, parties
  <2>1. CASE Establish
    <3>1. pc \in {"received", "checked"} /\ pc' \in {"posted", "failed"}
      BY <2>1 DEF Establish, Fail
    <3>2. archive.envelope = None /\ archive'.envelope = archive.envelope
      BY <1>3, <3>1 DEF ArchiveInv, Capture
    <3>3. CASE pc' = "posted"
      <4>1. archive'.kex_blob = request'.kex_blob
        BY <1>3, <3>1, <3>3 DEF Capture
      <4> QED BY <1>3, <2>0, <2>1, <3>2, <3>3, <4>1, CapturedBlob DEF ArchiveInv
    <3>4. CASE pc' = "failed"
      BY <1>3, <2>0, <3>2, <3>4 DEF ArchiveInv, Capture
    <3> QED BY <3>1, <3>3, <3>4
  <2>2. CASE Predict \/ Forge
    <3>1. /\ pc \in {"posted", "forwarded", "intercepted"} /\ session_key' = session_key
          /\ pc' \in {"answered", "intercepted", "failed"}
          /\ archive'.kex_blob = archive.kex_blob
      BY <1>3, <2>2 DEF Predict, Forge, Fail, keys, Capture
    <3>2. session_key = [context |-> client_config.context, secrets |-> archive.kex_blob]
      BY <3>1 DEF ArchiveInv
    <3>3. pc' = "answered" => response'.envelope.key = session_key
      BY <2>2 DEF Predict, Forge, Fail, Answer, ClientInv, RequestInv
    <3>4. archive'.envelope = None \/ archive'.envelope.key = session_key
      BY <1>3, <3>1, <3>3 DEF Capture, ArchiveInv
    <3>5. pc' = "intercepted" => archive'.envelope = None
      BY <1>3, <3>1 DEF Capture, ArchiveInv
    <3> QED BY <1>3, <2>0, <3>1, <3>2, <3>4, <3>5 DEF ArchiveInv
  <2>3. CASE ~(Establish \/ Predict \/ Forge)
    <3>1. /\ pc' = "posted" => pc = "posted"
          /\ pc' = "answered" => pc = "answered"
          /\ pc' \in {"forwarded", "intercepted"} => pc \in {"posted", "forwarded", "intercepted"}
          /\ pc' \in {"pin", "begin", "received", "checked"} => pc \in {"pin", "begin", "received", "checked"}
          /\ session_key' = session_key
      BY <1>3, <2>3 DEF Next, Restart, FetchIdentity, Handshake, SubstituteKeys, Resign, CheckHandshake,
         Intercept, Tamper, OpenResponse, VerifyResponse, GiveUp, Fail, Done, vars, keys
    <3>2. archive'.kex_blob = archive.kex_blob /\ archive'.envelope = archive.envelope
      BY <1>3, <3>1 DEF Capture
    <3> QED BY <1>3, <2>0, <3>1, <3>2 DEF ArchiveInv
  <2> QED BY <2>1, <2>2, <2>3
<1> QED BY <1>1, <1>2, <1>3 DEF HarvestNext

\* The observer recovers the key exactly when every primitive of it has fallen.
LEMMA ReadableWhenAllFallen ==
    ASSUME ArchiveInv, Archived
    PROVE  Readable <=> \A i \in DOMAIN client_config.kex : client_config.kex[i] \in broken
<1> DEFINE blob == archive.kex_blob
           open == [i \in DOMAIN blob |-> IF blob[i].share.scheme \in broken THEN blob[i] ELSE None]
<1>1. /\ blob = [i \in DOMAIN client_config.kex |-> blob[i]]
      /\ \A i \in DOMAIN client_config.kex :
            blob[i] \in Secrets /\ blob[i].share.scheme = client_config.kex[i]
  BY DEF ArchiveInv, Archived, BlobOf
<1>2. DOMAIN blob = DOMAIN client_config.kex
  BY <1>1
<1>3. archive.envelope.key = [context |-> client_config.context, secrets |-> blob]
  BY DEF ArchiveInv, Archived
<1>4. Recovered = [context |-> client_config.context, secrets |-> open]
  BY DEF Recovered, derive_session_key
<1> HIDE DEF blob, open
<1>5. Readable <=> open = blob
  BY <1>3, <1>4 DEF Readable
<1>6. open = blob <=> \A i \in DOMAIN client_config.kex : client_config.kex[i] \in broken
  <2>1. None \notin Secrets
    BY NoneAssumption
  <2>2. open = blob <=> \A i \in DOMAIN blob : (IF blob[i].share.scheme \in broken THEN blob[i] ELSE None) = blob[i]
    BY <1>1, <1>2 DEF open
  <2> QED BY <1>1, <1>2, <2>1, <2>2
<1> QED BY <1>5, <1>6

\* The primitives of each configuration, by name.
LEMMA Primitives ==
    ASSUME NEW c \in CONFIGS
    PROVE  \/ c.name = "classical" /\ c.kex = <<RSA>> /\ c.sig = ECDSA
           \/ c.name = "classical_ecdhe" /\ c.kex = <<X25519>> /\ c.sig = ECDSA
           \/ c.name = "hybrid" /\ c.kex = <<MLKEM>> /\ c.sig = ECDSA
           \/ c.name = "hybrid_kex" /\ c.kex = <<MLKEM, X25519>> /\ c.sig = ECDSA
           \/ c.name = "full_pqc" /\ c.kex = <<MLKEM>> /\ c.sig = MLDSA
           \/ c.name = "hybrid_kex_pq" /\ c.kex = <<MLKEM, X25519>> /\ c.sig = MLDSA
<1> DEFINE P(d, name, kex, sig) == d.name = name /\ d.kex = kex /\ d.sig = sig
<1>1. /\ P(classical, "classical", <<RSA>>, ECDSA)
      /\ P(classical_ecdhe, "classical_ecdhe", <<X25519>>, ECDSA)
      /\ P(hybrid, "hybrid", <<MLKEM>>, ECDSA)
      /\ P(hybrid_kex, "hybrid_kex", <<MLKEM, X25519>>, ECDSA)
      /\ P(full_pqc, "full_pqc", <<MLKEM>>, MLDSA)
  BY DEF classical, classical_ecdhe, hybrid, hybrid_kex, full_pqc, Config
<1>2. P(hybrid_kex_pq, "hybrid_kex_pq", <<MLKEM, X25519>>, MLDSA)
  BY DEF hybrid_kex_pq, hybrid_kex, Config
<1> QED BY <1>1, <1>2, Zenon DEF CONFIGS

\* The tables, row by row.
LEMMA TablesTrue == ClientInv /\ ArchiveInv => TablesFollowKeySchedule
<1> SUFFICES ASSUME ClientInv, ArchiveInv, Archived
             PROVE  TablesFollowKeySchedule
  BY DEF TablesFollowKeySchedule, HarvestAsTabulated, ScoresFollowExposure
<1> DEFINE c == client_config
<1>1. c \in CONFIGS /\ broken \in {{}, CRQC, {MLKEM}}
  BY DEF ClientInv, Inv, TypeOK, ArchiveInv
<1>2. /\ c.kex = <<RSA>> => (Readable <=> RSA \in broken)
      /\ c.kex = <<X25519>> => (Readable <=> X25519 \in broken)
      /\ c.kex = <<MLKEM>> => (Readable <=> MLKEM \in broken)
      /\ c.kex = <<MLKEM, X25519>> => (Readable <=> MLKEM \in broken /\ X25519 \in broken)
  BY ReadableWhenAllFallen
<1>3. /\ RSA \in CRQC /\ X25519 \in CRQC /\ MLKEM \notin CRQC /\ ECDSA \in CRQC /\ MLDSA \notin CRQC
      /\ RSA # MLKEM /\ X25519 # MLKEM
  BY DEF CRQC, RSA, X25519, MLKEM, ECDSA, MLDSA
<1>4. CRQC # {} /\ CRQC # {MLKEM}
  BY <1>3
<1> HIDE DEF c
<1> DEFINE Facts(name, crqc, mlkem, sig, score) ==
      /\ c.name = name
      /\ broken = {} => ~Readable
      /\ broken = CRQC => (Readable <=> crqc) /\ (c.sig \notin broken <=> sig)
      /\ broken = {MLKEM} => (Readable <=> mlkem)
      /\ KEX_DECRYPTABLE_UNDER_CRQC[name] = crqc /\ SECURITY_SCORES[name] = score
      /\ name \notin KexVsCrqc <=> crqc
      /\ name \notin KexIfMlkemBreaks <=> mlkem
      /\ name \in SigVsCrqc <=> sig
      /\ score = IF crqc THEN 0 ELSE IF sig THEN 10 ELSE 8
<1>5. \/ Facts("classical", TRUE, FALSE, FALSE, 0)
      \/ Facts("classical_ecdhe", TRUE, FALSE, FALSE, 0)
      \/ Facts("hybrid", FALSE, TRUE, FALSE, 8)
      \/ Facts("hybrid_kex", FALSE, FALSE, FALSE, 8)
      \/ Facts("full_pqc", FALSE, TRUE, TRUE, 10)
      \/ Facts("hybrid_kex_pq", FALSE, FALSE, TRUE, 10)
  BY <1>1, <1>2, <1>3, Primitives
     DEF KEX_DECRYPTABLE_UNDER_CRQC, SECURITY_SCORES, KexVsCrqc, KexIfMlkemBreaks, SigVsCrqc
<1>6. ASSUME NEW name, NEW crqc \in BOOLEAN, NEW mlkem \in BOOLEAN, NEW sig \in BOOLEAN, NEW score,
             Facts(name, crqc, mlkem, sig, score)
      PROVE  TablesFollowKeySchedule
  BY <1>6 DEF c, TablesFollowKeySchedule, HarvestAsTabulated, ScoresFollowExposure
<1> HIDE DEF Facts
<1> QED BY <1>5, <1>6

\* KEX_DECRYPTABLE_UNDER_CRQC of hndl_capture.py, SEC_AXES of paper_figures.py
\* and SECURITY_SCORES of tradeoff_matrix.py say of every recorded exchange
\* what an observer can open once a primitive has fallen, whoever was on the
\* path and however often the server restarted.
THEOREM TablesHold == HarvestSpec => []TablesFollowKeySchedule
<1>1. HarvestInit => ClientInv /\ ArchiveInv
  BY ClientInit DEF HarvestInit, Init, ArchiveInv
<1>2. ClientInv /\ ArchiveInv /\ [HarvestNext]_harvestVars => (ClientInv /\ ArchiveInv)'
  BY ArchiveStep, ClientStep DEF HarvestNext, harvestVars, Break
<1> QED BY <1>1, <1>2, TablesTrue, PTL DEF HarvestSpec

=============================================================================
