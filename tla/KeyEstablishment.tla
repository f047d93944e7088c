--------------------------- MODULE KeyEstablishment ---------------------------
(***************************************************************************)
(* The six configurations of crypto/: which primitives establish the       *)
(* session key, which one signs, and the HKDF context that separates them. *)
(*                                                                         *)
(* Symbolically, a public key is its scheme, its owner and its use; an     *)
(* owner is a process, or the middle, in one handshake.  The secret a      *)
(* client makes against a key share, by RSA-OAEP transport, encapsulation  *)
(* or Diffie-Hellman alike, names the share and the client's randomness;   *)
(* only the owner of the share and the client can compute it.              *)
(***************************************************************************)
EXTENDS Integers, Sequences

CONSTANT None  \* Python's None

RSA == "RSA-2048-OAEP"
X25519 == "X25519"
MLKEM == "ML-KEM-768"
ECDSA == "ECDSA-P256-SHA256"
MLDSA == "ML-DSA-65"

Config(name, kex, sig, context) ==
    [name |-> name, kex |-> kex, sig |-> sig, context |-> context]

classical == Config("classical", <<RSA>>, ECDSA, "pq-shield-classical")
classical_ecdhe == Config("classical_ecdhe", <<X25519>>, ECDSA, "pq-shield-classical-ecdhe")
hybrid == Config("hybrid", <<MLKEM>>, ECDSA, "pq-shield-hybrid")
hybrid_kex ==
    Config("hybrid_kex", <<MLKEM, X25519>>, ECDSA, "pq-shield-hybrid-kex-x25519mlkem768")
full_pqc == Config("full_pqc", <<MLKEM>>, MLDSA, "pq-shield-full-pqc")

\* Mutant: sign and verify are inherited from hybrid_kex, not overridden.
hybrid_kex_pq_inherited == [hybrid_kex EXCEPT !.name = "hybrid_kex_pq"]

\* hybrid_kex_pq inherits establish and accept, context included.
hybrid_kex_pq == [hybrid_kex EXCEPT !.name = "hybrid_kex_pq", !.sig = MLDSA]

CONFIGS == {classical, classical_ecdhe, hybrid, hybrid_kex, full_pqc, hybrid_kex_pq}

-----------------------------------------------------------------------------
PublicKey(scheme, owner, use) == [scheme |-> scheme, owner |-> owner, use |-> use]

\* new_handshake: the key share, a public key per primitive, and the signing key.
kex_public_key(config, owner) ==
    [i \in DOMAIN config.kex |-> PublicKey(config.kex[i], owner, "kex")]
sig_public_key(config, owner) == PublicKey(config.sig, owner, "sig")

\* MLKEM768.encaps, or what RSA-OAEP and X25519 do in its place.
encaps(share, randomness) == [share |-> share, by |-> randomness]

\* MLKEM768.decaps: made against another share, it is not the client's secret.
decaps(owner, ciphertext) == IF ciphertext.share.owner = owner THEN ciphertext ELSE None

\* Mutant: of several secrets only the last one enters the key.
derive_session_key_last(secrets, context) ==
    [context |-> context,
     secrets |-> [i \in DOMAIN secrets \cap {Len(secrets)} |-> secrets[i]]]

derive_session_key(secrets, context) == [context |-> context, secrets |-> secrets]

\* establish raises on a key share of another format.
Establishes(config, shares) ==
    /\ DOMAIN shares = DOMAIN config.kex
    /\ \A i \in DOMAIN shares : shares[i].scheme = config.kex[i]

kex_blob(shares, randomness) == [i \in DOMAIN shares |-> encaps(shares[i], randomness)]

\* Mutant: derive_session_key's default context on the client's side only.
establish_default_context(config, shares, randomness) ==
    derive_session_key(kex_blob(shares, randomness), "pq-shield-session-key")

\* The session key of whoever ran establish.
establish(config, shares, randomness) ==
    derive_session_key(kex_blob(shares, randomness), config.context)

\* accept: the owner of the shares recovers what the blob carries.
accept(config, owner, blob) ==
    derive_session_key([i \in DOMAIN blob |-> decaps(owner, blob[i])], config.context)

\* Algorithms of verify: a key of the other algorithm does not load.
Loads(config, key) == key.scheme = config.sig
Signature(key, message) == [key |-> key, message |-> message]

-----------------------------------------------------------------------------
(***************************************************************************)
(* crypto/handshake_auth.py.                                               *)
(***************************************************************************)
\* Mutant: the transcript covers the names and not the keys.
transcript_without_keys(config, shares, sig_key) ==
    [kex_algorithm |-> config.kex, sig_algorithm |-> config.sig,
     kex_public_key |-> None, sig_public_key |-> None]

\* Everything the client relies on; the handshake_id is that of the one
\* handshake under study.
transcript(config, shares, sig_key) ==
    [kex_algorithm |-> config.kex, sig_algorithm |-> config.sig,
     kex_public_key |-> shares, sig_public_key |-> sig_key]

identity_algorithm_for(config) == IF config.sig = MLDSA THEN MLDSA ELSE ECDSA
IdentityKey(config, owner) == 
    PublicKey(identity_algorithm_for(config), owner, "identity")

=============================================================================
