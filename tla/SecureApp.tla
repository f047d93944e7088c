------------------------------ MODULE SecureApp ------------------------------
(***************************************************************************)
(* The server of api/secure_app.py: the handshake store of the crypto      *)
(* configuration (crypto/base.py and its implementations), the session     *)
(* keys kept for resumed requests, and the /secure/predict handler.        *)
(*                                                                         *)
(* FastAPI runs each call of the handler in its own threadpool thread, so  *)
(* calls interleave wherever they touch the two dictionaries.  Key         *)
(* material is symbolic: a kex blob carries the session key it             *)
(* establishes, a ciphertext is identified by the key it was made under.   *)
(***************************************************************************)
EXTENDS Integers, FiniteSets

CONSTANTS Calls,     \* identities of the calls of POST /secure/predict
          Hids,      \* handshake ids the server may issue
          Keys,      \* session keys clients may establish
          None       \* Python's None, and a field not set yet

ASSUME NoneAssumption == None \notin Keys /\ None \notin Hids

VARIABLES sessions,      \* server_crypto._sessions: handshake ids with live key pairs
          session_keys,  \* session_keys: Hids -> Keys, None where there is no entry
          calls          \* the state of each call of the handler

serverVars == <<sessions, session_keys, calls>>

\* Where a call stops, by HTTP status.
Refusals == {"404 handshake", "404 session", "400 payload", "500 sign"}
Statuses == Refusals \cup {"200", "500 predict"}
Running == {"accept", "keep", "resume", "decrypt", "sign", "pop", "forget"}

NotSent == [pc |-> "unsent", hid |-> None, kex_key |-> None, keep_session |-> FALSE,
            body_key |-> None, session_key |-> None]

ServerTypeOK ==
    /\ sessions \subseteq Hids
    /\ session_keys \in [Hids -> Keys \cup {None}]
    /\ calls \in [Calls -> [pc: {"unsent", "lost"} \cup Running \cup Statuses,
                            hid: Hids \cup {None}, kex_key: Keys \cup {None},
                            keep_session: BOOLEAN,
                            body_key: Keys \cup {None}, session_key: Keys \cup {None}]]

ServerInit(live) ==
    /\ sessions = live
    /\ session_keys = [h \in Hids |-> None]
    /\ calls = [c \in Calls |-> NotSent]

-----------------------------------------------------------------------------
\* GET /secure/handshake: new_handshake under a fresh uuid.
new_handshake(h) == sessions' = sessions \cup {h} /\ UNCHANGED session_keys

\* A request is on its way: with a kex blob it will be accepted, without one
\* (kex_key = None) resumed.
Arrive(c, h, kex_key, keep_session, body_key) ==
    calls' = [calls EXCEPT ![c] =
        [pc |-> IF kex_key # None THEN "accept" ELSE "resume",
         hid |-> h, kex_key |-> kex_key, keep_session |-> keep_session,
         body_key |-> body_key, session_key |-> None]]

Goto(c, pc) == calls' = [calls EXCEPT ![c].pc = pc]
GotoWith(c, pc, key) == calls' = [calls EXCEPT ![c].pc = pc, ![c].session_key = key]

\* The request never reaches the handler.
Lose(c) ==
    /\ calls[c].pc \in {"accept", "resume"}
    /\ Goto(c, "lost")
    /\ UNCHANGED <<sessions, session_keys>>

\* server_crypto.accept: KeyError becomes a 404.
Accept(c) ==
    /\ calls[c].pc = "accept"
    /\ IF calls[c].hid \in sessions
       THEN GotoWith(c, IF calls[c].keep_session THEN "keep" ELSE "decrypt", calls[c].kex_key)
       ELSE Goto(c, "404 handshake")
    /\ UNCHANGED <<sessions, session_keys>>

\* session_keys[req.handshake_id] = session_key
Keep(c) ==
    /\ calls[c].pc = "keep"
    /\ session_keys' = [session_keys EXCEPT ![calls[c].hid] = calls[c].session_key]
    /\ Goto(c, "decrypt")
    /\ UNCHANGED sessions

\* session_keys.get(req.handshake_id)
Resume(c) ==
    /\ calls[c].pc = "resume"
    /\ LET key == session_keys[calls[c].hid] IN
       IF key # None THEN GotoWith(c, "decrypt", key) ELSE Goto(c, "404 session")
    /\ UNCHANGED <<sessions, session_keys>>

\* aead_decrypt, then json.loads and model_service.predict, which may raise.
Decrypt(c) ==
    /\ calls[c].pc = "decrypt"
    /\ IF calls[c].session_key = calls[c].body_key
       THEN Goto(c, "sign") \/ Goto(c, "500 predict")
       ELSE Goto(c, "400 payload")
    /\ UNCHANGED <<sessions, session_keys>>

\* server_crypto.sign looks the handshake up again; nothing catches KeyError.
SignResponse(c) ==
    /\ calls[c].pc = "sign"
    /\ Goto(c, IF calls[c].hid \notin sessions THEN "500 sign"
               ELSE IF calls[c].keep_session THEN "200" ELSE "pop")
    /\ UNCHANGED <<sessions, session_keys>>

\* Mutant: the kept session key is not dropped.
PopSkipped(c) ==
    /\ calls[c].pc = "pop"
    /\ Goto(c, "forget")
    /\ UNCHANGED <<sessions, session_keys>>

\* session_keys.pop(req.handshake_id, None)
Pop(c) ==
    /\ calls[c].pc = "pop"
    /\ session_keys' = [session_keys EXCEPT ![calls[c].hid] = None]
    /\ Goto(c, "forget")
    /\ UNCHANGED sessions

\* server_crypto.forget(req.handshake_id)
ForgetHandshake(c) ==
    /\ calls[c].pc = "forget"
    /\ sessions' = sessions \ {calls[c].hid}
    /\ Goto(c, "200")
    /\ UNCHANGED session_keys

HandlerStep(c) ==
    \/ Accept(c) \/ Keep(c) \/ Resume(c) \/ Decrypt(c) \/ SignResponse(c)
    \/ Pop(c) \/ ForgetHandshake(c)

=============================================================================
